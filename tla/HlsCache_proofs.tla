--------------------------- MODULE HlsCache_proofs ---------------------------
(* The segments that split_into_segments makes of what remux_source finds   *)
(* in a file, for every file the parsers can see; and what the cache keeps  *)
(* of them, through requests, removals, hang-ups and crashes.  A recursive  *)
(* definition is reasoned about by induction on numbers, which follows from *)
(* the well-foundedness of < on Nat: the function exists (Recursion,        *)
(* WalkExists), so what CHOOSE yields satisfies its equation.               *)
EXTENDS HlsCache, WellFoundedInduction, SequenceTheorems, FiniteSetTheorems, TLAPS

-----------------------------------------------------------------------------
(* Induction, over sets of numbers *)

Below == {p \in Nat \X Nat : p[1] < p[2]}

LEMMA LeastNumber ==
  ASSUME NEW S \in SUBSET Nat, S # {}
  PROVE  \E m \in S : \A k \in S : m <= k
<1>1. Below = OpToRel(<, Nat)
  BY DEF Below, OpToRel
<1>2. IsWellFoundedOn(Below, Nat)
  BY <1>1, NatLessThanWellFounded
<1>3. PICK m \in S : \A k \in S : ~(<<k, m>> \in Below)
  BY <1>2, WFMin, Zenon
<1>4. ASSUME NEW k \in S
      PROVE  m <= k
  <2>1. m \in Nat /\ k \in Nat /\ ~(<<k, m>> \in Below)
    BY <1>3
  <2> QED
    BY <2>1 DEF Below
<1> QED
  BY <1>3, <1>4

LEMMA Induction ==
  ASSUME NEW S, 0 \in S, \A n \in Nat : n \in S => n + 1 \in S
  PROVE  Nat \subseteq S
<1> SUFFICES ASSUME NEW z \in Nat, z \notin S
             PROVE  FALSE
  OBVIOUS
<1> DEFINE bad == {k \in Nat : k \notin S}
<1>1. PICK m \in bad : \A k \in bad : m <= k
  BY LeastNumber, bad \in SUBSET Nat, z \in bad, Zenon
<1> HIDE DEF bad
<1>2. /\ m \in Nat /\ m \notin S
      /\ \A k \in Nat : k \notin S => m <= k
  BY <1>1 DEF bad
<1>3. m # 0
  BY <1>2
<1>4. m - 1 \in Nat /\ m - 1 \in S
  BY <1>2, <1>3
<1> QED
  BY <1>2, <1>4

LEMMA UpToInduction ==
  ASSUME NEW n \in Nat, NEW S, 0 \in S, \A i \in 1..n : i - 1 \in S => i \in S
  PROVE  0..n \subseteq S
<1> DEFINE T == {k \in Nat : k \in 0..n => k \in S}
<1>1. 0 \in T
  OBVIOUS
<1>2. \A k \in Nat : k \in T => k + 1 \in T
  <2> SUFFICES ASSUME NEW k \in Nat, k \in T, k + 1 \in 0..n
               PROVE  k + 1 \in S
    OBVIOUS
  <2>1. k + 1 \in 1..n /\ k \in S /\ (k + 1) - 1 = k
    OBVIOUS
  <2> QED
    BY <2>1
<1> HIDE DEF T
<1>3. Nat \subseteq T
  BY <1>1, <1>2, Induction
<1> QED
  BY <1>3 DEF T

(* A function whose values each follow from the one before.                *)
IsStep(G, n, S) == n \in Nat /\ G \in [(1..n) \X S -> S]

Follows(f, a, G, n, S) ==
    f \in [0..n -> S] /\ f[0] = a /\ \A i \in 1..n : f[i] = G[<<i, f[i - 1]>>]

LEMMA Recursion ==
  ASSUME NEW S, NEW n, NEW G, IsStep(G, n, S), NEW a \in S
  PROVE  \E f : Follows(f, a, G, n, S)
<1> n \in Nat /\ G \in [(1..n) \X S -> S]
  BY DEF IsStep
<1> DEFINE T == {k \in 0..n : \E f \in [0..n -> S] :
                                f[0] = a /\ \A i \in 1..k : f[i] = G[<<i, f[i - 1]>>]}
<1>1. 0 \in T
  <2> DEFINE g == [i \in 0..n |-> a]
  <2>1. g \in [0..n -> S] /\ g[0] = a /\ 0 \in 0..n
    OBVIOUS
  <2>2. \A i \in 1..0 : g[i] = G[<<i, g[i - 1]>>]
    OBVIOUS
  <2> HIDE DEF g
  <2> QED
    BY <2>1, <2>2
<1>2. ASSUME NEW k \in 1..n, k - 1 \in T
      PROVE  k \in T
  <2>0. PICK f \in [0..n -> S] : f[0] = a /\ \A i \in 1..(k - 1) : f[i] = G[<<i, f[i - 1]>>]
    BY <1>2
  <2>1. f[k - 1] \in S /\ k - 1 \in 0..n /\ k \in 0..n /\ k # 0
    BY <2>0
  <2>2. PICK v \in S : v = G[<<k, f[k - 1]>>]
    BY <2>1
  <2> DEFINE g == [f EXCEPT ![k] = v]
  <2>3. g \in [0..n -> S] /\ g[0] = a
    BY <2>0, <2>1
  <2>4. ASSUME NEW i \in 1..k
        PROVE  g[i] = G[<<i, g[i - 1]>>]
    <3>1. g[i - 1] = f[i - 1]
      BY <2>1
    <3>2. CASE i = k
      BY <3>1, <3>2, <2>1, <2>2
    <3>3. CASE i # k
      <4>1. i \in 1..(k - 1) /\ g[i] = f[i]
        BY <3>3, <2>1
      <4> QED
        BY <4>1, <3>1, <2>0
    <3> QED
      BY <3>2, <3>3
  <2> HIDE DEF g
  <2> QED
    BY <2>1, <2>3, <2>4
<1> HIDE DEF T
<1>3. n \in T
  BY <1>1, <1>2, UpToInduction
<1> QED
  BY <1>3 DEF T, Follows

-----------------------------------------------------------------------------
(* Sums *)

(* SumTo adds up one number more at a time.                                *)
LEMMA Sums ==
  ASSUME NEW s \in Seq(Nat)
  PROVE  /\ SumTo(s, 0) = 0
         /\ \A n \in 0..Len(s) : SumTo(s, n) \in Nat
         /\ \A n \in 1..Len(s) : SumTo(s, n) = SumTo(s, n - 1) + s[n]
<1> DEFINE sum(n) == CHOOSE f : f = [i \in 0..n |-> IF i = 0 THEN 0 ELSE f[i - 1] + s[i]]
<1>0. \A n : SumTo(s, n) = sum(n)[n]
  BY DEF SumTo
<1>1. ASSUME NEW n \in 0..Len(s)
      PROVE  sum(n) = [i \in 0..n |-> IF i = 0 THEN 0 ELSE sum(n)[i - 1] + s[i]]
  <2> DEFINE G == [p \in (1..n) \X Nat |-> p[2] + s[p[1]]]
  <2>1. IsStep(G, n, Nat)
    BY DEF IsStep
  <2>2. \A i \in 1..n, x \in Nat : G[<<i, x>>] = x + s[i]
    OBVIOUS
  <2> HIDE DEF G
  <2>3. PICK f : Follows(f, 0, G, n, Nat)
    BY <2>1, Recursion, 0 \in Nat, Zenon
  <2>4. /\ f \in [0..n -> Nat] /\ f[0] = 0
        /\ \A i \in 1..n : f[i] = G[<<i, f[i - 1]>>]
    BY <2>3 DEF Follows
  <2>5. ASSUME NEW i \in 1..n
        PROVE  f[i] = f[i - 1] + s[i]
    <3>1. f[i - 1] \in Nat
      BY <2>4
    <3> QED
      BY <3>1, <2>2, <2>4
  <2>6. f = [i \in 0..n |-> IF i = 0 THEN 0 ELSE f[i - 1] + s[i]]
    BY <2>4, <2>5
  <2> QED
    BY <2>6, Zenon
<1> HIDE DEF sum
<1>2. ASSUME NEW n \in 0..Len(s)
      PROVE  /\ sum(n)[0] = 0
             /\ \A i \in 1..n : sum(n)[i] = sum(n)[i - 1] + s[i]
  BY <1>1
<1>3. ASSUME NEW n \in 0..Len(s), NEW m \in 0..n
      PROVE  \A i \in 0..m : sum(m)[i] = sum(n)[i] /\ sum(n)[i] \in Nat
  <2> DEFINE S == {i \in 0..m : sum(m)[i] = sum(n)[i] /\ sum(n)[i] \in Nat}
  <2>1. 0 \in S
    BY <1>2
  <2>2. ASSUME NEW i \in 1..m, i - 1 \in S
        PROVE  i \in S
    <3>1. sum(m)[i] = sum(m)[i - 1] + s[i] /\ sum(n)[i] = sum(n)[i - 1] + s[i]
      BY <1>2, m \in 0..Len(s), i \in 1..n
    <3>2. sum(m)[i - 1] = sum(n)[i - 1] /\ sum(n)[i - 1] \in Nat /\ s[i] \in Nat
      BY <2>2
    <3> QED
      BY <3>1, <3>2
  <2> HIDE DEF S
  <2>3. 0..m \subseteq S
    BY <2>1, <2>2, m \in Nat, UpToInduction
  <2> QED
    BY <2>3 DEF S
<1>4. \A n \in 0..Len(s) : sum(n)[n] \in Nat
  BY <1>3
<1>5. ASSUME NEW n \in 1..Len(s)
      PROVE  sum(n)[n] = sum(n - 1)[n - 1] + s[n]
  BY <1>2, <1>3, n - 1 \in 0..n, n \in 0..Len(s)
<1>6. sum(0)[0] = 0
  BY <1>2
<1> QED
  BY <1>0, <1>4, <1>5, <1>6

-----------------------------------------------------------------------------
(* Segments *)

Samples == [from : Nat, to : Nat, dur : Nat, entry : Nat]
Pieces  == [first : Nat, last : Nat, dur : Nat]
Chunks  == [closed : Seq(Pieces), first : Nat, dur : Nat]

FirstChunk == [closed |-> <<>>, first |-> 1, dur |-> 0]

\* The sample i starts a segment.
Breaks(samples, target, i, p) ==
    /\ i > p.first
    /\ \/ p.dur > 0 /\ p.dur + samples[i].dur > target
       \/ i > p.first /\ samples[i - 1].entry # samples[i].entry

NextChunk(samples, target, i, p) ==
    IF Breaks(samples, target, i, p)
    THEN [closed |-> Append(p.closed, [first |-> p.first, last |-> i - 1, dur |-> p.dur]),
          first  |-> i, dur |-> samples[i].dur]
    ELSE [p EXCEPT !.dur = p.dur + samples[i].dur]

LEMMA NextChunkType ==
  ASSUME NEW samples \in Seq(Samples), NEW target \in Nat,
         NEW i \in 1..Len(samples), NEW p \in Chunks
  PROVE  NextChunk(samples, target, i, p) \in Chunks
<1>0. samples[i] \in Samples
  OBVIOUS
<1>1. samples[i].dur \in Nat /\ i \in Nat /\ i - 1 \in Nat
  BY <1>0 DEF Samples
<1>2. p.closed \in Seq(Pieces) /\ p.first \in Nat /\ p.dur \in Nat
  BY DEF Chunks
<1>3. [first |-> p.first, last |-> i - 1, dur |-> p.dur] \in Pieces
  BY <1>1, <1>2 DEF Pieces
<1>4. Append(p.closed, [first |-> p.first, last |-> i - 1, dur |-> p.dur]) \in Seq(Pieces)
  BY <1>2, <1>3
<1>5. p.dur + samples[i].dur \in Nat
  BY <1>1, <1>2
<1> QED
  BY <1>1, <1>2, <1>4, <1>5 DEF NextChunk, Chunks

LEMMA SplitSteps ==
  ASSUME NEW samples \in Seq(Samples), NEW target \in Nat, samples # <<>>
  PROVE  \E u \in [0..Len(samples) -> Chunks] :
            /\ u[0] = FirstChunk
            /\ \A i \in 1..Len(samples) : u[i] = NextChunk(samples, target, i, u[i - 1])
            /\ SplitIntoSegments(samples, target)
                 = Append(u[Len(samples)].closed,
                          [first |-> u[Len(samples)].first, last |-> Len(samples),
                           dur |-> u[Len(samples)].dur])
<1> DEFINE n == Len(samples)
           body(f) == [i \in 0..n |->
              IF i = 0 THEN [closed |-> <<>>, first |-> 1, dur |-> 0]
              ELSE LET p       == f[i - 1]
                       s       == samples[i]
                       exceeds == p.dur > 0 /\ p.dur + s.dur > target
                       changed == i > p.first /\ samples[i - 1].entry # s.entry
                   IN  IF i > p.first /\ (exceeds \/ changed)
                       THEN [closed |-> Append(p.closed, [first |-> p.first, last |-> i - 1, dur |-> p.dur]),
                             first  |-> i, dur |-> s.dur]
                       ELSE [p EXCEPT !.dur = p.dur + s.dur]]
           upTo == CHOOSE f : f = body(f)
           G == [x \in (1..n) \X Chunks |-> NextChunk(samples, target, x[1], x[2])]
<1>1. SplitIntoSegments(samples, target)
        = Append(upTo[n].closed, [first |-> upTo[n].first, last |-> n, dur |-> upTo[n].dur])
  BY n # 0 DEF SplitIntoSegments
<1>2. n \in Nat /\ FirstChunk \in Chunks
  BY DEF FirstChunk, Chunks
<1>3. IsStep(G, n, Chunks)
  BY <1>2, NextChunkType DEF IsStep
<1>4. \A i \in 1..n, p \in Chunks : G[<<i, p>>] = NextChunk(samples, target, i, p)
  OBVIOUS
<1> HIDE DEF G
<1>5. PICK f : Follows(f, FirstChunk, G, n, Chunks)
  BY <1>2, <1>3, Recursion, Zenon
<1>6. f \in [0..n -> Chunks] /\ f[0] = FirstChunk
  BY <1>5 DEF Follows
<1>7. ASSUME NEW i \in 1..n
      PROVE  f[i] = NextChunk(samples, target, i, f[i - 1])
  <2>1. f[i] = G[<<i, f[i - 1]>>]
    BY <1>5 DEF Follows
  <2>2. f[i - 1] \in Chunks
    BY <1>6, <1>2
  <2> QED
    BY <2>1, <2>2, <1>4
<1>8. f = body(f)
  BY <1>6, <1>7 DEF NextChunk, Breaks, FirstChunk
<1>9. upTo = body(upTo)
  <2> HIDE DEF body
  <2> QED
    BY <1>8, Zenon
<1> HIDE DEF upTo
<1>10. upTo[0] = FirstChunk
  BY <1>9, <1>2 DEF FirstChunk
<1>11. ASSUME NEW i \in 1..n
       PROVE  upTo[i] = NextChunk(samples, target, i, upTo[i - 1])
  <2>1. i \in 0..n /\ i # 0
    BY <1>2
  <2> QED
    BY <1>9, <2>1 DEF NextChunk, Breaks
<1> HIDE DEF body
<1>12. \A i \in 0..n : upTo[i] \in Chunks
  <2> DEFINE S == {i \in 0..n : upTo[i] \in Chunks}
  <2>1. 0 \in S
    BY <1>2, <1>10
  <2>2. \A i \in 1..n : i - 1 \in S => i \in S
    BY <1>2, <1>11, NextChunkType
  <2> HIDE DEF S
  <2>3. 0..n \subseteq S
    BY <1>2, <2>1, <2>2, UpToInduction
  <2> QED
    BY <2>3 DEF S
<1>13. upTo \in [0..n -> Chunks]
  BY <1>9, <1>12 DEF body
<1> QED
  BY <1>1, <1>10, <1>11, <1>13

\* What the samples up to i have been split into.
Split(samples, target, i, p) ==
    /\ p.first \in 1..i
    /\ p.dur = SumTo(Durations(samples), i) - SumTo(Durations(samples), p.first - 1)
    /\ \/ p.dur <= target
       \/ SumTo(Durations(samples), i - 1) - SumTo(Durations(samples), p.first - 1) = 0
    /\ \A j \in p.first..i : samples[j].entry = samples[p.first].entry
    /\ IF p.closed = <<>> THEN p.first = 1 ELSE p.closed[1].first = 1
    /\ \A k \in DOMAIN p.closed :
          SegmentFits(samples, p.closed[k], target,
                      IF k < Len(p.closed) THEN p.closed[k + 1].first ELSE p.first)

LEMMA DurationSums ==
  ASSUME NEW samples \in Seq(Samples)
  PROVE  /\ SumTo(Durations(samples), 0) = 0
         /\ \A i \in 0..Len(samples) : SumTo(Durations(samples), i) \in Nat
         /\ \A i \in 1..Len(samples) :
               /\ samples[i].dur \in Nat
               /\ SumTo(Durations(samples), i) = SumTo(Durations(samples), i - 1) + samples[i].dur
<1>1. \A i \in 1..Len(samples) : samples[i] \in Samples
  OBVIOUS
<1>2. Durations(samples) \in Seq(Nat) /\ Len(Durations(samples)) = Len(samples)
  <2>1. \A i \in 1..Len(samples) : samples[i].dur \in Nat
    BY <1>1 DEF Samples
  <2>2. DOMAIN samples = 1..Len(samples) /\ Len(samples) \in Nat
    OBVIOUS
  <2>3. Durations(samples) \in [1..Len(samples) -> Nat]
    BY <2>1, <2>2 DEF Durations
  <2> QED
    BY <2>2, <2>3
<1>3. \A i \in 1..Len(samples) : Durations(samples)[i] = samples[i].dur
  BY DEF Durations
<1> QED
  BY <1>1, <1>2, <1>3, Sums DEF Samples

LEMMA SplitFirst ==
  ASSUME NEW samples \in Seq(Samples), NEW target \in Nat, samples # <<>>
  PROVE  Split(samples, target, 1, NextChunk(samples, target, 1, FirstChunk))
<1>1. 1 \in 1..Len(samples)
  OBVIOUS
<1>2. NextChunk(samples, target, 1, FirstChunk)
        = [closed |-> <<>>, first |-> 1, dur |-> samples[1].dur]
  BY <1>1, DurationSums DEF NextChunk, FirstChunk, Breaks
<1> DEFINE p == NextChunk(samples, target, 1, FirstChunk)
<1> HIDE DEF p
<1>3. p.closed = <<>> /\ p.first = 1 /\ p.dur = samples[1].dur
  BY <1>2 DEF p
<1>4. /\ SumTo(Durations(samples), 0) = 0
      /\ SumTo(Durations(samples), 1) = samples[1].dur /\ samples[1].dur \in Nat
  BY <1>1, DurationSums
<1> QED
  BY <1>3, <1>4 DEF Split, p

LEMMA SplitNext ==
  ASSUME NEW samples \in Seq(Samples), NEW target \in Nat, NEW p \in Chunks,
         NEW i \in 1..Len(samples), i > 1, Split(samples, target, i - 1, p)
  PROVE  Split(samples, target, i, NextChunk(samples, target, i, p))
<1> DEFINE sum(k) == SumTo(Durations(samples), k)
           q == NextChunk(samples, target, i, p)
           End(k) == IF k < Len(p.closed) THEN p.closed[k + 1].first ELSE p.first
           NextEnd(k) == IF k < Len(q.closed) THEN q.closed[k + 1].first ELSE q.first
<1>0. /\ p.closed \in Seq(Pieces) /\ p.first \in Nat /\ p.dur \in Nat
      /\ Len(p.closed) \in Nat /\ DOMAIN p.closed = 1..Len(p.closed)
      /\ DOMAIN p = {"closed", "first", "dur"}
  BY DEF Chunks
<1>1. /\ i \in Nat /\ i - 1 \in 1..Len(samples)
      /\ p.first \in 1..(i - 1)
      /\ p.dur = sum(i - 1) - sum(p.first - 1)
      /\ p.dur <= target \/ sum((i - 1) - 1) - sum(p.first - 1) = 0
      /\ \A j \in p.first..(i - 1) : samples[j].entry = samples[p.first].entry
  BY DEF Split
<1>2. /\ p.closed = <<>> => p.first = 1
      /\ p.closed # <<>> => p.closed[1].first = 1
      /\ \A k \in DOMAIN p.closed : SegmentFits(samples, p.closed[k], target, End(k))
  BY DEF Split, End
<1>3. /\ sum(i) = sum(i - 1) + samples[i].dur /\ samples[i].dur \in Nat
      /\ sum(i - 1) \in Nat /\ sum(p.first - 1) \in Nat /\ sum(i) \in Nat
  BY <1>1, DurationSums
<1> HIDE DEF sum, End, NextEnd
<1>4. CASE ~Breaks(samples, target, i, p)
  <2>1. /\ q.closed = p.closed /\ q.first = p.first /\ q.dur = p.dur + samples[i].dur
    BY <1>0, <1>4 DEF NextChunk
  <2> HIDE DEF q
  <2>2. q.first \in 1..i /\ q.dur = sum(i) - sum(q.first - 1)
    BY <1>1, <1>3, <2>1
  <2>3. q.dur <= target \/ sum(i - 1) - sum(q.first - 1) = 0
    <3>1. p.dur + samples[i].dur <= target \/ p.dur = 0
      <4>1. i > p.first
        BY <1>1
      <4>2. ~(p.dur > 0 /\ p.dur + samples[i].dur > target)
        BY <1>4, <4>1 DEF Breaks
      <4> QED
        BY <1>0, <1>3, <4>2
    <3>2. CASE p.dur = 0
      BY <1>1, <2>1, <3>2
    <3>3. CASE p.dur + samples[i].dur <= target
      BY <2>1, <3>3
    <3> QED
      BY <3>1, <3>2, <3>3
  <2>4. samples[i - 1].entry = samples[i].entry
    BY <1>1, <1>4 DEF Breaks
  <2>5. \A j \in q.first..i : samples[j].entry = samples[q.first].entry
    BY <1>1, <2>1, <2>4
  <2> QED
    BY <1>1, <1>2, <2>1, <2>2, <2>3, <2>5 DEF Split, sum, q, End
<1>5. CASE Breaks(samples, target, i, p)
  <2> DEFINE piece == [first |-> p.first, last |-> i - 1, dur |-> p.dur]
  <2>1. /\ q.closed = Append(p.closed, piece) /\ q.first = i /\ q.dur = samples[i].dur
    BY <1>5 DEF NextChunk
  <2> HIDE DEF q
  <2>2. piece \in Pieces
    BY <1>0, <1>1 DEF Pieces
  <2>3. SegmentFits(samples, piece, target, i)
    <3>1. p.dur + samples[i].dur > target \/ samples[i - 1].entry # samples[i].entry
      BY <1>5 DEF Breaks
    <3> QED
      BY <1>0, <1>1, <1>3, <3>1 DEF SegmentFits, sum
  <2>4. piece.first = p.first
    OBVIOUS
  <2> HIDE DEF piece
  <2>5. /\ Len(q.closed) = Len(p.closed) + 1
        /\ \A k \in 1..Len(p.closed) : q.closed[k] = p.closed[k]
        /\ q.closed[Len(p.closed) + 1] = piece
        /\ Len(p.closed) \in Nat /\ DOMAIN q.closed = 1..(Len(p.closed) + 1)
    BY <1>0, <2>1, <2>2
  <2>6. q.closed # <<>> /\ q.closed[1].first = 1
    <3>1. q.closed # <<>>
      BY <2>5
    <3>2. CASE p.closed = <<>>
      <4>1. q.closed[1] = piece
        BY <2>5, <3>2
      <4> QED
        BY <1>2, <2>4, <3>1, <3>2, <4>1, Zenon
    <3>3. CASE p.closed # <<>>
      <4>1. q.closed[1] = p.closed[1]
        BY <1>0, <2>5, <3>3
      <4> QED
        BY <1>2, <3>1, <3>3, <4>1, Zenon
    <3> QED
      BY <3>2, <3>3
  <2>7. ASSUME NEW k \in DOMAIN q.closed
        PROVE  SegmentFits(samples, q.closed[k], target, NextEnd(k))
    <3> k \in Nat
      BY <2>5
    <3>0. k < Len(p.closed) \/ k = Len(p.closed) \/ k = Len(p.closed) + 1
      BY <2>5
    <3>1. CASE k = Len(p.closed) + 1
      <4>1. q.closed[k] = piece /\ NextEnd(k) = i
        BY <2>1, <2>5, <3>1 DEF NextEnd
      <4> QED
        BY <2>3, <4>1, Zenon
    <3>2. CASE k < Len(p.closed) \/ k = Len(p.closed)
      <4>1. q.closed[k] = p.closed[k] /\ k \in DOMAIN p.closed
        <5>1. k \in 1..Len(p.closed)
          BY <1>0, <2>5, <3>2
        <5> QED
          BY <1>0, <2>5, <5>1, Zenon
      <4>2. NextEnd(k) = End(k)
        <5>1. NextEnd(k) = q.closed[k + 1].first
          BY <2>5, <3>2 DEF NextEnd
        <5>2. CASE k < Len(p.closed)
          <6>1. q.closed[k + 1] = p.closed[k + 1]
            <7>1. k + 1 \in 1..Len(p.closed)
              BY <1>0, <5>2
            <7> QED
              BY <2>5, <7>1, Zenon
          <6>2. End(k) = p.closed[k + 1].first
            BY <5>2 DEF End
          <6> QED
            BY <5>1, <6>1, <6>2, Zenon
        <5>3. CASE k = Len(p.closed)
          <6>1. q.closed[k + 1] = piece
            BY <2>5, <5>3
          <6>2. End(k) = p.first
            BY <1>0, <5>3 DEF End
          <6> QED
            BY <2>4, <5>1, <6>1, <6>2, Zenon
        <5> QED
          BY <3>2, <5>2, <5>3
      <4> QED
        BY <1>2, <4>1, <4>2, Zenon
    <3> QED
      BY <3>0, <3>1, <3>2
  <2>8. /\ q.first \in 1..i /\ q.dur = sum(i) - sum(q.first - 1)
        /\ sum(i - 1) - sum(q.first - 1) = 0
        /\ \A j \in q.first..i : samples[j].entry = samples[q.first].entry
    <3>1. q.first = i /\ q.first \in 1..i
      BY <1>1, <2>1
    <3>2. q.dur = sum(i) - sum(i - 1) /\ sum(i - 1) - sum(i - 1) = 0
      BY <1>3, <2>1
    <3>3. \A j \in i..i : j = i
      BY <1>1
    <3> QED
      BY <3>1, <3>2, <3>3
  <2> QED
    BY <2>6, <2>7, <2>8 DEF Split, sum, q, NextEnd
<1> QED
  BY <1>4, <1>5

(* split_into_segments cuts any samples into segments that follow each      *)
(* other, fit the target duration, and have one sample entry each.         *)
THEOREM SegmentsAlwaysCover ==
  ASSUME NEW samples \in Seq(Samples), NEW target \in Nat, samples # <<>>
  PROVE  /\ SplitIntoSegments(samples, target) \in Seq(Pieces)
         /\ SegmentsCover(samples, SplitIntoSegments(samples, target), target)
<1> DEFINE n == Len(samples)
           segs == SplitIntoSegments(samples, target)
<1>1. n \in Nat \ {0}
  OBVIOUS
<1>2. PICK u \in [0..n -> Chunks] :
         /\ u[0] = FirstChunk
         /\ \A i \in 1..n : u[i] = NextChunk(samples, target, i, u[i - 1])
         /\ segs = Append(u[n].closed, [first |-> u[n].first, last |-> n, dur |-> u[n].dur])
  BY SplitSteps
<1> HIDE DEF segs
<1>3. \A i \in 1..n : Split(samples, target, i, u[i])
  <2> DEFINE S == {i \in 0..n : i > 0 => Split(samples, target, i, u[i])}
  <2>1. 0 \in S
    BY <1>1
  <2>2. ASSUME NEW i \in 1..n, i - 1 \in S
        PROVE  i \in S
    <3>1. CASE i = 1
      BY <3>1, <1>1, <1>2, SplitFirst
    <3>2. CASE i > 1
      <4>1. Split(samples, target, i - 1, u[i - 1])
        BY <3>2, <2>2
      <4>2. u[i - 1] \in Chunks
        BY <1>1, <1>2
      <4> QED
        BY <4>1, <4>2, <3>2, <1>2, SplitNext
    <3> QED
      BY <3>1, <3>2
  <2> HIDE DEF S
  <2>3. 0..n \subseteq S
    BY <1>1, <2>1, <2>2, UpToInduction
  <2> QED
    BY <2>3 DEF S
<1> DEFINE p == u[n]
           piece == [first |-> p.first, last |-> n, dur |-> p.dur]
<1>4. p \in Chunks /\ Split(samples, target, n, p) /\ segs = Append(p.closed, piece)
  BY <1>1, <1>2, <1>3
<1> HIDE DEF p
<1>5. /\ p.closed \in Seq(Pieces) /\ p.first \in Nat /\ p.dur \in Nat
      /\ piece \in Pieces /\ piece.first = p.first
  BY <1>1, <1>4 DEF Chunks, Pieces
<1>6. SegmentFits(samples, piece, target, n + 1)
  <2>1. n + 1 \notin DOMAIN samples
    OBVIOUS
  <2> QED
    BY <1>1, <1>4, <2>1, DurationSums DEF Split, SegmentFits
<1> HIDE DEF piece
<1>7. segs \in Seq(Pieces)
  BY <1>4, <1>5
<1>8. /\ Len(segs) = Len(p.closed) + 1 /\ Len(p.closed) \in Nat
      /\ \A k \in 1..Len(p.closed) : segs[k] = p.closed[k]
      /\ segs[Len(p.closed) + 1] = piece
      /\ DOMAIN segs = 1..(Len(p.closed) + 1)
  BY <1>4, <1>5
<1>9. segs # <<>> /\ segs[1].first = 1
  BY <1>4, <1>5, <1>8 DEF Split
<1>10. ASSUME NEW k \in DOMAIN segs
       PROVE  SegmentFits(samples, segs[k], target,
                          IF k < Len(segs) THEN segs[k + 1].first ELSE n + 1)
  <2>0. \A j \in DOMAIN p.closed :
          SegmentFits(samples, p.closed[j], target,
                      IF j < Len(p.closed) THEN p.closed[j + 1].first ELSE p.first)
    BY <1>4 DEF Split
  <2>1. CASE k = Len(p.closed) + 1
    BY <2>1, <1>6, <1>8
  <2>2. CASE k = Len(p.closed)
    <3>1. segs[k] = p.closed[k] /\ segs[k + 1].first = p.first /\ k \in DOMAIN p.closed
      BY <2>2, <1>5, <1>8
    <3>2. SegmentFits(samples, p.closed[k], target, p.first)
      <4> DEFINE end == IF k < Len(p.closed) THEN p.closed[k + 1].first ELSE p.first
      <4>1. SegmentFits(samples, p.closed[k], target, end)
        BY <2>0, <3>1, Zenon
      <4>2. end = p.first
        BY <2>2, <1>8
      <4> QED
        BY <4>1, <4>2, Zenon
    <3>3. (IF k < Len(segs) THEN segs[k + 1].first ELSE n + 1) = p.first
      <4>1. k < Len(segs)
        BY <2>2, <1>8
      <4> QED
        BY <3>1, <4>1, Zenon
    <3> QED
      BY <3>1, <3>2, <3>3, Zenon
  <2>3. CASE k < Len(p.closed)
    <3>1. segs[k] = p.closed[k] /\ segs[k + 1] = p.closed[k + 1] /\ k \in DOMAIN p.closed
      BY <2>3, <1>5, <1>8
    <3> QED
      BY <2>0, <2>3, <3>1, <1>8
  <2> QED
    BY <1>8, <2>1, <2>2, <2>3
<1> QED
  BY <1>7, <1>9, <1>10 DEF SegmentsCover, segs

-----------------------------------------------------------------------------
(* Recursion that goes up and stops: a walk over the offsets of a file *)

LEMMA DownwardInduction ==
  ASSUME NEW N \in Nat, NEW T, \A o \in Nat : o >= N => o \in T,
         \A o \in Nat : (\A q \in Nat : q > o => q \in T) => o \in T
  PROVE  Nat \subseteq T
<1> DEFINE S == {k \in Nat : \A o \in Nat : o + k >= N => o \in T}
<1>1. 0 \in S
  OBVIOUS
<1>2. ASSUME NEW k \in Nat, k \in S
      PROVE  k + 1 \in S
  <2>1. ASSUME NEW o \in Nat, o + (k + 1) >= N
        PROVE  o \in T
    <3>1. \A q \in Nat : q > o => q \in T
      BY <1>2, <2>1
    <3> QED
      BY <3>1
  <2> QED
    BY <2>1
<1> HIDE DEF S
<1>3. Nat \subseteq S
  BY <1>1, <1>2, Induction
<1>4. N \in S
  BY <1>3
<1>5. \A o \in Nat : o + N >= N => o \in T
  BY <1>4 DEF S
<1> QED
  BY <1>5

IsWalk(H, next, N, S) ==
    /\ N \in Nat
    /\ next \in [Nat -> Nat] /\ \A o \in Nat : next[o] > o
    /\ H \in [Nat \X S -> S]

Walks(f, base, H, next, N, S) ==
    /\ f \in [Nat -> S]
    /\ \A o \in Nat : f[o] = IF o >= N THEN base ELSE H[<<o, f[next[o]]>>]

LEMMA WalkExists ==
  ASSUME NEW S, NEW H, NEW next, NEW N, IsWalk(H, next, N, S), NEW base \in S
  PROVE  \E f : Walks(f, base, H, next, N, S)
<1>0. /\ N \in Nat
      /\ next \in [Nat -> Nat] /\ \A o \in Nat : next[o] > o
      /\ H \in [Nat \X S -> S]
  BY DEF IsWalk
<1> DEFINE Right(f, o) == f[o] = IF o >= N THEN base ELSE H[<<o, f[next[o]]>>]
           T == {k \in Nat : \E f \in [Nat -> S] : \A o \in Nat : o + k >= N => Right(f, o)}
<1>1. 0 \in T
  <2> DEFINE f == [o \in Nat |-> base]
  <2>1. f \in [Nat -> S] /\ \A o \in Nat : o + 0 >= N => Right(f, o)
    BY <1>0
  <2> HIDE DEF f, Right
  <2> QED
    BY <2>1
<1>2. ASSUME NEW k \in Nat, k \in T
      PROVE  k + 1 \in T
  <2>1. PICK f \in [Nat -> S] : \A o \in Nat : o + k >= N => Right(f, o)
    BY <1>2
  <2>2. CASE k + 1 > N
    <3>1. \A o \in Nat : o + (k + 1) >= N => o + k >= N
      BY <2>2, <1>0
    <3> HIDE DEF Right
    <3> QED
      BY <2>1, <3>1
  <2>3. CASE k + 1 <= N
    <3>1. PICK m \in Nat : m + (k + 1) = N
      BY <2>3, <1>0
    <3>2. next[m] \in Nat /\ next[m] > m
      BY <1>0
    <3>3. f[next[m]] \in S
      BY <3>2
    <3>4. PICK v \in S : v = H[<<m, f[next[m]]>>]
      BY <3>3, <1>0
    <3> DEFINE g == [f EXCEPT ![m] = v]
    <3>5. g \in [Nat -> S]
      OBVIOUS
    <3>6. g[m] = v /\ \A o \in Nat : o # m => g[o] = f[o]
      OBVIOUS
    <3> HIDE DEF g
    <3>7. ASSUME NEW o \in Nat, o + (k + 1) >= N
          PROVE  Right(g, o)
      <4>1. next[o] \in Nat /\ next[o] > o /\ o >= m
        BY <3>1, <3>7, <1>0
      <4>2. g[next[o]] = f[next[o]]
        BY <4>1, <3>6
      <4>3. CASE o = m
        <5>1. ~(o >= N)
          BY <4>3, <3>1, <1>0
        <5> QED
          BY <5>1, <4>2, <4>3, <3>4, <3>6
      <4>4. CASE o # m
        <5>1. o + k >= N /\ g[o] = f[o]
          BY <4>1, <4>4, <3>1, <3>6
        <5> QED
          BY <5>1, <4>2, <2>1
      <4> QED
        BY <4>3, <4>4
    <3> HIDE DEF Right
    <3> QED
      BY <3>5, <3>7
  <2> QED
    BY <2>2, <2>3, <1>0
<1> HIDE DEF T
<1>3. Nat \subseteq T
  BY <1>1, <1>2, Induction
<1>4. N \in T
  BY <1>0, <1>3
<1>5. PICK f \in [Nat -> S] : \A o \in Nat : o + N >= N => Right(f, o)
  BY <1>4 DEF T
<1>6. \A o \in Nat : o + N >= N
  BY <1>0
<1> QED
  BY <1>5, <1>6 DEF Walks

-----------------------------------------------------------------------------
(* What remuxing makes of a file: a sequence of samples, or an error *)

IsTrack(r) ==
    /\ r.ok \in BOOLEAN
    /\ r.samples \in Seq(Samples)
    /\ r.ok => r.samples # <<>>

LEMMA TrackIs ==
  /\ \A s \in Seq(Samples) : IsTrack(Track(s))
  /\ IsTrack(RemuxError)
<1>1. <<>> \in Seq(Samples)
  OBVIOUS
<1> QED
  BY <1>1 DEF IsTrack, Track, RemuxError

LEMMA Joined ==
  ASSUME NEW S, NEW x \in S, NEW s \in Seq(S)
  PROVE  <<x>> \o s \in Seq(S)
OBVIOUS

Traces(f, base, H, next, N, S) ==
    /\ \A o \in Nat : o >= N => f[o] = base
    /\ \A o \in Nat : f[next[o]] \in S => f[o] = IF o >= N THEN base ELSE H[<<o, f[next[o]]>>]

LEMMA WalkType ==
  ASSUME NEW S, NEW H, NEW next, NEW N, IsWalk(H, next, N, S), NEW base \in S,
         NEW f, Traces(f, base, H, next, N, S)
  PROVE  \A o \in Nat : f[o] \in S
<1> /\ \A o \in Nat : o >= N => f[o] = base
    /\ \A o \in Nat : f[next[o]] \in S => f[o] = IF o >= N THEN base ELSE H[<<o, f[next[o]]>>]
  BY DEF Traces
<1>0. /\ N \in Nat
      /\ next \in [Nat -> Nat] /\ \A o \in Nat : next[o] > o
      /\ H \in [Nat \X S -> S]
  BY DEF IsWalk
<1> DEFINE T == {o \in Nat : f[o] \in S}
<1>1. \A o \in Nat : o >= N => o \in T
  OBVIOUS
<1>2. ASSUME NEW o \in Nat, \A q \in Nat : q > o => q \in T
      PROVE  o \in T
  <2>1. f[next[o]] \in S
    BY <1>0, <1>2
  <2>2. f[o] = IF o >= N THEN base ELSE H[<<o, f[next[o]]>>]
    BY <2>1
  <2> QED
    BY <1>0, <2>1, <2>2
<1> HIDE DEF T
<1>3. Nat \subseteq T
  BY <1>0, <1>1, <1>2, DownwardInduction
<1> QED
  BY <1>3 DEF T

-----------------------------------------------------------------------------
(* MP3 and ADTS *)

\* The search for frames, as a function of the offset where it goes on.
LEMMA Mp3Scan ==
  ASSUME NEW file, IsFile(file), file.format = "mp3"
  PROVE  \E scan :
            /\ RemuxMp3(file) = Track(scan[file.tag]) /\ file.tag \in Nat
            /\ \A o \in Nat :
                  /\ scan[o] \in Seq(Samples)
                  /\ scan[o] = IF o + HeaderLen["mp3"] > file.len THEN <<>>
                               ELSE IF file.at[o] = NoFrame THEN scan[o + 1]
                               ELSE IF o + file.at[o].length > file.len THEN <<>>
                               ELSE <<Sample(o, o + file.at[o].length, file.at[o].dur, 0)>>
                                      \o scan[o + file.at[o].length]
<1> DEFINE S == Seq(Samples)
           L == HeaderLen["mp3"]
           body(scan) == [o \in Nat |->
              LET f == file.at[o] IN
              IF o + HeaderLen["mp3"] > file.len THEN <<>>
              ELSE IF f = NoFrame THEN scan[o + 1]
              ELSE IF o + f.length > file.len THEN <<>>
              ELSE <<Sample(o, o + f.length, f.dur, 0)>> \o scan[o + f.length]]
           scan == CHOOSE f : f = body(f)
           Framed(o) == o + L <= file.len /\ file.at[o] # NoFrame
           next == [o \in Nat |-> IF Framed(o) THEN o + file.at[o].length ELSE o + 1]
           Of(o, rest) == IF o + L > file.len THEN <<>>
                          ELSE IF file.at[o] = NoFrame THEN rest
                          ELSE IF o + file.at[o].length > file.len THEN <<>>
                          ELSE <<Sample(o, o + file.at[o].length, file.at[o].dur, 0)>> \o rest
           H == [x \in Nat \X S |-> Of(x[1], x[2])]
<1>0. <<>> \in S
  OBVIOUS
<1>1. RemuxMp3(file) = Track(scan[file.tag])
  BY DEF RemuxMp3
<1>2. /\ L \in Nat \ {0} /\ file.tag \in Nat /\ file.len \in Nat
      /\ \A o \in 0..(file.len - L) : file.at[o] # NoFrame => file.at[o] \in [length : Nat \ {0}, dur : Nat]
  BY RemuxConstants DEF IsFile
<1>3. ASSUME NEW o \in Nat, Framed(o)
      PROVE  file.at[o].length \in Nat \ {0} /\ file.at[o].dur \in Nat
  BY <1>2, <1>3
<1>4. \A o \in Nat : next[o] \in Nat /\ next[o] > o
  BY <1>3
<1>5. ASSUME NEW o \in Nat, NEW rest \in S
      PROVE  Of(o, rest) \in S
  <2>1. CASE ~Framed(o) \/ o + file.at[o].length > file.len
    BY <2>1, <1>2
  <2>2. CASE Framed(o) /\ ~(o + file.at[o].length > file.len)
    <3>1. Sample(o, o + file.at[o].length, file.at[o].dur, 0) \in Samples
      BY <1>3, <2>2 DEF Sample, Samples
    <3>2. Of(o, rest) = <<Sample(o, o + file.at[o].length, file.at[o].dur, 0)>> \o rest
      BY <1>2, <2>2
    <3> QED
      BY <3>1, <3>2, Joined
  <2> QED
    BY <2>1, <2>2
<1> HIDE DEF Of
<1>6. \A o \in Nat, rest \in S : H[<<o, rest>>] = Of(o, rest)
  OBVIOUS
<1>7. IsWalk(H, next, file.len, S)
  BY <1>2, <1>4, <1>5 DEF IsWalk
<1> HIDE DEF H
<1>8. PICK f : Walks(f, <<>>, H, next, file.len, S)
  BY <1>0, <1>7, WalkExists, Zenon
<1>9. \A o \in Nat : f[o] = IF o + L > file.len THEN <<>> ELSE Of(o, f[next[o]])
  <2> SUFFICES ASSUME NEW o \in Nat
               PROVE  f[o] = IF o + L > file.len THEN <<>> ELSE Of(o, f[next[o]])
    OBVIOUS
  <2>1. f[next[o]] \in S
    BY <1>4, <1>8 DEF Walks
  <2>2. f[o] = IF o >= file.len THEN <<>> ELSE Of(o, f[next[o]])
    BY <2>1, <1>6, <1>8 DEF Walks
  <2> QED
    BY <2>2, <1>2 DEF Of
<1>10. f = body(f)
  <2>1. f = [o \in Nat |-> f[o]]
    BY <1>8 DEF Walks
  <2>2. ASSUME NEW o \in Nat
        PROVE  f[o] = body(f)[o]
    <3>1. CASE o + L > file.len
      BY <3>1, <1>9
    <3>2. CASE o + L <= file.len
      <4>1. ~(o + L > file.len)
        BY <3>2, <1>2
      <4>2. f[o] = Of(o, f[next[o]])
        <5> HIDE DEF L
        <5> QED
          BY <4>1, <1>9, Zenon
      <4> QED
        BY <3>2, <4>2, <1>2 DEF Of
    <3> QED
      BY <3>1, <3>2, <1>2
  <2> QED
    BY <2>1, <2>2
<1>11. scan = body(scan)
  <2> HIDE DEF body
  <2> QED
    BY <1>10, Zenon
<1> HIDE DEF scan
<1>12. ASSUME NEW o \in Nat, scan[next[o]] \in S
       PROVE  scan[o] = IF o >= file.len THEN <<>> ELSE H[<<o, scan[next[o]]>>]
  <2>1. H[<<o, scan[next[o]]>>] = Of(o, scan[next[o]])
    BY <1>6, <1>12
  <2>2. CASE o + L > file.len
    BY <2>1, <2>2, <1>11 DEF Of
  <2>3. CASE o + L <= file.len
    <3>1. ~(o >= file.len)
      BY <2>3, <1>2
    <3> QED
      BY <3>1, <2>1, <2>3, <1>2, <1>11 DEF Of
  <2> QED
    BY <2>2, <2>3, <1>2
<1>13. ASSUME NEW o \in Nat, o >= file.len
       PROVE  scan[o] = <<>>
  BY <1>2, <1>11, <1>13
<1>14. \A o \in Nat : scan[o] = IF o + L > file.len THEN <<>>
                               ELSE IF file.at[o] = NoFrame THEN scan[o + 1]
                               ELSE IF o + file.at[o].length > file.len THEN <<>>
                               ELSE <<Sample(o, o + file.at[o].length, file.at[o].dur, 0)>>
                                      \o scan[o + file.at[o].length]
  BY <1>11
<1> HIDE DEF body
<1>15. \A o \in Nat : scan[o] \in S
  <2>1. Traces(scan, <<>>, H, next, file.len, S)
    BY <1>12, <1>13 DEF Traces
  <2> QED
    BY <1>0, <1>7, <2>1, WalkType, Zenon
<1> QED
  BY <1>1, <1>2, <1>14, <1>15

LEMMA Mp3Track ==
  ASSUME NEW file, IsFile(file), file.format = "mp3"
  PROVE  IsTrack(RemuxMp3(file))
<1>1. PICK scan : /\ RemuxMp3(file) = Track(scan[file.tag]) /\ file.tag \in Nat
                  /\ \A o \in Nat : scan[o] \in Seq(Samples)
  BY Mp3Scan, Zenon
<1> QED
  BY <1>1, TrackIs

Unfolds(f, a, G, n, S) ==
    /\ f[0] = a
    /\ \A i \in 1..n : f[i - 1] \in S => f[i] = G[<<i, f[i - 1]>>]

LEMMA RecursionType ==
  ASSUME NEW S, NEW n, NEW G, IsStep(G, n, S), NEW a \in S, NEW f, Unfolds(f, a, G, n, S)
  PROVE  \A i \in 0..n : f[i] \in S
<1>0. n \in Nat /\ G \in [(1..n) \X S -> S]
  BY DEF IsStep
<1> DEFINE T == {i \in 0..n : f[i] \in S}
<1>1. 0 \in T
  BY <1>0 DEF Unfolds
<1>2. ASSUME NEW i \in 1..n, i - 1 \in T
      PROVE  i \in T
  <2>1. f[i] = G[<<i, f[i - 1]>>]
    BY <1>2 DEF Unfolds
  <2> QED
    BY <2>1, <1>0, <1>2
<1> HIDE DEF T
<1>3. 0..n \subseteq T
  BY <1>0, <1>1, <1>2, UpToInduction
<1> QED
  BY <1>3 DEF T

LEMMA RunStartsType ==
  ASSUME NEW keys, Len(keys) \in Nat
  PROVE  \A i \in 1..Len(keys) : RunStarts(keys)[i] \in Nat
<1> DEFINE n == Len(keys)
           body(start) == [i \in 0..n |->
              IF i <= 1 THEN i ELSE IF keys[i] = keys[i - 1] THEN start[i - 1] ELSE i]
           start == CHOOSE f : f = body(f)
           Of(i, x) == IF i <= 1 THEN i ELSE IF keys[i] = keys[i - 1] THEN x ELSE i
           G == [p \in (1..n) \X Nat |-> Of(p[1], p[2])]
<1>1. RunStarts(keys) = start
  BY DEF RunStarts
<1>2. \A i \in 1..n, x \in Nat : Of(i, x) \in Nat
  OBVIOUS
<1>3. \A i \in 1..n, x \in Nat : G[<<i, x>>] = Of(i, x)
  OBVIOUS
<1>4. IsStep(G, n, Nat)
  BY <1>2 DEF IsStep
<1> HIDE DEF G
<1>5. PICK f : Follows(f, 0, G, n, Nat)
  BY <1>4, Recursion, 0 \in Nat, Zenon
<1>6. f \in [0..n -> Nat] /\ f[0] = 0
  BY <1>5 DEF Follows
<1>7. ASSUME NEW i \in 1..n
      PROVE  f[i] = Of(i, f[i - 1])
  <2>1. f[i - 1] \in Nat
    BY <1>6
  <2> HIDE DEF Of
  <2> QED
    BY <2>1, <1>3, <1>5 DEF Follows
<1>8. f = body(f)
  BY <1>6, <1>7
<1>9. start = body(start)
  <2> HIDE DEF body
  <2> QED
    BY <1>8, Zenon
<1> HIDE DEF start
<1>10. start[0] = 0 /\ \A i \in 1..n : start[i] = Of(i, start[i - 1])
  BY <1>9
<1> HIDE DEF body, Of
<1>11. Unfolds(start, 0, G, n, Nat)
  BY <1>3, <1>10 DEF Unfolds
<1>12. \A i \in 0..n : start[i] \in Nat
  BY <1>4, <1>11, RecursionType, 0 \in Nat, Zenon
<1> QED
  BY <1>1, <1>12

AdtsFrames(file) == [from : Nat, to : Nat, dur : Nat, key : {file.at[o].key : o \in Nat}]

LEMMA AdtsScan ==
  ASSUME NEW file, IsFile(file), file.format = "adts"
  PROVE  \E scan :
            /\ IsTrack(RemuxAdts(file))
            /\ Len(RemuxAdts(file).samples) = Len(scan[0])
            /\ \A i \in 1..Len(scan[0]) : /\ RemuxAdts(file).samples[i].from = scan[0][i].from
                                         /\ RemuxAdts(file).samples[i].to = scan[0][i].to
            /\ \A o \in Nat :
                  /\ scan[o] \in Seq(AdtsFrames(file))
                  /\ scan[o] = IF o + HeaderLen["adts"] > file.len THEN <<>>
                               ELSE IF file.at[o] = NoFrame THEN scan[o + 1]
                               ELSE IF \/ o + file.at[o].length > file.len
                                       \/ file.at[o].length <= file.at[o].header THEN <<>>
                               ELSE <<[from |-> o + file.at[o].header, to |-> o + file.at[o].length,
                                       dur |-> file.at[o].dur, key |-> file.at[o].key]>>
                                      \o scan[o + file.at[o].length]
<1> DEFINE F == AdtsFrames(file)
           S == Seq(F)
           L == HeaderLen["adts"]
           body(scan) == [o \in Nat |->
              LET f == file.at[o] IN
              IF o + HeaderLen["adts"] > file.len THEN <<>>
              ELSE IF f = NoFrame THEN scan[o + 1]
              ELSE IF o + f.length > file.len \/ f.length <= f.header THEN <<>>
              ELSE <<[from |-> o + f.header, to |-> o + f.length, dur |-> f.dur, key |-> f.key]>>
                       \o scan[o + f.length]]
           scan == CHOOSE f : f = body(f)
           frames == scan[0]
           Framed(o) == o + L <= file.len /\ file.at[o] # NoFrame
           Ends(o) == o + file.at[o].length > file.len \/ file.at[o].length <= file.at[o].header
           next == [o \in Nat |-> IF Framed(o) /\ ~Ends(o) THEN o + file.at[o].length ELSE o + 1]
           frame(o) == [from |-> o + file.at[o].header, to |-> o + file.at[o].length,
                        dur |-> file.at[o].dur, key |-> file.at[o].key]
           Of(o, rest) == IF o + L > file.len THEN <<>>
                          ELSE IF file.at[o] = NoFrame THEN rest
                          ELSE IF Ends(o) THEN <<>>
                          ELSE <<frame(o)>> \o rest
           H == [x \in Nat \X S |-> Of(x[1], x[2])]
<1>0. <<>> \in S
  OBVIOUS
<1>1. RemuxAdts(file) =
        Track([i \in DOMAIN frames |->
                 Sample(frames[i].from, frames[i].to, frames[i].dur,
                        RunStarts([j \in DOMAIN frames |-> frames[j].key])[i])])
  BY DEF RemuxAdts
<1>2. /\ L \in Nat \ {0} /\ file.len \in Nat
      /\ \A o \in 0..(file.len - L) :
            file.at[o] # NoFrame =>
               /\ file.at[o].length \in Nat /\ file.at[o].header \in Nat /\ file.at[o].dur \in Nat
  BY RemuxConstants DEF IsFile
<1>3. ASSUME NEW o \in Nat, Framed(o)
      PROVE  /\ file.at[o].length \in Nat /\ file.at[o].header \in Nat /\ file.at[o].dur \in Nat
             /\ ~Ends(o) => file.at[o].length > 0
  BY <1>2, <1>3
<1>4. \A o \in Nat : next[o] \in Nat /\ next[o] > o
  BY <1>3
<1>5. ASSUME NEW o \in Nat, NEW rest \in S
      PROVE  Of(o, rest) \in S
  <2>1. CASE ~Framed(o) \/ Ends(o)
    <3> HIDE DEF Ends, frame, F
    <3> QED
      BY <2>1, <1>0, <1>2
  <2>2. CASE Framed(o) /\ ~Ends(o)
    <3>1. frame(o) \in F
      <4>1. file.at[o].key \in {file.at[p].key : p \in Nat}
        OBVIOUS
      <4>2. /\ file.at[o].dur \in Nat
            /\ o + file.at[o].header \in Nat /\ o + file.at[o].length \in Nat
        BY <1>3, <2>2
      <4> QED
        BY <4>1, <4>2 DEF AdtsFrames
    <3>2. Of(o, rest) = <<frame(o)>> \o rest
      <4>1. ~(o + L > file.len)
        BY <1>2, <2>2
      <4>2. file.at[o] # NoFrame /\ ~Ends(o)
        BY <2>2
      <4> HIDE DEF Ends, frame, L
      <4> QED
        BY <4>1, <4>2, Zenon
    <3> HIDE DEF frame, F
    <3> QED
      BY <3>1, <3>2, Joined
  <2> QED
    BY <2>1, <2>2
<1> HIDE DEF Of, F
<1>6. \A o \in Nat, rest \in S : H[<<o, rest>>] = Of(o, rest)
  OBVIOUS
<1>7. IsWalk(H, next, file.len, S)
  BY <1>2, <1>4, <1>5 DEF IsWalk
<1> HIDE DEF H
<1>8. PICK f : Walks(f, <<>>, H, next, file.len, S)
  BY <1>0, <1>7, WalkExists, Zenon
<1>9. ASSUME NEW o \in Nat
      PROVE  f[o] = IF o + L > file.len THEN <<>> ELSE Of(o, f[next[o]])
  <2>1. f[next[o]] \in S
    BY <1>4, <1>8 DEF Walks
  <2>2. f[o] = IF o >= file.len THEN <<>> ELSE Of(o, f[next[o]])
    <3> HIDE DEF next
    <3> QED
      BY <2>1, <1>6, <1>8 DEF Walks
  <2> QED
    BY <2>2, <1>2 DEF Of
<1>10. f = body(f)
  <2>1. f = [o \in Nat |-> f[o]]
    BY <1>8 DEF Walks
  <2>2. ASSUME NEW o \in Nat
        PROVE  f[o] = body(f)[o]
    <3>1. CASE o + L > file.len
      BY <3>1, <1>9
    <3>2. CASE o + L <= file.len
      <4>1. ~(o + L > file.len)
        BY <3>2, <1>2
      <4>2. f[o] = Of(o, f[next[o]])
        <5> HIDE DEF L
        <5> QED
          BY <4>1, <1>9, Zenon
      <4> QED
        BY <3>2, <4>2, <1>2 DEF Of
    <3> QED
      BY <3>1, <3>2, <1>2
  <2> QED
    BY <2>1, <2>2
<1>11. scan = body(scan)
  <2> HIDE DEF body
  <2> QED
    BY <1>10, Zenon
<1> HIDE DEF scan
<1>12. ASSUME NEW o \in Nat, scan[next[o]] \in S
       PROVE  scan[o] = IF o >= file.len THEN <<>> ELSE H[<<o, scan[next[o]]>>]
  <2>1. H[<<o, scan[next[o]]>>] = Of(o, scan[next[o]])
    BY <1>6, <1>12
  <2>2. CASE o + L > file.len
    BY <2>1, <2>2, <1>11 DEF Of
  <2>3. CASE o + L <= file.len
    <3>1. ~(o >= file.len)
      BY <2>3, <1>2
    <3> QED
      BY <3>1, <2>1, <2>3, <1>2, <1>11 DEF Of
  <2> QED
    BY <2>2, <2>3, <1>2
<1>13. ASSUME NEW o \in Nat, o >= file.len
       PROVE  scan[o] = <<>>
  BY <1>2, <1>11, <1>13
<1>22. \A o \in Nat : scan[o] = IF o + L > file.len THEN <<>>
                               ELSE IF file.at[o] = NoFrame THEN scan[o + 1]
                               ELSE IF \/ o + file.at[o].length > file.len
                                       \/ file.at[o].length <= file.at[o].header THEN <<>>
                               ELSE <<frame(o)>> \o scan[o + file.at[o].length]
  BY <1>11
<1> HIDE DEF body
<1>21. \A o \in Nat : scan[o] \in S
  <2>1. Traces(scan, <<>>, H, next, file.len, S)
    BY <1>12, <1>13 DEF Traces
  <2> QED
    BY <1>0, <1>7, <2>1, WalkType, Zenon
<1>14. frames \in S
  BY <1>21
<1> HIDE DEF frames
<1> DEFINE keys == [j \in DOMAIN frames |-> frames[j].key]
<1>15. Len(frames) \in Nat /\ DOMAIN frames = 1..Len(frames)
  BY <1>14
<1>16. Len(keys) = Len(frames)
  BY <1>15
<1> HIDE DEF keys
<1>17. \A i \in DOMAIN frames : RunStarts(keys)[i] \in Nat
  BY <1>15, <1>16, RunStartsType
<1>18. ASSUME NEW i \in DOMAIN frames
       PROVE  Sample(frames[i].from, frames[i].to, frames[i].dur, RunStarts(keys)[i]) \in Samples
  <2>1. frames[i] \in F
    BY <1>14
  <2> QED
    BY <2>1, <1>17 DEF F, AdtsFrames, Sample, Samples
<1> DEFINE r == [i \in DOMAIN frames |->
                   Sample(frames[i].from, frames[i].to, frames[i].dur, RunStarts(keys)[i])]
<1>19. r \in Seq(Samples)
  <2>1. r \in [1..Len(frames) -> Samples]
    BY <1>15, <1>18
  <2> QED
    BY <1>15, <2>1
<1>20. RemuxAdts(file) = Track(r)
  BY <1>1 DEF keys
<1>23. IsTrack(RemuxAdts(file))
  BY <1>19, <1>20, TrackIs
<1>24. /\ RemuxAdts(file).samples = r /\ Len(r) = Len(frames)
       /\ \A i \in 1..Len(frames) : r[i].from = frames[i].from /\ r[i].to = frames[i].to
  BY <1>15, <1>20 DEF Track, Sample
<1> HIDE DEF r
<1> QED
  BY <1>21, <1>22, <1>23, <1>24 DEF frames, F

LEMMA AdtsTrack ==
  ASSUME NEW file, IsFile(file), file.format = "adts"
  PROVE  IsTrack(RemuxAdts(file))
BY AdtsScan

-----------------------------------------------------------------------------
(* FLAC *)

LEMMA FlacOffset ==
  ASSUME NEW file, IsFile(file), file.format = "flac"
  PROVE  FlacAudioOffset(file) \in Nat \cup {-1}
<1> DEFINE b == file.blocks
           lasts == {i \in DOMAIN b : b[i].last}
           last == CHOOSE i \in lasts : \A j \in lasts : i <= j
           read == [i \in DOMAIN b |-> b[i].len]
           B == [type : STRING, last : BOOLEAN, len : Nat]
<1>1. b \in Seq(B)
  BY DEF IsFile
<1>5. DOMAIN b = 1..Len(b) /\ Len(b) \in Nat /\ \A i \in 1..Len(b) : b[i] \in B
  <2> HIDE DEF B, b
  <2> QED
    BY <1>1
<1>2. read \in Seq(Nat) /\ Len(read) = Len(b)
  <2>1. \A i \in 1..Len(b) : b[i].len \in Nat
    BY <1>5
  <2>2. DOMAIN b = 1..Len(b) /\ Len(b) \in Nat
    BY <1>5
  <2>3. read \in [1..Len(b) -> Nat]
    BY <2>1, <2>2
  <2> QED
    BY <2>2, <2>3
<1>3. CASE lasts # {}
  <2>1. lasts \in SUBSET Nat
    BY <1>1
  <2> HIDE DEF lasts
  <2>2. last \in lasts
    BY <1>3, <2>1, LeastNumber, Zenon
  <2>3. last \in 0..Len(read)
    <3>1. last \in 1..Len(b) /\ Len(b) \in Nat
      BY <1>5, <2>2 DEF lasts
    <3> HIDE DEF last, read
    <3> QED
      BY <3>1, <1>2
  <2> HIDE DEF last, read
  <2>4. SumTo(read, last) \in Nat
    BY <1>2, <2>3, Sums
  <2> QED
    BY <2>4 DEF FlacAudioOffset, last, lasts, read
<1>4. CASE lasts = {}
  BY <1>4 DEF FlacAudioOffset
<1> QED
  BY <1>3, <1>4

LEMMA FlacScan ==
  ASSUME NEW file, IsFile(file), file.format = "flac"
  PROVE  \E starts :
            /\ \A o : FlacFrameStarts(file, o) = starts[o]
            /\ \A o \in Nat :
                  /\ starts[o] \in Seq(file.crc)
                  /\ starts[o] = IF o + 1 >= Len(file.bytes) THEN <<>>
                                 ELSE IF ~IsSync(file, o) THEN starts[o + 1]
                                 ELSE (IF o \in file.crc THEN <<o>> ELSE <<>>) \o starts[o + 2]
<1> DEFINE S == Seq(file.crc)
           N == Len(file.bytes)
           body(starts) == [o \in Nat |->
              IF o + 1 >= Len(file.bytes) THEN <<>>
              ELSE IF ~IsSync(file, o) THEN starts[o + 1]
              ELSE (IF o \in file.crc THEN <<o>> ELSE <<>>) \o starts[o + 2]]
           starts == CHOOSE f : f = body(f)
           next == [o \in Nat |-> IF ~IsSync(file, o) THEN o + 1 ELSE o + 2]
           Of(o, rest) == IF o + 1 >= N THEN <<>>
                          ELSE IF ~IsSync(file, o) THEN rest
                          ELSE (IF o \in file.crc THEN <<o>> ELSE <<>>) \o rest
           H == [x \in Nat \X S |-> Of(x[1], x[2])]
<1>0. <<>> \in S
  OBVIOUS
<1>1. \A o : FlacFrameStarts(file, o) = starts[o]
  BY DEF FlacFrameStarts
<1>2. N \in Nat
  BY DEF IsFile
<1>4. \A o \in Nat : next[o] \in Nat /\ next[o] > o
  OBVIOUS
<1>5. ASSUME NEW o \in Nat, NEW rest \in S
      PROVE  Of(o, rest) \in S
  <2>1. CASE o + 1 >= N \/ ~IsSync(file, o)
    BY <2>1, <1>0
  <2>2. CASE ~(o + 1 >= N) /\ IsSync(file, o)
    <3>1. CASE o \in file.crc
      <4>1. Of(o, rest) = <<o>> \o rest
        BY <2>2, <3>1
      <4> QED
        BY <3>1, <4>1, Joined
    <3>2. CASE o \notin file.crc
      <4>1. Of(o, rest) = <<>> \o rest
        BY <2>2, <3>2
      <4>2. <<>> \o rest \in S
        <5> HIDE DEF Of
        <5> QED
          BY <1>0
      <4> QED
        BY <4>1, <4>2
    <3> QED
      BY <3>1, <3>2
  <2> QED
    BY <2>1, <2>2
<1> HIDE DEF Of
<1>6. \A o \in Nat, rest \in S : H[<<o, rest>>] = Of(o, rest)
  OBVIOUS
<1>7. IsWalk(H, next, N, S)
  BY <1>2, <1>4, <1>5 DEF IsWalk
<1> HIDE DEF H
<1>8. PICK f : Walks(f, <<>>, H, next, N, S)
  BY <1>0, <1>7, WalkExists, Zenon
<1>9. ASSUME NEW o \in Nat
      PROVE  f[o] = IF o + 1 >= N THEN <<>> ELSE Of(o, f[next[o]])
  <2>1. f[next[o]] \in S
    BY <1>4, <1>8 DEF Walks
  <2>2. f[o] = IF o >= N THEN <<>> ELSE Of(o, f[next[o]])
    <3> HIDE DEF next, S
    <3> QED
      BY <2>1, <1>6, <1>8 DEF Walks
  <2> QED
    BY <2>2, <1>2 DEF Of
<1>10. f = body(f)
  <2>1. f = [o \in Nat |-> f[o]]
    BY <1>8 DEF Walks
  <2>2. ASSUME NEW o \in Nat
        PROVE  f[o] = body(f)[o]
    <3>1. CASE o + 1 >= N
      BY <3>1, <1>9
    <3>2. CASE ~(o + 1 >= N)
      <4>1. f[o] = Of(o, f[next[o]])
        BY <3>2, <1>9
      <4> QED
        BY <3>2, <4>1 DEF Of
    <3> QED
      BY <3>1, <3>2
  <2> QED
    BY <2>1, <2>2
<1>11. starts = body(starts)
  <2> HIDE DEF body
  <2> QED
    BY <1>10, Zenon
<1> HIDE DEF starts
<1>12. ASSUME NEW o \in Nat, starts[next[o]] \in S
       PROVE  starts[o] = IF o >= N THEN <<>> ELSE H[<<o, starts[next[o]]>>]
  <2>1. H[<<o, starts[next[o]]>>] = Of(o, starts[next[o]])
    BY <1>6, <1>12
  <2>2. CASE o + 1 >= N
    BY <2>1, <2>2, <1>11 DEF Of
  <2>3. CASE ~(o + 1 >= N)
    <3>1. ~(o >= N)
      BY <2>3, <1>2
    <3> QED
      BY <3>1, <2>1, <2>3, <1>2, <1>11 DEF Of
  <2> QED
    BY <2>2, <2>3, <1>2
<1>13. ASSUME NEW o \in Nat, o >= N
       PROVE  starts[o] = <<>>
  BY <1>2, <1>11, <1>13
<1>16. \A o \in Nat : starts[o] = IF o + 1 >= Len(file.bytes) THEN <<>>
                                  ELSE IF ~IsSync(file, o) THEN starts[o + 1]
                                  ELSE (IF o \in file.crc THEN <<o>> ELSE <<>>) \o starts[o + 2]
  BY <1>11
<1> HIDE DEF body
<1>14. Traces(starts, <<>>, H, next, N, S)
  BY <1>12, <1>13 DEF Traces
<1>15. \A o \in Nat : starts[o] \in S
  BY <1>0, <1>7, <1>14, WalkType, Zenon
<1> QED
  BY <1>1, <1>15, <1>16

LEMMA FlacStarts ==
  ASSUME NEW file, IsFile(file), file.format = "flac", NEW from \in Nat
  PROVE  FlacFrameStarts(file, from) \in Seq(file.crc)
BY FlacScan

\* The excess that is left when the last frames are done: its recursion has a solution.
LEMMA TrimSteps ==
  ASSUME NEW durs \in Seq(Nat \ {0}), NEW total \in Nat
  PROVE  \E left :
            /\ TrimDurations(durs, total)
                 = [k \in 1..Len(durs) |-> durs[k] - (left[Len(durs) - k] - left[Len(durs) + 1 - k])]
            /\ left[0] = IF total > 0 THEN Minus(SumAll(durs), total) ELSE 0
            /\ \A i \in 0..Len(durs) : left[i] \in Nat
            /\ \A i \in 1..Len(durs) :
                  left[i] = left[i - 1] - Least(durs[Len(durs) + 1 - i] - 1, left[i - 1])
<1> DEFINE n == Len(durs)
           over == IF total > 0 THEN Minus(SumAll(durs), total) ELSE 0
           body(left) == [i \in 0..n |->
              IF i = 0 THEN IF total > 0 THEN Minus(SumAll(durs), total) ELSE 0
              ELSE left[i - 1] - Least(durs[n + 1 - i] - 1, left[i - 1])]
           left == CHOOSE f : f = body(f)
           Of(i, x) == x - Least(durs[n + 1 - i] - 1, x)
           G == [p \in (1..n) \X Nat |-> Of(p[1], p[2])]
<1>1. TrimDurations(durs, total) = [k \in 1..n |-> durs[k] - (left[n - k] - left[n + 1 - k])]
  BY DEF TrimDurations
<1>2. n \in Nat /\ \A i \in 1..n : durs[n + 1 - i] - 1 \in Nat
  OBVIOUS
<1>3. over \in Nat
  <2>1. durs \in Seq(Nat)
    OBVIOUS
  <2>2. SumAll(durs) \in Nat
    BY <2>1, <1>2, Sums DEF SumAll
  <2> QED
    BY <2>2 DEF Minus, Greatest
<1>4. \A i \in 1..n, x \in Nat : Of(i, x) \in Nat
  BY <1>2 DEF Least
<1>5. \A i \in 1..n, x \in Nat : G[<<i, x>>] = Of(i, x)
  OBVIOUS
<1>6. IsStep(G, n, Nat)
  BY <1>2, <1>4 DEF IsStep
<1> HIDE DEF G
<1>7. PICK f : Follows(f, over, G, n, Nat)
  BY <1>3, <1>6, Recursion, Zenon
<1>8. f \in [0..n -> Nat] /\ f[0] = over
  BY <1>7 DEF Follows
<1>9. ASSUME NEW i \in 1..n
      PROVE  f[i] = Of(i, f[i - 1])
  <2>1. f[i - 1] \in Nat
    BY <1>8
  <2> QED
    BY <2>1, <1>5, <1>7 DEF Follows
<1>10. f = body(f)
  BY <1>8, <1>9
<1>11. left = body(left)
  <2> HIDE DEF body
  <2> QED
    BY <1>10, Zenon
<1> HIDE DEF left
<1>12. left[0] = over /\ \A i \in 1..n : left[i] = Of(i, left[i - 1])
  <2>1. 0 \in 0..n /\ \A i \in 1..n : i \in 0..n /\ i # 0
    BY <1>2
  <2>2. left[0] = over
    BY <2>1, <1>11
  <2>3. ASSUME NEW i \in 1..n
        PROVE  left[i] = Of(i, left[i - 1])
    <3> HIDE DEF over
    <3> QED
      BY <2>1, <1>11
  <2> QED
    BY <2>2, <2>3
<1> HIDE DEF body, over
<1>13. Unfolds(left, over, G, n, Nat)
  BY <1>5, <1>12 DEF Unfolds
<1>14. \A i \in 0..n : left[i] \in Nat
  BY <1>3, <1>6, <1>13, RecursionType, Zenon
<1> HIDE DEF left
<1> QED
  BY <1>1, <1>12, <1>14 DEF over

\* The durations that are left when the excess is taken off: none is 0.
LEMMA DurationsTrimmed ==
  ASSUME NEW durs \in Seq(Nat \ {0}), NEW total \in Nat
  PROVE  \A k \in 1..Len(durs) : TrimDurations(durs, total)[k] \in 1..durs[k]
<1> DEFINE n == Len(durs)
<1>1. n \in Nat /\ \A i \in 1..n : durs[n + 1 - i] - 1 \in Nat
  OBVIOUS
<1>2. PICK left : /\ TrimDurations(durs, total) = [k \in 1..n |-> durs[k] - (left[n - k] - left[n + 1 - k])]
                  /\ left[0] = IF total > 0 THEN Minus(SumAll(durs), total) ELSE 0
                  /\ \A i \in 0..n : left[i] \in Nat
                  /\ \A i \in 1..n : left[i] = left[i - 1] - Least(durs[n + 1 - i] - 1, left[i - 1])
  BY TrimSteps
<1>3. ASSUME NEW k \in 1..n
       PROVE  durs[k] - (left[n - k] - left[n + 1 - k]) \in 1..durs[k]
  <2>1. /\ n + 1 - k \in 1..n /\ (n + 1 - k) - 1 = n - k /\ n + 1 - (n + 1 - k) = k
        /\ durs[k] \in Nat \ {0} /\ n - k \in 0..n
    BY <1>1
  <2>2. left[n + 1 - k] = left[n - k] - Least(durs[k] - 1, left[n - k])
    BY <2>1, <1>2
  <2>3. left[n - k] \in Nat
    BY <2>1, <1>2
  <2> DEFINE x == left[n - k]
  <2> HIDE DEF x
  <2>4. x \in Nat /\ durs[k] - (x - (x - Least(durs[k] - 1, x))) \in 1..durs[k]
    BY <2>1, <2>3 DEF x, Least
  <2> QED
    BY <2>2, <2>4 DEF x
<1> QED
  BY <1>2, <1>3

\* What trimming leaves in all: the total that the header gives, unless it is not known or
\* there are fewer samples, or there are more frames.
LEMMA TrimmedSum ==
  ASSUME NEW durs \in Seq(Nat \ {0}), NEW total \in Nat
  PROVE  LET sum == SumAll(durs)
         IN  SumAll(TrimDurations(durs, total))
               = IF total = 0 \/ sum <= total THEN sum ELSE Greatest(total, Len(durs))
<1> DEFINE n == Len(durs)
           trim == TrimDurations(durs, total)
           sum == SumAll(durs)
           over == IF total > 0 THEN Minus(sum, total) ELSE 0
<1>1. n \in Nat /\ durs \in Seq(Nat) /\ \A i \in 1..n : durs[i] \in Nat \ {0}
  OBVIOUS
<1>2. PICK left : /\ trim = [k \in 1..n |-> durs[k] - (left[n - k] - left[n + 1 - k])]
                  /\ left[0] = over
                  /\ \A i \in 0..n : left[i] \in Nat
                  /\ \A i \in 1..n : left[i] = left[i - 1] - Least(durs[n + 1 - i] - 1, left[i - 1])
  BY TrimSteps
<1>3. /\ SumTo(durs, 0) = 0 /\ sum = SumTo(durs, n)
      /\ \A k \in 0..n : SumTo(durs, k) \in Nat
      /\ \A k \in 1..n : SumTo(durs, k) = SumTo(durs, k - 1) + durs[k]
  BY <1>1, Sums DEF SumAll
<1>4. trim \in Seq(Nat) /\ Len(trim) = n
  <2>1. \A k \in 1..n : trim[k] \in 1..durs[k]
    BY DurationsTrimmed
  <2>2. \A k \in 1..n : trim[k] \in Nat
    BY <1>1, <2>1
  <2>3. trim \in [1..n -> Nat]
    BY <1>2, <2>2
  <2> HIDE DEF n, trim
  <2> QED
    BY <1>1, <2>3
<1>5. /\ SumTo(trim, 0) = 0 /\ SumAll(trim) = SumTo(trim, n)
      /\ \A k \in 0..n : SumTo(trim, k) \in Nat
      /\ \A k \in 1..n : SumTo(trim, k) = SumTo(trim, k - 1) + trim[k]
  BY <1>4, Sums DEF SumAll
<1> HIDE DEF n, trim, sum, over
<1>6. sum \in Nat /\ over \in Nat /\ over = IF total > 0 THEN Minus(sum, total) ELSE 0
  BY <1>1, <1>3 DEF over, Minus, Greatest
\* what is left of the excess
<1> DEFINE A == {i \in 0..n : left[i] = Minus(over, (sum - SumTo(durs, n - i)) - i)}
<1>7. 0 \in A
  <2>1. n - 0 = n /\ 0 \in 0..n
    BY <1>1
  <2>2. (sum - SumTo(durs, n)) - 0 = 0
    BY <1>3, <1>6
  <2>3. Minus(over, 0) = over
    BY <1>6 DEF Minus, Greatest
  <2> QED
    BY <1>2, <2>1, <2>2, <2>3
<1>8. ASSUME NEW i \in 1..n, i - 1 \in A
      PROVE  i \in A
  <2> DEFINE k == n + 1 - i
             d == durs[k]
             p == SumTo(durs, k - 1)
             x == left[i - 1]
  <2>1. k \in 1..n /\ d \in Nat \ {0} /\ p \in Nat /\ SumTo(durs, k) = p + d /\ x \in Nat /\ i \in 0..n
    BY <1>1, <1>2, <1>3
  <2>2. x = Minus(over, (sum - (p + d)) - (i - 1))
    <3>1. n - (i - 1) = k
      BY <1>1
    <3> QED
      BY <1>8, <2>1, <3>1
  <2>3. left[i] = x - Least(d - 1, x)
    BY <1>2
  <2>4. n - i = k - 1
    BY <1>1
  <2> HIDE DEF d, p, x, k
  <2>5. x - Least(d - 1, x) = Minus(over, (sum - p) - i)
    BY <1>6, <2>1, <2>2 DEF Minus, Greatest, Least
  <2> QED
    BY <2>1, <2>3, <2>4, <2>5 DEF p
<1> HIDE DEF A
<1>9. 0..n \subseteq A
  BY <1>1, <1>7, <1>8, UpToInduction
<1>10. left[n] = Minus(over, sum - n)
  <2>1. n \in A /\ n - n = 0
    BY <1>1, <1>9
  <2>2. (sum - SumTo(durs, 0)) - n = sum - n
    BY <1>1, <1>3, <1>6
  <2> QED
    BY <2>1, <2>2 DEF A
\* what the first frames have lost
<1> DEFINE B == {k \in 0..n : SumTo(trim, k) = SumTo(durs, k) - (left[n - k] - left[n])}
<1>11. 0 \in B
  BY <1>1, <1>2, <1>3, <1>5
<1>12. ASSUME NEW k \in 1..n, k - 1 \in B
       PROVE  k \in B
  <2>1. n - (k - 1) = n + 1 - k /\ n - k \in 0..n /\ n + 1 - k \in 0..n /\ n \in 0..n /\ k \in 0..n
        /\ k - 1 \in 0..n
    BY <1>1
  <2>2. SumTo(trim, k - 1) = SumTo(durs, k - 1) - (left[n + 1 - k] - left[n])
    BY <1>12, <2>1
  <2>3. trim[k] = durs[k] - (left[n - k] - left[n + 1 - k])
    BY <1>2
  <2>4. SumTo(trim, k) = SumTo(trim, k - 1) + trim[k] /\ SumTo(durs, k) = SumTo(durs, k - 1) + durs[k]
    BY <1>3, <1>5
  <2>5. /\ left[n - k] \in Nat /\ left[n + 1 - k] \in Nat /\ left[n] \in Nat /\ durs[k] \in Nat
        /\ SumTo(durs, k - 1) \in Nat
    BY <1>1, <1>2, <1>3, <2>1
  <2>6. SumTo(trim, k) = SumTo(durs, k) - (left[n - k] - left[n])
    <3> DEFINE a == left[n - k]
               b == left[n + 1 - k]
               z == left[n]
               p == SumTo(durs, k - 1)
    <3> HIDE DEF a, b, z, p
    <3>1. SumTo(trim, k) = (p - (b - z)) + (durs[k] - (a - b))
      BY <2>2, <2>3, <2>4 DEF a, b, z, p
    <3>2. a \in Nat /\ b \in Nat /\ z \in Nat /\ p \in Nat /\ durs[k] \in Nat
      BY <2>5 DEF a, b, z, p
    <3>3. (p - (b - z)) + (durs[k] - (a - b)) = (p + durs[k]) - (a - z)
      BY <3>2
    <3> QED
      BY <2>4, <3>1, <3>3 DEF a, z, p
  <2> QED
    BY <2>1, <2>6
<1> HIDE DEF B
<1>13. 0..n \subseteq B
  BY <1>1, <1>11, <1>12, UpToInduction
<1>14. SumAll(trim) = sum - (over - Minus(over, sum - n))
  <2>1. n \in B /\ n - n = 0
    BY <1>1, <1>13
  <2> QED
    BY <1>2, <1>3, <1>5, <1>10, <2>1 DEF B
<1>15. SumAll(trim) = IF total = 0 \/ sum <= total THEN sum ELSE Greatest(total, n)
  <2>1. CASE total = 0 \/ sum <= total
    <3>1. over = 0 /\ Minus(0, sum - n) \in Nat
      BY <1>1, <1>6, <2>1 DEF Minus, Greatest
    <3>2. n <= sum
      <4> DEFINE C == {k \in 0..n : k <= SumTo(durs, k)}
      <4>1. 0 \in C
        BY <1>1, <1>3
      <4>2. ASSUME NEW k \in 1..n, k - 1 \in C
            PROVE  k \in C
        <5>1. /\ SumTo(durs, k) = SumTo(durs, k - 1) + durs[k] /\ durs[k] \in Nat \ {0}
              /\ k - 1 \in 0..n /\ k \in 0..n
          BY <1>1, <1>3
        <5>2. k - 1 <= SumTo(durs, k - 1) /\ SumTo(durs, k - 1) \in Nat
          BY <1>3, <4>2, <5>1
        <5> QED
          BY <5>1, <5>2
      <4> HIDE DEF C
      <4>3. 0..n \subseteq C
        BY <1>1, <4>1, <4>2, UpToInduction
      <4> QED
        BY <1>1, <1>3, <4>3 DEF C
    <3> QED
      BY <1>1, <1>6, <1>14, <2>1, <3>1, <3>2 DEF Minus, Greatest
  <2>2. CASE ~(total = 0 \/ sum <= total)
    <3>1. over = sum - total
      BY <1>6, <2>2 DEF Minus, Greatest
    <3> QED
      BY <1>1, <1>6, <1>14, <2>2, <3>1 DEF Minus, Greatest
  <2> QED
    BY <2>1, <2>2
<1> QED
  BY <1>15 DEF trim, sum, n

LEMMA FlacTrack ==
  ASSUME NEW file, IsFile(file), file.format = "flac"
  PROVE  IsTrack(RemuxFlac(file))
<1> DEFINE audio == FlacAudioOffset(file)
           starts == FlacFrameStarts(file, audio)
           n == Len(starts)
           durs == [i \in 1..n |-> Greatest(1, FlacBlockSize(file, starts[i]))]
           trim == TrimDurations(durs, file.total)
           end(i) == IF i < n THEN starts[i + 1] ELSE Len(file.bytes)
           r == [i \in 1..n |-> Sample(starts[i], end(i), trim[i], 0)]
<1>1. CASE audio = -1
  BY <1>1, TrackIs DEF RemuxFlac
<1>2. CASE audio # -1
  <2>1. RemuxFlac(file) = Track(r)
    BY <1>2 DEF RemuxFlac
  <2>2. audio \in Nat
    BY <1>2, FlacOffset
  <2>3. starts \in Seq(file.crc)
    <3> HIDE DEF audio
    <3> QED
      BY <2>2, FlacStarts
  <2>4. /\ file.crc \subseteq Nat /\ file.total \in Nat /\ Len(file.bytes) \in Nat
        /\ file.maxBlock \in Nat /\ \A o \in file.crc : file.block[o] \in Nat
    BY DEF IsFile
  <2> HIDE DEF audio, starts
  <2>5. n \in Nat /\ \A i \in 1..n : starts[i] \in file.crc /\ starts[i] \in Nat
    BY <2>3, <2>4
  <2>6. \A i \in 1..n : Greatest(1, FlacBlockSize(file, starts[i])) \in Nat \ {0}
    BY <2>4, <2>5 DEF Greatest, FlacBlockSize
  <2>7. durs \in Seq(Nat \ {0}) /\ Len(durs) = n
    BY <2>5, <2>6
  <2> HIDE DEF durs, n
  <2>8. \A i \in 1..n : trim[i] \in Nat
    BY <2>5, <2>7, <2>4, DurationsTrimmed
  <2>9. \A i \in 1..n : end(i) \in Nat
    BY <2>4, <2>5
  <2> HIDE DEF trim, end
  <2>10. r \in [1..n -> Samples]
    BY <2>5, <2>8, <2>9 DEF Sample, Samples
  <2>11. r \in Seq(Samples)
    BY <2>5, <2>10
  <2> QED
    BY <2>1, <2>11, TrackIs
<1> QED
  BY <1>1, <1>2

\* The samples of a FLAC file that is accepted have, together, the duration that its header
\* gives, or that its frames have when the header gives none or more, and no less than one
\* each: remux_flac takes off what is too much, from the last frame on.
THEOREM FlacDurationsAddUp ==
  ASSUME NEW file, IsFile(file), file.format = "flac", Remuxed(file).ok
  PROVE  DurationsFit(file)
<1> DEFINE audio == FlacAudioOffset(file)
           starts == FlacFrameStarts(file, audio)
           n == Len(starts)
           durs == [i \in 1..n |-> Greatest(1, FlacBlockSize(file, starts[i]))]
           trim == TrimDurations(durs, file.total)
           end(i) == IF i < n THEN starts[i + 1] ELSE Len(file.bytes)
           r == [i \in 1..n |-> Sample(starts[i], end(i), trim[i], 0)]
           coded == [i \in DOMAIN r |-> Greatest(FlacBlockSize(file, r[i].from), 1)]
<1>1. Remuxed(file) = RemuxFlac(file)
  BY DEF Remuxed
<1>2. audio # -1
  BY <1>1 DEF RemuxFlac, RemuxError
<1>3. Remuxed(file).samples = r
  BY <1>1, <1>2 DEF RemuxFlac, Track
<1>4. audio \in Nat
  BY <1>2, FlacOffset
<1>5. starts \in Seq(file.crc)
  <2> HIDE DEF audio
  <2> QED
    BY <1>4, FlacStarts
<1>6. /\ file.crc \subseteq Nat /\ file.total \in Nat
      /\ file.maxBlock \in Nat /\ \A o \in file.crc : file.block[o] \in Nat
  BY DEF IsFile
<1> HIDE DEF audio, starts
<1>7. n \in Nat /\ \A i \in 1..n : starts[i] \in file.crc
  BY <1>5
<1>8. \A i \in 1..n : FlacBlockSize(file, starts[i]) \in Nat
  BY <1>6, <1>7 DEF FlacBlockSize
<1>9. /\ durs \in Seq(Nat \ {0}) /\ Len(durs) = n
      /\ \A i \in 1..n : durs[i] = Greatest(FlacBlockSize(file, starts[i]), 1)
  <2>1. \A i \in 1..n : Greatest(1, FlacBlockSize(file, starts[i])) \in Nat \ {0}
    BY <1>8 DEF Greatest
  <2>2. durs \in Seq(Nat \ {0}) /\ Len(durs) = n
    BY <1>7, <2>1
  <2>3. \A i \in 1..n : durs[i] = Greatest(FlacBlockSize(file, starts[i]), 1)
    BY <1>8 DEF Greatest
  <2> QED
    BY <2>2, <2>3
<1>10. DOMAIN r = 1..n /\ \A i \in 1..n : r[i].from = starts[i] /\ r[i].dur = trim[i]
  BY DEF Sample
<1>11. coded = durs
  BY <1>9, <1>10
<1>12. Durations(r) = trim
  <2>1. Durations(r) = [i \in 1..n |-> trim[i]]
    BY <1>10 DEF Durations
  <2>2. trim = [i \in 1..n |-> trim[i]]
    <3> HIDE DEF durs
    <3> QED
      BY <1>9 DEF TrimDurations
  <2> QED
    BY <2>1, <2>2
<1>13. Len(r) = n
  BY <1>7, <1>10
<1> HIDE DEF r, durs, n
<1>14. SumAll(trim) = IF file.total = 0 \/ SumAll(durs) <= file.total THEN SumAll(durs)
                      ELSE Greatest(file.total, n)
  BY <1>6, <1>9, TrimmedSum
<1> HIDE DEF trim, coded
<1>15. SumAll(Durations(r)) = IF file.total = 0 \/ SumAll(coded) <= file.total THEN SumAll(coded)
                              ELSE Greatest(file.total, Len(r))
  BY <1>11, <1>12, <1>13, <1>14
<1> QED
  BY <1>3, <1>15 DEF DurationsFit, AddUp, coded

-----------------------------------------------------------------------------
(* WAV and AIFF: walking the chunks, and cutting the data *)

LEMMA Quotient ==
  ASSUME NEW a \in Nat, NEW b \in Nat \ {0}
  PROVE  a \div b \in Nat /\ a = b * (a \div b) + (a % b)
<1>1. a \div b \in Nat
  BY SMTT(20)
<1>2. a = b * (a \div b) + (a % b)
  BY SMTT(20)
<1> QED
  BY <1>1, <1>2

LEMMA Remainder ==
  ASSUME NEW a \in Nat, NEW b \in Nat \ {0}
  PROVE  a % b \in 0..(b - 1) /\ a % b <= a
<1>1. a % b \in 0..(b - 1)
  BY SMTT(20)
<1>2. a % b <= a
  BY SMTT(20)
<1> QED
  BY <1>1, <1>2

LEMMA Aligning ==
  ASSUME NEW a \in Nat, NEW b \in Nat \ {0}
  PROVE  (a - (a % b)) % b = 0
<1>1. a \div b \in Nat /\ a = b * (a \div b) + (a % b)
  BY Quotient
<1> DEFINE q == a \div b
           p == b * q
<1>2. p % b = 0
  <2> HIDE DEF q
  <2>1. q \in Nat
    BY <1>1 DEF q
  <2> QED
    BY <2>1, SMTT(30)
<1>3. a % b \in 0..(b - 1)
  BY Remainder
<1>4. p \in Nat
  BY <1>1, SMTT(20)
<1> DEFINE r == a % b
<1>5. a = p + r /\ r \in Int
  BY <1>1, <1>3
<1> HIDE DEF p, r, q
<1>6. a - r = p
  BY <1>4, <1>5
<1> QED
  BY <1>2, <1>6 DEF r

LEMMA ProductGrows ==
  ASSUME NEW a \in Nat, NEW b \in Nat, a <= b, NEW c \in Nat
  PROVE  a * c <= b * c /\ a * c \in Nat /\ b * c \in Nat
BY SMTT(20)

WalkedType == [offset : Nat, fmt : BOOLEAN, from : Nat \cup {-1}, len : Nat, stop : BOOLEAN]

LEMMA WalkedChunks ==
  ASSUME NEW file, IsFile(file), file.format \in {"wav", "aiff"}
  PROVE  /\ WalkChunks(file) \in WalkedType
         /\ WalkChunks(file).len > 0 => WalkChunks(file).from + WalkChunks(file).len <= file.len
<1> DEFINE S == {w \in WalkedType : w.len > 0 => w.from + w.len <= file.len}
           B == [id : STRING, size : Nat, skip : Nat]
           n == Len(file.chunks)
           extra == IF file.format = "aiff" THEN SsndHeader ELSE 0
           start == [offset |-> 0, fmt |-> FALSE, from |-> -1, len |-> 0, stop |-> FALSE]
           body(walk) == [i \in 0..Len(file.chunks) |->
             IF i = 0 THEN [offset |-> 0, fmt |-> FALSE, from |-> -1, len |-> 0, stop |-> FALSE]
             ELSE LET w    == walk[i - 1]
                      c    == file.chunks[i]
                      body == w.offset + HeaderLen[file.format]
                      end  == body + c.size
                      skip == IF file.format = "aiff" THEN c.skip ELSE 0
                      data == c.id = "data" /\ c.size >= extra
                  IN  IF w.stop \/ end > file.len THEN [w EXCEPT !.stop = TRUE]
                      ELSE [offset |-> end + (c.size % 2),
                            fmt    |-> w.fmt \/ (c.id = "fmt" /\ c.size >= FmtLen),
                            from   |-> IF data THEN body + extra + skip ELSE w.from,
                            len    |-> IF data THEN Minus(c.size, extra + skip) ELSE w.len,
                            stop   |-> FALSE]]
           walk == CHOOSE f : f = body(f)
           Of(i, w) ==
             LET c    == file.chunks[i]
                 bod  == w.offset + HeaderLen[file.format]
                 end  == bod + c.size
                 skip == IF file.format = "aiff" THEN c.skip ELSE 0
                 data == c.id = "data" /\ c.size >= extra
             IN  IF w.stop \/ end > file.len THEN [w EXCEPT !.stop = TRUE]
                 ELSE [offset |-> end + (c.size % 2),
                       fmt    |-> w.fmt \/ (c.id = "fmt" /\ c.size >= FmtLen),
                       from   |-> IF data THEN bod + extra + skip ELSE w.from,
                       len    |-> IF data THEN Minus(c.size, extra + skip) ELSE w.len,
                       stop   |-> FALSE]
           G == [p \in (1..n) \X S |-> Of(p[1], p[2])]
<1>1. WalkChunks(file) = walk[n]
  BY DEF WalkChunks
<1>2. /\ n \in Nat /\ \A i \in 1..n : file.chunks[i] \in B
      /\ extra \in Nat /\ HeaderLen[file.format] \in Nat
  <2>1. file.chunks \in Seq(B)
    BY DEF IsFile
  <2>2. extra \in Nat /\ HeaderLen[file.format] \in Nat
    BY RemuxConstants
  <2> HIDE DEF B, extra
  <2> QED
    BY <2>1, <2>2
<1>3. start \in S
  <2>1. start \in WalkedType /\ start.len = 0
    BY DEF WalkedType
  <2> HIDE DEF start
  <2> QED
    BY <2>1
<1> HIDE DEF extra
<1>4. ASSUME NEW i \in 1..n, NEW w \in S
      PROVE  Of(i, w) \in S
  <2>1. /\ w.offset \in Nat /\ w.fmt \in BOOLEAN /\ w.from \in Nat \cup {-1}
        /\ w.len \in Nat /\ w.stop \in BOOLEAN
    BY DEF WalkedType
  <2>2. file.chunks[i].size \in Nat /\ file.chunks[i].skip \in Nat /\ file.chunks[i].size % 2 \in Nat
    <3>1. file.chunks[i].size \in Nat /\ file.chunks[i].skip \in Nat
      BY <1>2
    <3> QED
      BY <3>1
  <2> DEFINE c == file.chunks[i]
             bod == w.offset + HeaderLen[file.format]
             end == bod + c.size
             skip == IF file.format = "aiff" THEN c.skip ELSE 0
             data == c.id = "data" /\ c.size >= extra
  <2>0. extra \in Nat /\ HeaderLen[file.format] \in Nat /\ c.size \in Nat /\ skip \in Nat
    BY <1>2, <2>2
  <2>3. bod \in Nat /\ end \in Nat
    <3> HIDE DEF c, Of
    <3>1. bod \in Nat
      BY <2>0, <2>1
    <3> HIDE DEF bod
    <3> QED
      BY <2>0, <3>1
  <2>7. file.len \in Nat /\ (w.len > 0 => w.from + w.len <= file.len)
    BY DEF IsFile
  <2>4. CASE w.stop \/ end > file.len
    <3>1. Of(i, w) = [w EXCEPT !.stop = TRUE]
      BY <2>4
    <3>2. Of(i, w) \in WalkedType /\ Of(i, w).len = w.len /\ Of(i, w).from = w.from
      <4> HIDE DEF Of
      <4> QED
        BY <3>1 DEF WalkedType
    <3> HIDE DEF Of
    <3> QED
      BY <3>2
  <2>5. CASE ~(w.stop \/ end > file.len)
    <3>1. Of(i, w) = [offset |-> end + (c.size % 2),
                       fmt    |-> w.fmt \/ (c.id = "fmt" /\ c.size >= FmtLen),
                       from   |-> IF data THEN bod + extra + skip ELSE w.from,
                       len    |-> IF data THEN Minus(c.size, extra + skip) ELSE w.len,
                       stop   |-> FALSE]
      BY <2>5
    <3>2. end + (c.size % 2) \in Nat
      BY <2>2, <2>3
    <3>3. (w.fmt \/ (c.id = "fmt" /\ c.size >= FmtLen)) \in BOOLEAN
      BY <2>1
    <3>4. (IF data THEN bod + extra + skip ELSE w.from) \in Nat \cup {-1}
      <4> HIDE DEF bod, data, skip, c, Of
      <4> QED
        BY <2>0, <2>1, <2>3
    <3>5. (IF data THEN Minus(c.size, extra + skip) ELSE w.len) \in Nat
      <4>1. Minus(c.size, extra + skip) \in Nat
        BY <2>0 DEF Minus, Greatest
      <4> QED
        BY <4>1, <2>1
    <3>6. (IF data THEN Minus(c.size, extra + skip) ELSE w.len) > 0
            => (IF data THEN bod + extra + skip ELSE w.from)
                 + (IF data THEN Minus(c.size, extra + skip) ELSE w.len) <= file.len
      <4>1. CASE data
        <5>1. Minus(c.size, extra + skip) > 0
                => bod + extra + skip + Minus(c.size, extra + skip) = end
          <6>1. ~(c.size - (extra + skip) > 0) => Minus(c.size, extra + skip) = 0
            BY DEF Minus, Greatest
          <6>2. c.size - (extra + skip) > 0
                  => Minus(c.size, extra + skip) = c.size - (extra + skip)
            BY DEF Minus, Greatest
          <6> HIDE DEF bod, data, skip, c, Of
          <6> QED
            BY <2>0, <2>3, <6>1, <6>2 DEF end
        <5>2. end <= file.len
          BY <2>3, <2>5, <2>7
        <5> HIDE DEF end, bod, skip, c, Of
        <5> QED
          BY <4>1, <5>1, <5>2
      <4>2. CASE ~data
        BY <4>2
      <4> QED
        BY <4>1, <4>2
    <3>7. /\ Of(i, w) \in WalkedType
          /\ Of(i, w).from = IF data THEN bod + extra + skip ELSE w.from
          /\ Of(i, w).len = IF data THEN Minus(c.size, extra + skip) ELSE w.len
      <4> HIDE DEF Of, end, bod, data, skip, c
      <4> QED
        BY <3>1, <3>2, <3>3, <3>4, <3>5 DEF WalkedType
    <3> HIDE DEF Of, end, bod, data, skip, c
    <3> QED
      BY <3>6, <3>7
  <2> QED
    BY <2>4, <2>5
<1>5. \A i \in 1..n, w \in S : G[<<i, w>>] = Of(i, w)
  <2> HIDE DEF Of
  <2> QED
    OBVIOUS
<1>6. IsStep(G, n, S)
  <2> HIDE DEF Of
  <2> QED
    BY <1>2, <1>4 DEF IsStep
<1> HIDE DEF G
<1>7. PICK f : Follows(f, start, G, n, S)
  <2> HIDE DEF start
  <2> QED
    BY <1>3, <1>6, Recursion, Zenon
<1>8. f \in [0..n -> S] /\ f[0] = start
  BY <1>7 DEF Follows
<1>9. ASSUME NEW i \in 1..n
      PROVE  f[i] = Of(i, f[i - 1])
  <2>1. f[i - 1] \in S
    BY <1>8
  <2> HIDE DEF Of
  <2> QED
    BY <2>1, <1>5, <1>7 DEF Follows
<1>10. f = body(f)
  <2>1. f = [i \in 0..n |-> f[i]]
    BY <1>8
  <2>2. ASSUME NEW i \in 0..n
        PROVE  f[i] = body(f)[i]
    <3>1. CASE i = 0
      BY <3>1, <1>8
    <3>2. CASE i # 0
      <4>1. f[i] = Of(i, f[i - 1])
        <5> HIDE DEF Of
        <5> QED
          BY <3>2, <1>9
      <4>2. body(f)[i] = Of(i, f[i - 1])
        BY <3>2
      <4> QED
        BY <4>1, <4>2
    <3> QED
      BY <3>1, <3>2
  <2>3. body(f) = [i \in 0..n |-> body(f)[i]]
    OBVIOUS
  <2> HIDE DEF body
  <2> QED
    BY <2>1, <2>2, <2>3
<1>11. walk = body(walk)
  <2> HIDE DEF body
  <2> QED
    BY <1>10, Zenon
<1> HIDE DEF walk
<1>12. walk[0] = start
  BY <1>2, <1>11
<1>13. ASSUME NEW i \in 1..n
       PROVE  walk[i] = Of(i, walk[i - 1])
  <2>1. i \in 0..n /\ i # 0
    BY <1>2
  <2> QED
    BY <2>1, <1>11
<1> HIDE DEF body, Of, start
<1>14. Unfolds(walk, start, G, n, S)
  BY <1>5, <1>12, <1>13 DEF Unfolds
<1>15. \A i \in 0..n : walk[i] \in S
  BY <1>3, <1>6, <1>14, RecursionType, Zenon
<1> QED
  BY <1>1, <1>2, <1>15

\* The pieces of the data from an offset on.
PcmCut(cut, to, frame, rate) ==
    /\ \A o : PcmChunks(o, to, frame, rate) = cut[o]
    /\ \A o \in Nat : cut[o] \in Seq(Samples)
    /\ \A o \in Nat : o >= to => cut[o] = <<>>
    /\ \A o \in Nat : o < to =>
          \E end \in (o + 1)..to :
             /\ cut[o] = <<Sample(o, end, Greatest((end - o) \div frame, 1), 0)>> \o cut[end]
             /\ (end - o) % frame = 0 \/ (end = to /\ end - o < frame)

LEMMA PcmScan ==
  ASSUME NEW to \in Nat, NEW frame \in Nat \ {0}, NEW rate \in Nat
  PROVE  \E cut : PcmCut(cut, to, frame, rate)
<1> DEFINE S == Seq(Samples)
           size == Greatest(rate * SegmentSecs * frame, frame)
           body(cut) == [o \in Nat |->
             LET next    == Least(o + size, to)
                 aligned == next - ((next - o) % frame)
                 end     == IF aligned = o THEN to ELSE aligned
             IN  IF o >= to THEN <<>>
                 ELSE <<Sample(o, end, Greatest((end - o) \div frame, 1), 0)>> \o cut[end]]
           cut == CHOOSE f : f = body(f)
           Following(o) == Least(o + size, to)
           Aligned(o) == Following(o) - ((Following(o) - o) % frame)
           End(o) == IF Aligned(o) = o THEN to ELSE Aligned(o)
           next == [o \in Nat |-> IF o >= to THEN o + 1 ELSE End(o)]
           sample(o) == Sample(o, End(o), Greatest((End(o) - o) \div frame, 1), 0)
           H == [x \in Nat \X S |-> IF x[1] >= to THEN <<>> ELSE <<sample(x[1])>> \o x[2]]
<1>0. <<>> \in S
  OBVIOUS
<1>1. \A o : PcmChunks(o, to, frame, rate) = cut[o]
  BY DEF PcmChunks
<1>2. size \in Nat \ {0} /\ size >= frame
  <2>1. rate * SegmentSecs \in Nat
    BY RemuxConstants, ProductGrows
  <2>2. rate * SegmentSecs * frame \in Nat
    BY <2>1, ProductGrows
  <2> QED
    BY <2>2 DEF Greatest
<1> HIDE DEF size
<1>3. ASSUME NEW o \in Nat, ~(o >= to)
      PROVE  /\ End(o) \in Nat /\ End(o) > o /\ End(o) <= to
             /\ (End(o) - o) % frame = 0 \/ (End(o) = to /\ End(o) - o < frame)
  <2>1. /\ Following(o) \in Nat /\ Following(o) > o /\ Following(o) <= to /\ Following(o) - o \in Nat
        /\ Following(o) = to \/ Following(o) - o >= frame
    BY <1>2, <1>3 DEF Least
  <2> HIDE DEF Following, End
  <2> DEFINE gap == Following(o) - o
  <2>2. gap % frame \in Nat /\ gap % frame <= gap
    <3>1. gap \in Nat
      BY <2>1
    <3> HIDE DEF gap
    <3> QED
      BY <3>1, Remainder
  <2>3. Aligned(o) \in Nat /\ Aligned(o) >= o /\ Aligned(o) <= to
    BY <2>1, <2>2
  <2>4. (Aligned(o) - o) % frame = 0
    <3>1. Aligned(o) - o = (Following(o) - o) - ((Following(o) - o) % frame)
      BY <2>1, <2>2
    <3> QED
      BY <2>1, <3>1, Aligning
  <2>5. Aligned(o) = o => Following(o) = to /\ to - o < frame
    <3>1. Aligned(o) = o => (Following(o) - o) % frame = Following(o) - o
      BY <2>1, <2>2
    <3>2. (Following(o) - o) % frame \in 0..(frame - 1)
      BY <2>1, Remainder
    <3> HIDE DEF Aligned
    <3> QED
      BY <2>1, <3>1, <3>2
  <2> HIDE DEF Aligned
  <2> QED
    BY <1>3, <2>3, <2>4, <2>5 DEF End
<1>4. ASSUME NEW o \in Nat, ~(o >= to)
      PROVE  sample(o) \in Samples
  <2>1. End(o) \in Nat /\ End(o) - o \in Nat
    BY <1>3, <1>4
  <2> HIDE DEF End
  <2>2. Greatest((End(o) - o) \div frame, 1) \in Nat
    BY <2>1, Quotient DEF Greatest
  <2> QED
    BY <2>1, <2>2 DEF Sample, Samples
<1>5. ASSUME NEW o \in Nat
      PROVE  next[o] \in Nat /\ next[o] > o
  <2> HIDE DEF End
  <2> QED
    BY <1>3
<1> HIDE DEF sample
<1>6. IsWalk(H, next, to, S)
  <2>1. ASSUME NEW o \in Nat, NEW rest \in S
        PROVE  (IF o >= to THEN <<>> ELSE <<sample(o)>> \o rest) \in S
    <3>1. CASE o >= to
      BY <3>1, <1>0
    <3>2. CASE ~(o >= to)
      BY <3>2, <1>4, Joined
    <3> QED
      BY <3>1, <3>2
  <2>2. H \in [Nat \X S -> S]
    <3> HIDE DEF S
    <3> QED
      BY <2>1
  <2>3. next \in [Nat -> Nat]
    <3>1. next = [o \in Nat |-> next[o]]
      OBVIOUS
    <3> HIDE DEF next
    <3> QED
      BY <3>1, <1>5
  <2> HIDE DEF H, next
  <2> QED
    BY <2>2, <2>3, <1>5 DEF IsWalk
<1>7. ASSUME NEW o \in Nat, NEW rest \in S
      PROVE  H[<<o, rest>>] = IF o >= to THEN <<>> ELSE <<sample(o)>> \o rest
  OBVIOUS
<1> HIDE DEF H
<1>8. PICK f : Walks(f, <<>>, H, next, to, S)
  BY <1>0, <1>6, WalkExists, Zenon
<1>9. ASSUME NEW o \in Nat
      PROVE  f[o] = IF o >= to THEN <<>> ELSE <<sample(o)>> \o f[next[o]]
  <2>1. f[next[o]] \in S
    BY <1>5, <1>8 DEF Walks
  <2> HIDE DEF next, S
  <2> QED
    BY <2>1, <1>7, <1>8 DEF Walks
<1>10. f = body(f)
  <2>1. f = [o \in Nat |-> f[o]]
    BY <1>8 DEF Walks
  <2>2. \A o \in Nat : f[o] = body(f)[o]
    BY <1>9 DEF sample
  <2> QED
    BY <2>1, <2>2
<1>11. cut = body(cut)
  <2> HIDE DEF body
  <2> QED
    BY <1>10, Zenon
<1> HIDE DEF cut
<1>12. \A o \in Nat : cut[o] = IF o >= to THEN <<>> ELSE <<sample(o)>> \o cut[next[o]]
  BY <1>11 DEF sample
<1>15. ASSUME NEW o \in Nat, o < to
       PROVE  \E end \in (o + 1)..to :
                /\ cut[o] = <<Sample(o, end, Greatest((end - o) \div frame, 1), 0)>> \o cut[end]
                /\ (end - o) % frame = 0 \/ (end = to /\ end - o < frame)
  <2>1. ~(o >= to) /\ next[o] = End(o)
    BY <1>15
  <2>2. cut[o] = <<sample(o)>> \o cut[End(o)]
    <3> HIDE DEF next, End
    <3> QED
      BY <2>1, <1>12, Zenon
  <2>3. End(o) \in (o + 1)..to /\ ((End(o) - o) % frame = 0 \/ (End(o) = to /\ End(o) - o < frame))
    <3> HIDE DEF End
    <3> QED
      BY <2>1, <1>3
  <2> HIDE DEF End
  <2> QED
    BY <2>2, <2>3, Zenon DEF sample
<1> HIDE DEF body, next
<1>13. Traces(cut, <<>>, H, next, to, S)
  BY <1>7, <1>12 DEF Traces
<1>14. \A o \in Nat : cut[o] \in S
  BY <1>0, <1>6, <1>13, WalkType, Zenon
<1>16. \A o \in Nat : o >= to => cut[o] = <<>>
  BY <1>12
<1> QED
  BY <1>1, <1>14, <1>15, <1>16, Zenon DEF PcmCut

LEMMA PcmPieces ==
  ASSUME NEW from \in Nat, NEW to \in Nat, NEW frame \in Nat \ {0}, NEW rate \in Nat
  PROVE  PcmChunks(from, to, frame, rate) \in Seq(Samples)
<1>1. PICK cut : PcmCut(cut, to, frame, rate)
  BY PcmScan, Zenon
<1> QED
  BY <1>1 DEF PcmCut

LEMMA AlacPieces ==
  ASSUME NEW from \in Nat, NEW len \in Nat, NEW frame \in Nat \ {0}
  PROVE  AlacPackets(from, from + len, frame) \in Seq(Samples)
<1> DEFINE to == from + len
           size == PacketFrames * frame
           n == (to - from + size - 1) \div size
           start(i) == from + (i - 1) * size
           end(i) == Least(start(i) + size, to)
           r == [i \in 1..n |-> Sample(start(i), end(i), (end(i) - start(i)) \div frame, 0)]
<1>1. AlacPackets(from, from + len, frame) = r
  BY DEF AlacPackets
<1>2. size \in Nat \ {0}
  BY RemuxConstants, SMTT(20)
<1> HIDE DEF size
<1>3. n \in Nat /\ n * size <= len + size - 1
  <2>1. to - from + size - 1 = len + size - 1 /\ len + size - 1 \in Nat
    BY <1>2
  <2>2. /\ n \in Nat /\ (len + size - 1) % size \in Nat
        /\ len + size - 1 = size * n + ((len + size - 1) % size)
    BY <1>2, <2>1, Quotient, Remainder
  <2> HIDE DEF n
  <2> QED
    BY <1>2, <2>2
<1> HIDE DEF n
<1>4. ASSUME NEW i \in 1..n
      PROVE  start(i) \in Nat /\ start(i) <= to
  <2>1. i - 1 \in Nat /\ n - 1 \in Nat /\ i - 1 <= n - 1
    BY <1>3
  <2>2. (i - 1) * size \in Nat /\ (i - 1) * size <= (n - 1) * size
    BY <1>2, <2>1, ProductGrows
  <2>3. (n - 1) * size = n * size - size
    BY <1>2, <1>3
  <2>4. n * size \in Nat
    BY <1>2, <1>3, ProductGrows
  <2> DEFINE x == (i - 1) * size
             y == n * size
             z == (n - 1) * size
  <2> HIDE DEF x, y, z
  <2>5. x \in Nat /\ x <= z /\ z = y - size /\ y \in Nat /\ y <= len + size - 1
    BY <1>3, <2>2, <2>3, <2>4 DEF x, y, z
  <2>6. x <= len
    BY <1>2, <2>5
  <2> QED
    BY <2>5, <2>6 DEF x
<1>5. ASSUME NEW i \in 1..n
      PROVE  Sample(start(i), end(i), (end(i) - start(i)) \div frame, 0) \in Samples
  <2>1. start(i) \in Nat /\ start(i) <= to
    BY <1>4
  <2> HIDE DEF start
  <2>2. end(i) \in Nat /\ end(i) - start(i) \in Nat
    BY <1>2, <2>1 DEF Least
  <2> HIDE DEF end
  <2>3. (end(i) - start(i)) \div frame \in Nat
    BY <2>2, Quotient
  <2> QED
    BY <2>1, <2>2, <2>3 DEF Sample, Samples
<1> HIDE DEF start, end
<1>6. r \in [1..n -> Samples]
  BY <1>5
<1> HIDE DEF r
<1> QED
  BY <1>1, <1>3, <1>6

LEMMA PcmTrack ==
  ASSUME NEW file, IsFile(file), file.format \in {"wav", "aiff"}
  PROVE  IsTrack(RemuxPcm(file))
<1> DEFINE w == WalkChunks(file)
           lpcm == Greatest((file.channels * file.depth) \div 8, 1)
           alac == file.channels * PcmBytesPerSample(file.depth)
<1>1. w \in WalkedType
  BY WalkedChunks
<1> HIDE DEF w
<1>2. w.from \in Nat \cup {-1} /\ w.len \in Nat
  BY <1>1 DEF WalkedType
<1>3. /\ file.channels \in Nat /\ file.depth \in Nat /\ file.rate \in Nat
  BY DEF IsFile
<1>4. lpcm \in Nat \ {0}
  <2>1. file.channels * file.depth \in Nat
    BY <1>3, ProductGrows
  <2>2. (file.channels * file.depth) \div 8 \in Nat
    BY <2>1, Quotient
  <2> QED
    BY <2>2 DEF Greatest
<1>5. alac \in Nat
  <2>1. PcmBytesPerSample(file.depth) \in Nat
    BY DEF PcmBytesPerSample
  <2> QED
    BY <1>3, <2>1, ProductGrows
<1> HIDE DEF lpcm, alac
<1>6. RemuxPcm(file) =
        IF w.from = -1 \/ ~w.fmt THEN RemuxError
        ELSE IF ~file.highRate THEN Track(PcmChunks(w.from, w.from + w.len, lpcm, file.rate))
        ELSE IF alac = 0 \/ w.len % Greatest(alac, 1) # 0 THEN RemuxError
        ELSE Track(AlacPackets(w.from, w.from + w.len, alac))
  BY DEF RemuxPcm, w, lpcm, alac
<1>7. CASE w.from = -1 \/ ~w.fmt
  BY <1>6, <1>7, TrackIs
<1>8. CASE w.from # -1 /\ w.fmt
  <2>1. w.from \in Nat /\ w.from + w.len \in Nat
    BY <1>2, <1>8
  <2>2. PcmChunks(w.from, w.from + w.len, lpcm, file.rate) \in Seq(Samples)
    BY <1>3, <1>4, <2>1, PcmPieces
  <2>3. alac # 0 => AlacPackets(w.from, w.from + w.len, alac) \in Seq(Samples)
    BY <1>2, <1>5, <2>1, AlacPieces
  <2> QED
    BY <1>6, <1>8, <2>2, <2>3, TrackIs
<1> QED
  BY <1>7, <1>8

-----------------------------------------------------------------------------
(* Ogg Opus *)

LEMMA Concatenated ==
  ASSUME NEW S, NEW s \in Seq(S), NEW t \in Seq(S)
  PROVE  s \o t \in Seq(S)
OBVIOUS

LEMMA Appended ==
  ASSUME NEW S, NEW s \in Seq(S), NEW x \in S
  PROVE  Append(s, x) \in Seq(S)
OBVIOUS

LEMMA OggLengths ==
  ASSUME NEW file, IsFile(file), file.format = "opus"
  PROVE  OggPackets(file) = <<-1>> \/ OggPackets(file) \in Seq(Nat)
<1> DEFINE S == Seq(Nat)
           n == Len(file.pages)
           page(i) == HeaderLen["opus"] + Len(file.pages[i]) + SumAll(file.pages[i])
           ends == [k \in 1..n |-> SumTo([i \in 1..n |-> page(i)], k)]
           read == {k \in 1..n : ends[k] - page(k) + HeaderLen["opus"] <= file.len}
           lacesBody(laces) == [k \in 0..n |->
              IF k = 0 THEN <<>> ELSE laces[k - 1] \o (IF k \in read THEN file.pages[k] ELSE <<>>)]
           laces == CHOOSE f : f = lacesBody(f)
           all == laces[n]
           P == [done : S, open : Nat]
           packetBody(packet) == [k \in 0..Len(all) |->
             IF k = 0 THEN [done |-> <<>>, open |-> 0]
             ELSE LET p == packet[k - 1]
                      l == p.open + all[k]
                  IN  IF all[k] < FullLace THEN [done |-> Append(p.done, l), open |-> 0]
                      ELSE [done |-> p.done, open |-> l]]
           packet == CHOOSE f : f = packetBody(f)
           last == packet[Len(all)]
<1>0. <<>> \in S
  OBVIOUS
<1>1. OggPackets(file) =
        IF \E k \in read : ends[k] > file.len THEN <<-1>>
        ELSE IF last.open > 0 THEN Append(last.done, last.open) ELSE last.done
  BY DEF OggPackets
<1> HIDE DEF ends, read
<1>2. n \in Nat /\ \A k \in 1..n : file.pages[k] \in S
  <2>1. file.pages \in Seq(S)
    BY DEF IsFile
  <2> HIDE DEF S
  <2> QED
    BY <2>1
<1>3. all \in S
  <2> DEFINE Of(k, x) == x \o (IF k \in read THEN file.pages[k] ELSE <<>>)
             G == [p \in (1..n) \X S |-> Of(p[1], p[2])]
  <2>1. ASSUME NEW k \in 1..n, NEW x \in S
        PROVE  Of(k, x) \in S
    <3>1. (IF k \in read THEN file.pages[k] ELSE <<>>) \in S
      BY <1>0, <1>2
    <3> QED
      BY <3>1, Concatenated
  <2> HIDE DEF S
  <2>2. \A k \in 1..n, x \in S : G[<<k, x>>] = Of(k, x)
    OBVIOUS
  <2>3. IsStep(G, n, S)
    <3> HIDE DEF Of
    <3> QED
      BY <1>2, <2>1 DEF IsStep
  <2> HIDE DEF G
  <2>4. PICK f : Follows(f, <<>>, G, n, S)
    BY <1>0, <2>3, Recursion, Zenon
  <2>5. f \in [0..n -> S] /\ f[0] = <<>>
    BY <2>4 DEF Follows
  <2>6. ASSUME NEW k \in 1..n
        PROVE  f[k] = Of(k, f[k - 1])
    <3>1. f[k - 1] \in S
      BY <2>5
    <3> HIDE DEF Of
    <3> QED
      BY <3>1, <2>2, <2>4 DEF Follows
  <2>7. f = lacesBody(f)
    BY <2>5, <2>6
  <2>8. laces = lacesBody(laces)
    <3> HIDE DEF lacesBody
    <3> QED
      BY <2>7, Zenon
  <2> HIDE DEF laces
  <2>9. laces[0] = <<>> /\ \A k \in 1..n : laces[k] = Of(k, laces[k - 1])
    BY <1>2, <2>8
  <2> HIDE DEF Of, lacesBody
  <2>10. Unfolds(laces, <<>>, G, n, S)
    BY <2>2, <2>9 DEF Unfolds
  <2>11. \A k \in 0..n : laces[k] \in S
    BY <1>0, <2>3, <2>10, RecursionType, Zenon
  <2> QED
    BY <1>2, <2>11
<1> HIDE DEF all
<1> DEFINE m == Len(all)
<1>4. m \in Nat /\ \A k \in 1..m : all[k] \in Nat
  BY <1>3
<1>5. last \in P
  <2> DEFINE Of(k, p) == IF all[k] < FullLace THEN [done |-> Append(p.done, p.open + all[k]), open |-> 0]
                         ELSE [done |-> p.done, open |-> p.open + all[k]]
             first == [done |-> <<>>, open |-> 0]
             G == [p \in (1..m) \X P |-> Of(p[1], p[2])]
  <2>1. ASSUME NEW k \in 1..m, NEW p \in P
        PROVE  Of(k, p) \in P
    <3>1. p.done \in S /\ p.open + all[k] \in Nat
      BY <1>4
    <3>2. Append(p.done, p.open + all[k]) \in S
      BY <3>1, Appended
    <3> HIDE DEF S
    <3> QED
      BY <3>1, <3>2
  <2>2. first \in P
    BY <1>0
  <2> HIDE DEF P
  <2>3. \A k \in 1..m, p \in P : G[<<k, p>>] = Of(k, p)
    OBVIOUS
  <2>4. IsStep(G, m, P)
    <3> HIDE DEF Of
    <3> QED
      BY <1>4, <2>1 DEF IsStep
  <2> HIDE DEF G
  <2>5. PICK f : Follows(f, first, G, m, P)
    <3> HIDE DEF first
    <3> QED
      BY <2>2, <2>4, Recursion, Zenon
  <2>6. f \in [0..m -> P] /\ f[0] = first
    BY <2>5 DEF Follows
  <2>7. ASSUME NEW k \in 1..m
        PROVE  f[k] = Of(k, f[k - 1])
    <3>1. f[k - 1] \in P
      BY <2>6
    <3> HIDE DEF Of
    <3> QED
      BY <3>1, <2>3, <2>5 DEF Follows
  <2>8. f = packetBody(f)
    <3>1. f = [k \in 0..m |-> f[k]]
      BY <2>6
    <3>2. ASSUME NEW k \in 0..m
          PROVE  f[k] = packetBody(f)[k]
      <4>1. CASE k = 0
        BY <4>1, <2>6
      <4>2. CASE k # 0
        <5>1. f[k] = Of(k, f[k - 1])
          <6> HIDE DEF Of
          <6> QED
            BY <4>2, <2>7
        <5>2. packetBody(f)[k] = Of(k, f[k - 1])
          BY <4>2
        <5> QED
          BY <5>1, <5>2
      <4> QED
        BY <4>1, <4>2
    <3>3. packetBody(f) = [k \in 0..m |-> packetBody(f)[k]]
      OBVIOUS
    <3> HIDE DEF packetBody
    <3> QED
      BY <3>1, <3>2, <3>3
  <2>9. packet = packetBody(packet)
    <3> HIDE DEF packetBody
    <3> QED
      BY <2>8, Zenon
  <2> HIDE DEF packet
  <2>10. packet[0] = first
    BY <1>4, <2>9
  <2>13. ASSUME NEW k \in 1..m
         PROVE  packet[k] = Of(k, packet[k - 1])
    <3>1. k \in 0..m /\ k # 0
      BY <1>4
    <3> QED
      BY <3>1, <2>9
  <2> HIDE DEF Of, packetBody, first
  <2>11. Unfolds(packet, first, G, m, P)
    BY <2>3, <2>10, <2>13 DEF Unfolds
  <2>12. \A k \in 0..m : packet[k] \in P
    BY <2>2, <2>4, <2>11, RecursionType, Zenon
  <2> QED
    BY <1>4, <2>12
<1> HIDE DEF last
<1>6. last.done \in S /\ last.open \in Nat
  BY <1>5
<1>7. Append(last.done, last.open) \in S
  BY <1>6, Appended
<1> QED
  BY <1>1, <1>6, <1>7

\* The lengths of the audio packets among the first k, and the samples of all of them.
LEMMA OpusSteps ==
  ASSUME NEW file, IsFile(file), file.format = "opus"
  PROVE  \/ RemuxOpus(file) = RemuxError
         \/ /\ OggPackets(file) \in Seq(Nat)
            /\ \E lens :
                  LET audio == lens[Len(OggPackets(file))]
                  IN  /\ RemuxOpus(file) = Track([k \in DOMAIN audio |->
                                 Sample(SumTo(audio, k - 1), SumTo(audio, k), file.packetDur, 0)])
                      /\ lens[0] = <<>>
                      /\ \A k \in 0..Len(OggPackets(file)) : lens[k] \in Seq(Nat)
                      /\ \A k \in 1..Len(OggPackets(file)) :
                            lens[k] = IF k \in DOMAIN file.kinds => file.kinds[k] = "audio"
                                      THEN Append(lens[k - 1], OggPackets(file)[k]) ELSE lens[k - 1]
<1> DEFINE packets == OggPackets(file)
           S == Seq(Nat)
           n == Len(packets)
           kind(k) == IF k \in DOMAIN file.kinds THEN file.kinds[k] ELSE "audio"
           body(lens) == [k \in 0..Len(packets) |->
              IF k = 0 THEN <<>>
              ELSE IF kind(k) = "audio" THEN Append(lens[k - 1], packets[k]) ELSE lens[k - 1]]
           lens == CHOOSE f : f = body(f)
           audio == lens[Len(packets)]
           r == [k \in DOMAIN audio |->
                      Sample(SumTo(audio, k - 1), SumTo(audio, k), file.packetDur, 0)]
<1>0. <<>> \in S
  OBVIOUS
<1>1. RemuxOpus(file) =
        IF packets = <<-1>> \/ (\A k \in DOMAIN packets : kind(k) # "head") THEN RemuxError
        ELSE Track(r)
  BY DEF RemuxOpus
<1>2. CASE packets = <<-1>> \/ (\A k \in DOMAIN packets : kind(k) # "head")
  BY <1>1, <1>2
<1>3. CASE ~(packets = <<-1>> \/ (\A k \in DOMAIN packets : kind(k) # "head"))
  <2>1. packets \in S
    BY <1>3, OggLengths
  <2> HIDE DEF packets, kind
  <2>2. n \in Nat /\ \A k \in 1..n : packets[k] \in Nat
    BY <2>1
  <2> DEFINE Of(k, x) == IF kind(k) = "audio" THEN Append(x, packets[k]) ELSE x
             G == [p \in (1..n) \X S |-> Of(p[1], p[2])]
  <2>3. ASSUME NEW k \in 1..n, NEW x \in S
        PROVE  Of(k, x) \in S
    BY <2>2, Appended
  <2> HIDE DEF S
  <2>4. \A k \in 1..n, x \in S : G[<<k, x>>] = Of(k, x)
    OBVIOUS
  <2>5. IsStep(G, n, S)
    <3> HIDE DEF Of
    <3> QED
      BY <2>2, <2>3 DEF IsStep
  <2> HIDE DEF G
  <2>6. PICK f : Follows(f, <<>>, G, n, S)
    BY <1>0, <2>5, Recursion, Zenon
  <2>7. f \in [0..n -> S] /\ f[0] = <<>>
    BY <2>6 DEF Follows
  <2>8. ASSUME NEW k \in 1..n
        PROVE  f[k] = Of(k, f[k - 1])
    <3>1. f[k - 1] \in S
      BY <2>7
    <3> HIDE DEF Of
    <3> QED
      BY <3>1, <2>4, <2>6 DEF Follows
  <2>9. f = body(f)
    <3>1. f = [k \in 0..n |-> f[k]]
      BY <2>7
    <3>2. ASSUME NEW k \in 0..n
          PROVE  f[k] = body(f)[k]
      <4>1. CASE k = 0
        BY <4>1, <2>7
      <4>2. CASE k # 0
        <5>1. f[k] = Of(k, f[k - 1])
          <6> HIDE DEF Of
          <6> QED
            BY <4>2, <2>8
        <5>2. body(f)[k] = Of(k, f[k - 1])
          BY <4>2
        <5> QED
          BY <5>1, <5>2
      <4> QED
        BY <4>1, <4>2
    <3>3. body(f) = [k \in 0..n |-> body(f)[k]]
      OBVIOUS
    <3> HIDE DEF body
    <3> QED
      BY <3>1, <3>2, <3>3
  <2>10. lens = body(lens)
    <3> HIDE DEF body
    <3> QED
      BY <2>9, Zenon
  <2> HIDE DEF lens
  <2>11. lens[0] = <<>>
    BY <2>2, <2>10
  <2>19. ASSUME NEW k \in 1..n
         PROVE  lens[k] = Of(k, lens[k - 1])
    <3>1. k \in 0..n /\ k # 0
      BY <2>2
    <3> QED
      BY <3>1, <2>10
  <2> HIDE DEF Of, body
  <2>12. Unfolds(lens, <<>>, G, n, S)
    BY <2>4, <2>11, <2>19 DEF Unfolds
  <2>13. \A k \in 0..n : lens[k] \in S
    BY <1>0, <2>5, <2>12, RecursionType, Zenon
  <2>14. \A k \in 1..n : lens[k] = IF k \in DOMAIN file.kinds => file.kinds[k] = "audio"
                                   THEN Append(lens[k - 1], packets[k]) ELSE lens[k - 1]
    <3>1. \A k : kind(k) = "audio" <=> (k \in DOMAIN file.kinds => file.kinds[k] = "audio")
      BY DEF kind
    <3> HIDE DEF packets
    <3> QED
      BY <3>1, <2>19 DEF Of
  <2>15. RemuxOpus(file) = Track(r)
    BY <1>1, <1>3
  <2> QED
    BY <2>1, <2>11, <2>13, <2>14, <2>15 DEF S, packets
<1> QED
  BY <1>2, <1>3

LEMMA OpusTrack ==
  ASSUME NEW file, IsFile(file), file.format = "opus"
  PROVE  IsTrack(RemuxOpus(file))
<1>1. CASE RemuxOpus(file) = RemuxError
  BY <1>1, TrackIs
<1>2. CASE RemuxOpus(file) # RemuxError
  <2> DEFINE n == Len(OggPackets(file))
  <2>1. PICK lens :
           /\ RemuxOpus(file) = Track([k \in DOMAIN lens[n] |->
                      Sample(SumTo(lens[n], k - 1), SumTo(lens[n], k), file.packetDur, 0)])
           /\ \A k \in 0..n : lens[k] \in Seq(Nat)
           /\ OggPackets(file) \in Seq(Nat)
    BY <1>2, OpusSteps, Zenon
  <2> DEFINE audio == lens[n]
             r == [k \in DOMAIN audio |->
                      Sample(SumTo(audio, k - 1), SumTo(audio, k), file.packetDur, 0)]
  <2>14. audio \in Seq(Nat)
    BY <2>1
  <2>19. RemuxOpus(file) = Track(r)
    BY <2>1
  <2> HIDE DEF audio
  <2>15. Len(audio) \in Nat /\ DOMAIN audio = 1..Len(audio)
    BY <2>14
  <2>16. file.packetDur \in Nat
    BY DEF IsFile
  <2>17. ASSUME NEW k \in 1..Len(audio)
         PROVE  Sample(SumTo(audio, k - 1), SumTo(audio, k), file.packetDur, 0) \in Samples
    <3>1. SumTo(audio, k - 1) \in Nat /\ SumTo(audio, k) \in Nat
      BY <2>14, <2>15, Sums
    <3> QED
      BY <3>1, <2>16 DEF Sample, Samples
  <2>18. r \in Seq(Samples)
    <3>1. r \in [1..Len(audio) -> Samples]
      BY <2>15, <2>17
    <3> QED
      BY <2>15, <3>1
  <2> QED
    BY <2>18, <2>19, TrackIs
<1> QED
  BY <1>1, <1>2

-----------------------------------------------------------------------------
(* MP4, and all of the formats *)

LEMMA AudioOfSteps ==
  ASSUME NEW D, NEW demuxed \in Seq(D)
  PROVE  \E upTo :
            /\ AudioOf(demuxed) = upTo[Len(demuxed)]
            /\ upTo[0] = <<>>
            /\ \A i \in 0..Len(demuxed) : upTo[i] \in Seq(D)
            /\ \A i \in 1..Len(demuxed) :
                  upTo[i] = IF demuxed[i].track = "audio" THEN Append(upTo[i - 1], demuxed[i])
                            ELSE upTo[i - 1]
<1> DEFINE S == Seq(D)
           n == Len(demuxed)
           body(upTo) == [i \in 0..Len(demuxed) |->
             IF i = 0 THEN <<>>
             ELSE IF demuxed[i].track = "audio" THEN Append(upTo[i - 1], demuxed[i]) ELSE upTo[i - 1]]
           upTo == CHOOSE f : f = body(f)
           Of(i, x) == IF demuxed[i].track = "audio" THEN Append(x, demuxed[i]) ELSE x
           G == [p \in (1..n) \X S |-> Of(p[1], p[2])]
<1>0. <<>> \in S
  OBVIOUS
<1>1. AudioOf(demuxed) = upTo[n]
  BY DEF AudioOf
<1>2. n \in Nat /\ \A i \in 1..n : demuxed[i] \in D
  OBVIOUS
<1>3. ASSUME NEW i \in 1..n, NEW x \in S
      PROVE  Of(i, x) \in S
  BY <1>2, Appended
<1> HIDE DEF S
<1>4. \A i \in 1..n, x \in S : G[<<i, x>>] = Of(i, x)
  OBVIOUS
<1>5. IsStep(G, n, S)
  <2> HIDE DEF Of
  <2> QED
    BY <1>2, <1>3 DEF IsStep
<1> HIDE DEF G
<1>6. PICK f : Follows(f, <<>>, G, n, S)
  BY <1>0, <1>5, Recursion, Zenon
<1>7. f \in [0..n -> S] /\ f[0] = <<>>
  BY <1>6 DEF Follows
<1>8. ASSUME NEW i \in 1..n
      PROVE  f[i] = Of(i, f[i - 1])
  <2>1. f[i - 1] \in S
    BY <1>7
  <2> HIDE DEF Of
  <2> QED
    BY <2>1, <1>4, <1>6 DEF Follows
<1>9. f = body(f)
  <2>1. f = [i \in 0..n |-> f[i]]
    BY <1>7
  <2>2. ASSUME NEW i \in 0..n
        PROVE  f[i] = body(f)[i]
    <3>1. CASE i = 0
      BY <3>1, <1>7
    <3>2. CASE i # 0
      <4>1. f[i] = Of(i, f[i - 1])
        <5> HIDE DEF Of
        <5> QED
          BY <3>2, <1>8
      <4>2. body(f)[i] = Of(i, f[i - 1])
        BY <3>2
      <4> QED
        BY <4>1, <4>2
    <3> QED
      BY <3>1, <3>2
  <2>3. body(f) = [i \in 0..n |-> body(f)[i]]
    OBVIOUS
  <2> HIDE DEF body
  <2> QED
    BY <2>1, <2>2, <2>3
<1>10. upTo = body(upTo)
  <2> HIDE DEF body
  <2> QED
    BY <1>9, Zenon
<1> HIDE DEF upTo
<1>11. upTo[0] = <<>>
  BY <1>2, <1>10
<1>12. ASSUME NEW i \in 1..n
       PROVE  upTo[i] = Of(i, upTo[i - 1])
  <2>1. i \in 0..n /\ i # 0
    BY <1>2
  <2> QED
    BY <2>1, <1>10
<1>15. \A i \in 1..n : upTo[i] = IF demuxed[i].track = "audio" THEN Append(upTo[i - 1], demuxed[i])
                                ELSE upTo[i - 1]
  BY <1>12
<1> HIDE DEF Of, body
<1>13. Unfolds(upTo, <<>>, G, n, S)
  BY <1>4, <1>11, <1>12 DEF Unfolds
<1>14. \A i \in 0..n : upTo[i] \in S
  BY <1>0, <1>5, <1>13, RecursionType, Zenon
<1> QED
  BY <1>1, <1>11, <1>14, <1>15 DEF S

LEMMA AudioOfType ==
  ASSUME NEW D, NEW demuxed \in Seq(D)
  PROVE  AudioOf(demuxed) \in Seq(D)
<1>1. PICK upTo : /\ AudioOf(demuxed) = upTo[Len(demuxed)]
                  /\ \A i \in 0..Len(demuxed) : upTo[i] \in Seq(D)
  BY AudioOfSteps, Zenon
<1> QED
  BY <1>1

\* The sample entry that holds for a sample of the audio track.
LEMMA Mp4Entries ==
  ASSUME NEW file, IsFile(file), file.format = "mp4"
  PROVE  \E entry :
            LET audio == AudioOf(file.demuxed)
            IN  /\ RemuxMp4(file) =
                     IF \E i \in DOMAIN audio : entry[i] = 0 \/ audio[i].offset + audio[i].size > file.len
                     THEN RemuxError
                     ELSE Track([i \in DOMAIN audio |->
                                   Sample(audio[i].offset, audio[i].offset + audio[i].size,
                                          audio[i].dur, entry[i])])
                /\ entry[0] = 0
                /\ \A i \in 0..Len(audio) : entry[i] \in Nat
                /\ \A i \in 1..Len(audio) : entry[i] = IF audio[i].reports THEN i ELSE entry[i - 1]
<1> DEFINE D == [track : STRING, reports : BOOLEAN, offset : Nat, size : Nat, dur : Nat]
           audio == AudioOf(file.demuxed)
           n == Len(audio)
           body(entry) == [i \in 0..Len(audio) |->
             IF i = 0 THEN 0 ELSE IF audio[i].reports THEN i ELSE entry[i - 1]]
           entry == CHOOSE f : f = body(f)
           Of(i, x) == IF audio[i].reports THEN i ELSE x
           G == [p \in (1..n) \X Nat |-> Of(p[1], p[2])]
           r == [i \in DOMAIN audio |->
                      Sample(audio[i].offset, audio[i].offset + audio[i].size,
                             audio[i].dur, entry[i])]
<1>1. RemuxMp4(file) =
        IF \E i \in DOMAIN audio : entry[i] = 0 \/ audio[i].offset + audio[i].size > file.len
        THEN RemuxError ELSE Track(r)
  BY DEF RemuxMp4
<1>2. audio \in Seq(D)
  <2>1. file.demuxed \in Seq(D)
    BY DEF IsFile
  <2> HIDE DEF D
  <2> QED
    BY <2>1, AudioOfType
<1> HIDE DEF audio
<1>3. n \in Nat /\ DOMAIN audio = 1..n /\ \A i \in 1..n : audio[i] \in D
  <2> HIDE DEF D
  <2> QED
    BY <1>2
<1>4. \A i \in 1..n, x \in Nat : G[<<i, x>>] = Of(i, x)
  OBVIOUS
<1>5. IsStep(G, n, Nat)
  BY <1>3 DEF IsStep
<1> HIDE DEF G
<1>6. PICK f : Follows(f, 0, G, n, Nat)
  BY <1>5, Recursion, 0 \in Nat, Zenon
<1>7. f \in [0..n -> Nat] /\ f[0] = 0
  BY <1>6 DEF Follows
<1>8. ASSUME NEW i \in 1..n
      PROVE  f[i] = Of(i, f[i - 1])
  <2>1. f[i - 1] \in Nat
    BY <1>7
  <2> HIDE DEF Of
  <2> QED
    BY <2>1, <1>4, <1>6 DEF Follows
<1>9. f = body(f)
  <2>1. f = [i \in 0..n |-> f[i]]
    BY <1>7
  <2>2. ASSUME NEW i \in 0..n
        PROVE  f[i] = body(f)[i]
    <3>1. CASE i = 0
      BY <3>1, <1>7
    <3>2. CASE i # 0
      <4>1. i \in 1..n
        BY <3>2, <1>3
      <4> QED
        BY <3>2, <4>1, <1>8
    <3> QED
      BY <3>1, <3>2
  <2> QED
    BY <2>1, <2>2
<1>10. entry = body(entry)
  <2> HIDE DEF body
  <2> QED
    BY <1>9, Zenon
<1> HIDE DEF entry
<1>11. entry[0] = 0 /\ \A i \in 1..n : entry[i] = Of(i, entry[i - 1])
  <2>1. \A i \in 0..n : entry[i] = body(entry)[i]
    <3> HIDE DEF body
    <3> QED
      BY <1>10
  <2>2. 0 \in 0..n /\ body(entry)[0] = 0
    BY <1>3
  <2>3. ASSUME NEW i \in 1..n
        PROVE  body(entry)[i] = Of(i, entry[i - 1])
    <3>1. i \in 0..n /\ i # 0
      BY <1>3
    <3> QED
      BY <3>1
  <2>4. \A i \in 1..n : i \in 0..n
    BY <1>3
  <2> HIDE DEF body, Of
  <2> QED
    BY <2>1, <2>2, <2>3, <2>4
<1>16. entry[0] = 0 /\ \A i \in 1..n : entry[i] = IF audio[i].reports THEN i ELSE entry[i - 1]
  BY <1>11
<1> HIDE DEF body, Of
<1>12. Unfolds(entry, 0, G, n, Nat)
  BY <1>4, <1>11 DEF Unfolds
<1>13. \A i \in 0..n : entry[i] \in Nat
  BY <1>5, <1>12, RecursionType, 0 \in Nat, Zenon
<1> QED
  BY <1>1, <1>13, <1>16 DEF audio

LEMMA Mp4Track ==
  ASSUME NEW file, IsFile(file), file.format = "mp4"
  PROVE  IsTrack(RemuxMp4(file))
<1> DEFINE D == [track : STRING, reports : BOOLEAN, offset : Nat, size : Nat, dur : Nat]
           audio == AudioOf(file.demuxed)
           n == Len(audio)
<1>1. PICK entry :
         /\ RemuxMp4(file) =
              IF \E i \in DOMAIN audio : entry[i] = 0 \/ audio[i].offset + audio[i].size > file.len
              THEN RemuxError
              ELSE Track([i \in DOMAIN audio |->
                            Sample(audio[i].offset, audio[i].offset + audio[i].size,
                                   audio[i].dur, entry[i])])
         /\ \A i \in 0..n : entry[i] \in Nat
  BY Mp4Entries, Zenon
<1> DEFINE r == [i \in DOMAIN audio |->
                      Sample(audio[i].offset, audio[i].offset + audio[i].size,
                             audio[i].dur, entry[i])]
<1>2. audio \in Seq(D)
  <2>1. file.demuxed \in Seq(D)
    BY DEF IsFile
  <2> HIDE DEF D
  <2> QED
    BY <2>1, AudioOfType
<1> HIDE DEF audio
<1>3. n \in Nat /\ DOMAIN audio = 1..n /\ \A i \in 1..n : audio[i] \in D
  <2> HIDE DEF D
  <2> QED
    BY <1>2
<1>13. \A i \in 1..n : entry[i] \in Nat
  BY <1>1, <1>3
<1>14. ASSUME NEW i \in 1..n
       PROVE  Sample(audio[i].offset, audio[i].offset + audio[i].size, audio[i].dur, entry[i]) \in Samples
  <2>1. /\ audio[i].offset \in Nat /\ audio[i].size \in Nat /\ audio[i].dur \in Nat
    BY <1>3
  <2>2. audio[i].offset + audio[i].size \in Nat /\ entry[i] \in Nat
    BY <2>1, <1>13
  <2> QED
    BY <2>1, <2>2 DEF Sample, Samples
<1>15. r \in Seq(Samples)
  <2>1. r \in [1..n -> Samples]
    BY <1>3, <1>14
  <2> QED
    BY <1>3, <2>1
<1> QED
  BY <1>1, <1>15, TrackIs

(* Whatever a file holds, remuxing makes a track of samples of it, or       *)
(* refuses it.                                                             *)
LEMMA RemuxedTracks ==
  ASSUME NEW file, IsFile(file)
  PROVE  IsTrack(Remuxed(file))
<1>1. CASE file.format = "flac"
  BY <1>1, FlacTrack DEF Remuxed
<1>2. CASE file.format = "mp3"
  BY <1>2, Mp3Track DEF Remuxed
<1>3. CASE file.format = "adts"
  BY <1>3, AdtsTrack DEF Remuxed
<1>4. CASE file.format \in {"wav", "aiff"}
  BY <1>4, PcmTrack DEF Remuxed
<1>5. CASE file.format = "opus"
  BY <1>5, OpusTrack DEF Remuxed
<1>6. CASE file.format = "mp4"
  BY <1>6, Mp4Track DEF Remuxed
<1>7. CASE file.format \notin {"flac", "mp3", "adts", "wav", "aiff", "opus", "mp4"}
  BY <1>7, TrackIs DEF Remuxed
<1> QED
  BY <1>1, <1>2, <1>3, <1>4, <1>5, <1>6, <1>7

(* The segments of a file that is accepted cover its samples.              *)
LEMMA SegmentsOf ==
  ASSUME NEW file, IsFile(file)
  PROVE  /\ Segments(file) \in Seq(Pieces)
         /\ Remuxed(file).ok \in BOOLEAN
         /\ Remuxed(file).ok => SegmentsFit(file)
<1> DEFINE samples == Remuxed(file).samples
           target == Greatest(file.rate * SegmentSecs, 1)
<1>1. IsTrack(Remuxed(file))
  BY RemuxedTracks
<1>2. target \in Nat
  <2>1. file.rate * SegmentSecs \in Nat
    BY RemuxConstants, ProductGrows DEF IsFile
  <2> QED
    BY <2>1 DEF Greatest
<1>3. samples \in Seq(Samples)
  BY <1>1 DEF IsTrack
<1>4. Segments(file) = SplitIntoSegments(samples, target)
  BY DEF Segments
<1>5. SegmentsFit(file) = SegmentsCover(samples, SplitIntoSegments(samples, target), target)
  BY DEF SegmentsFit, Segments
<1>6. Remuxed(file).ok \in BOOLEAN /\ (Remuxed(file).ok => samples # <<>>)
  BY <1>1 DEF IsTrack
<1> HIDE DEF samples, target
<1>7. CASE samples # <<>>
  BY <1>2, <1>3, <1>4, <1>5, <1>6, <1>7, SegmentsAlwaysCover
<1>8. CASE samples = <<>>
  <2>1. SplitIntoSegments(samples, target) = <<>>
    BY <1>8 DEF SplitIntoSegments
  <2>2. <<>> \in Seq(Pieces)
    OBVIOUS
  <2> QED
    BY <1>4, <1>6, <1>8, <2>1, <2>2
<1> QED
  BY <1>7, <1>8

-----------------------------------------------------------------------------
(* The samples hold all of the audio: FLAC, MPEG and AAC                  *)

\* A sequence with an element before it.
LEMMA Prepended ==
  ASSUME NEW S, NEW x \in S, NEW s \in Seq(S)
  PROVE  /\ <<x>> \o s \in Seq(S) /\ Len(<<x>> \o s) = Len(s) + 1 /\ Len(s) \in Nat
         /\ (<<x>> \o s)[1] = x
         /\ \A i \in 1..Len(s) : (<<x>> \o s)[i + 1] = s[i]
         /\ \A i \in 1..(Len(s) + 1) : i = 1 \/ (i - 1 \in 1..Len(s) /\ (<<x>> \o s)[i] = s[i - 1])
OBVIOUS

Elements(s) == {s[i] : i \in 1..Len(s)}

LEMMA ElementsPrepended ==
  ASSUME NEW S, NEW x \in S, NEW s \in Seq(S)
  PROVE  Elements(<<x>> \o s) = {x} \cup Elements(s)
<1> DEFINE t == <<x>> \o s
<1>1. /\ Len(t) = Len(s) + 1 /\ Len(s) \in Nat /\ t[1] = x
      /\ \A i \in 1..Len(s) : t[i + 1] = s[i]
      /\ \A i \in 1..(Len(s) + 1) : i = 1 \/ (i - 1 \in 1..Len(s) /\ t[i] = s[i - 1])
  BY Prepended
<1> HIDE DEF t
<1>2. ASSUME NEW i \in 1..Len(s)
      PROVE  i + 1 \in 1..Len(t) /\ t[i + 1] = s[i]
  BY <1>1
<1>3. 1 \in 1..Len(t)
  BY <1>1
<1>4. \A i \in 1..Len(t) : t[i] = x \/ \E j \in 1..Len(s) : t[i] = s[j]
  BY <1>1
<1>5. Elements(t) \subseteq {x} \cup Elements(s)
  BY <1>4, Zenon DEF Elements
<1>6. {x} \cup Elements(s) \subseteq Elements(t)
  <2>1. \A y \in Elements(s) : \E i \in 1..Len(s) : y = s[i]
    BY Zenon DEF Elements
  <2>2. \A y \in Elements(s) : y \in Elements(t)
    <3>1. ASSUME NEW i \in 1..Len(s)
          PROVE  s[i] \in Elements(t)
      <4>1. i + 1 \in 1..Len(t) /\ s[i] = t[i + 1]
        BY <1>2
      <4> QED
        BY <4>1, Zenon DEF Elements
    <3> QED
      BY <2>1, <3>1, Zenon
  <2>3. x \in Elements(t)
    BY <1>1, <1>3, Zenon DEF Elements
  <2> QED
    BY <2>2, <2>3
<1> QED
  BY <1>5, <1>6 DEF t

\* The search for FLAC frames finds every one of them.
LEMMA FlacStartsAre ==
  ASSUME NEW file, IsFile(file), file.format = "flac", NEW from \in Nat
  PROVE  Elements(FlacFrameStarts(file, from))
           = {o \in from..Len(file.bytes) : IsSync(file, o) /\ o \in file.crc}
<1> DEFINE N == Len(file.bytes)
           Found(o) == {p \in o..N : IsSync(file, p) /\ p \in file.crc}
<1>1. PICK starts :
         /\ \A o : FlacFrameStarts(file, o) = starts[o]
         /\ \A o \in Nat :
               /\ starts[o] \in Seq(file.crc)
               /\ starts[o] = IF o + 1 >= N THEN <<>>
                              ELSE IF ~IsSync(file, o) THEN starts[o + 1]
                              ELSE (IF o \in file.crc THEN <<o>> ELSE <<>>) \o starts[o + 2]
  BY FlacScan, Zenon
<1>2. N \in Nat
  BY DEF IsFile
<1>3. ASSUME NEW o \in Nat, IsSync(file, o)
      PROVE  o + 1 < N /\ ~IsSync(file, o + 1)
  <2>1. (o + 1) + 1 = o + 2
    OBVIOUS
  <2>2. file.bytes[o + 2] = "f8" /\ o + 1 < N
    BY <1>3 DEF IsSync
  <2>3. IsSync(file, o + 1) => file.bytes[(o + 1) + 1] = "ff"
    BY DEF IsSync
  <2> HIDE DEF N
  <2> QED
    BY <2>1, <2>2, <2>3
<1> DEFINE T == {o \in Nat : Elements(starts[o]) = Found(o)}
<1> HIDE DEF N
<1>4. Elements(<<>>) = {}
  BY DEF Elements
<1>5. ASSUME NEW o \in Nat, o + 1 >= N
      PROVE  o \in T
  <2>1. starts[o] = <<>>
    BY <1>1, <1>5
  <2>2. ASSUME NEW p \in o..N
        PROVE  ~IsSync(file, p)
    BY <1>2, <1>3, <1>5, p \in Nat
  <2>3. Found(o) = {}
    BY <2>2
  <2> QED
    BY <2>1, <2>3, <1>4
<1>6. ASSUME NEW o \in Nat, \A q \in Nat : q > o => q \in T
      PROVE  o \in T
  <2>1. CASE o + 1 >= N
    BY <2>1, <1>5
  <2>2. CASE ~(o + 1 >= N) /\ ~IsSync(file, o)
    <3>0. o + 1 \in Nat /\ o + 1 > o
      OBVIOUS
    <3>1. starts[o] = starts[o + 1] /\ o + 1 \in T
      <4> HIDE DEF T
      <4> QED
        BY <2>2, <3>0, <1>1, <1>6, Zenon
    <3>2. \A p : p \in o..N <=> p = o \/ p \in (o + 1)..N
      BY <2>2, <1>2
    <3>3. Found(o) = Found(o + 1)
      BY <3>2, <2>2, Zenon
    <3> QED
      BY <3>1, <3>3
  <2>3. CASE ~(o + 1 >= N) /\ IsSync(file, o)
    <3>1. o + 2 \in T /\ starts[o + 2] \in Seq(file.crc)
      <4>1. o + 2 \in Nat /\ o + 2 > o
        OBVIOUS
      <4> HIDE DEF T
      <4> QED
        BY <4>1, <1>1, <1>6, Zenon
    <3>2. \A p : p \in o..N <=> p = o \/ p = o + 1 \/ p \in (o + 2)..N
      BY <2>3, <1>2
    <3>3. ~IsSync(file, o + 1)
      BY <2>3, <1>3
    <3>4. starts[o] = (IF o \in file.crc THEN <<o>> ELSE <<>>) \o starts[o + 2]
      BY <2>3, <1>1, Zenon
    <3>5. CASE o \in file.crc
      <4>1. starts[o] = <<o>> \o starts[o + 2]
        BY <3>4, <3>5, Zenon
      <4>2. Elements(starts[o]) = {o} \cup Elements(starts[o + 2])
        <5>1. Elements(<<o>> \o starts[o + 2]) = {o} \cup Elements(starts[o + 2])
          <6>1. starts[o + 2] \in Seq(file.crc)
            BY <3>1
          <6> HIDE DEF T
          <6> QED
            BY <6>1, <3>5, ElementsPrepended
        <5> QED
          BY <4>1, <5>1, Zenon
      <4>3. Found(o) = {o} \cup Found(o + 2)
        BY <3>2, <3>3, <3>5, <2>3, Zenon
      <4> QED
        BY <3>1, <4>2, <4>3
    <3>6. CASE o \notin file.crc
      <4>1. starts[o] = starts[o + 2]
        <5>1. starts[o] = <<>> \o starts[o + 2]
          BY <3>4, <3>6, Zenon
        <5>2. \A s \in Seq(file.crc) : <<>> \o s = s
          OBVIOUS
        <5> QED
          BY <5>1, <5>2, <3>1, Zenon
      <4>3. Found(o) = Found(o + 2)
        BY <3>2, <3>3, <3>6, Zenon
      <4> QED
        BY <3>1, <4>1, <4>3
    <3> QED
      BY <3>5, <3>6
  <2> QED
    BY <2>1, <2>2, <2>3
<1> HIDE DEF T
<1>7. Nat \subseteq T
  <2>1. \A o \in Nat : o >= N => o \in T
    BY <1>2, <1>5
  <2> QED
    BY <1>2, <1>6, <2>1, DownwardInduction
<1> QED
  BY <1>1, <1>7 DEF T, N

\* What is accepted has samples.
LEMMA Accepted ==
  \A s : Track(s).samples = s /\ (Track(s).ok => s # <<>>)
BY DEF Track

\* FLAC: the samples start at the frames, and nothing is between them.
LEMMA FlacKept ==
  ASSUME NEW file, IsFile(file), file.format = "flac", Remuxed(file).ok
  PROVE  AudioIsKept(file)
<1> DEFINE audio == FlacAudioOffset(file)
           starts == FlacFrameStarts(file, audio)
           n == Len(starts)
           durs == [i \in 1..n |-> Greatest(1, FlacBlockSize(file, starts[i]))]
           trim == TrimDurations(durs, file.total)
           end(i) == IF i < n THEN starts[i + 1] ELSE Len(file.bytes)
           r == [i \in 1..n |-> Sample(starts[i], end(i), trim[i], 0)]
<1>1. Remuxed(file) = RemuxFlac(file)
  BY DEF Remuxed
<1>2. audio # -1
  BY <1>1 DEF RemuxFlac, RemuxError
<1>3. Remuxed(file).samples = r /\ r # <<>>
  <2>1. RemuxFlac(file) = Track(r)
    BY <1>2 DEF RemuxFlac
  <2> HIDE DEF r
  <2> QED
    BY <1>1, <2>1, Accepted, Zenon
<1>4. audio \in Nat
  BY <1>2, FlacOffset
<1>5. starts \in Seq(file.crc) /\ Elements(starts) = {o \in audio..Len(file.bytes) : IsSync(file, o) /\ o \in file.crc}
  <2> HIDE DEF audio
  <2> QED
    BY <1>4, FlacStarts, FlacStartsAre
<1> HIDE DEF starts, trim
<1>6. n \in Nat
  BY <1>5
<1>7. DOMAIN r = 1..n /\ \A i \in 1..n : r[i].from = starts[i] /\ r[i].to = end(i)
  BY DEF Sample
<1>8. Len(r) = n
  BY <1>6, <1>7
<1>9. n # 0
  <2>1. n = 0 => r = <<>>
    BY <1>6
  <2> QED
    BY <1>3, <2>1
<1> HIDE DEF r, n
<1>10. {r[i].from : i \in 1..n} = Elements(starts)
  BY <1>7, Zenon DEF Elements, n
<1>11. Tile(r, r[1].from, Len(file.bytes))
  <2>1. r[n].to = Len(file.bytes)
    BY <1>6, <1>7, <1>9
  <2>2. \A i \in 1..(n - 1) : r[i].to = r[i + 1].from
    BY <1>6, <1>7
  <2> QED
    BY <2>1, <2>2, <1>8, <1>9 DEF Tile
<1>12. Keeps(file, r)
  BY <1>5, <1>8, <1>10, <1>11 DEF Keeps, audio
<1> QED
  BY <1>3, <1>12 DEF AudioIsKept

\* What FramesAreKept says, of a set of frames.
FramesFrom(file, o) == {p \in o..(file.len - HeaderLen[file.format]) : file.at[p] # NoFrame}

FrameEnd(file, p) == p + file.at[p].length

Unfit(file, p) == \/ FrameEnd(file, p) > file.len
                  \/ file.format = "adts" /\ file.at[p].length <= file.at[p].header

Makes(file, sample, p) == p <= sample.from /\ FrameEnd(file, p) = sample.to

Covered(file, samples, frames, o) ==
    \/ \E i \in DOMAIN samples : \E p \in frames :
          Makes(file, samples[i], p) /\ (p = o \/ (p < o /\ o < FrameEnd(file, p)))
    \/ \E p \in frames : /\ p <= o /\ Unfit(file, p)
                         /\ \A i \in DOMAIN samples : samples[i].to <= p

FramesIn(file, samples, frames) ==
    /\ \A i \in DOMAIN samples : \E p \in frames : Makes(file, samples[i], p)
    /\ \A i, j \in DOMAIN samples : i < j => samples[i].to <= samples[j].from
    /\ \A o \in frames : Covered(file, samples, frames, o)

LEMMA FramesKeptIs ==
  ASSUME NEW file, NEW samples, NEW from, FramesIn(file, samples, FramesFrom(file, from))
  PROVE  FramesAreKept(file, samples, from)
<1> DEFINE frames == FramesFrom(file, from)
           of(i)  == {p \in frames : p <= samples[i].from /\ p + file.at[p].length = samples[i].to}
<1>1. \A i \in DOMAIN samples : of(i) # {}
  BY Zenon DEF FramesIn, Makes, FrameEnd
<1>2. \A i, j \in DOMAIN samples : i < j => samples[i].to <= samples[j].from
  BY DEF FramesIn
<1>3. ASSUME NEW o \in frames
      PROVE  \/ \E i \in DOMAIN samples : \E p \in of(i) : p = o \/ (p < o /\ o < p + file.at[p].length)
             \/ \E p \in frames : /\ p <= o
                                  /\ \/ p + file.at[p].length > file.len
                                     \/ file.format = "adts" /\ file.at[p].length <= file.at[p].header
                                  /\ \A i \in DOMAIN samples : samples[i].to <= p
  <2>1. Covered(file, samples, frames, o)
    BY DEF FramesIn
  <2> QED
    BY <2>1, Zenon DEF Covered, Makes, FrameEnd, Unfit
<1> QED
  BY <1>1, <1>2, <1>3, Zenon DEF FramesAreKept, FramesFrom

\* A frame before the others, and the sample that is made of it.
LEMMA FrameAdded ==
  ASSUME NEW file, NEW o \in Nat, NEW before \in SUBSET Nat, NEW frames \in SUBSET Nat, NEW q \in Nat,
         o < q, q = FrameEnd(file, o),
         o \in before, frames \subseteq before,
         \A p \in before : o <= p /\ (p >= q => p \in frames),
         \A p \in frames : q <= p,
         NEW F, \A y \in F : y.from \in Nat /\ y.to \in Nat,
         NEW x \in F, o <= x.from, x.to = q,
         NEW s \in Seq(F), FramesIn(file, s, frames)
  PROVE  FramesIn(file, <<x>> \o s, before)
<1> DEFINE t == <<x>> \o s
<1>1. /\ t \in Seq(F) /\ Len(t) = Len(s) + 1 /\ Len(s) \in Nat /\ t[1] = x
      /\ \A i \in 1..Len(s) : t[i + 1] = s[i]
      /\ \A i \in 1..(Len(s) + 1) : i = 1 \/ (i - 1 \in 1..Len(s) /\ t[i] = s[i - 1])
  BY Prepended
<1> HIDE DEF t
<1>2. DOMAIN t = 1..(Len(s) + 1) /\ DOMAIN s = 1..Len(s)
  BY <1>1
<1>3. \A i \in DOMAIN t : i = 1 \/ (i - 1 \in DOMAIN s /\ t[i] = s[i - 1])
  BY <1>1, <1>2
<1>4. 1 \in DOMAIN t /\ \A i \in DOMAIN s : i + 1 \in DOMAIN t /\ t[i + 1] = s[i]
  BY <1>1, <1>2
<1>5. Makes(file, x, o)
  BY DEF Makes
<1>6. ASSUME NEW i \in DOMAIN s
      PROVE  s[i].from \in Nat /\ s[i].to \in Nat /\ q <= s[i].from
  <2>1. s[i] \in F
    BY <1>2
  <2>2. PICK p \in frames : Makes(file, s[i], p)
    BY <1>6 DEF FramesIn
  <2> QED
    BY <2>1, <2>2 DEF Makes
<1>7. ASSUME NEW i \in DOMAIN t
      PROVE  \E p \in before : Makes(file, t[i], p)
  <2>1. CASE i = 1
    BY <2>1, <1>1, <1>5, Zenon
  <2>2. CASE i # 1
    <3>1. i - 1 \in DOMAIN s /\ t[i] = s[i - 1]
      BY <2>2, <1>3
    <3>2. \E p \in frames : Makes(file, s[i - 1], p)
      BY <3>1, Zenon DEF FramesIn
    <3> QED
      BY <3>1, <3>2, Zenon
  <2> QED
    BY <2>1, <2>2
<1>8. ASSUME NEW i \in DOMAIN t, NEW j \in DOMAIN t, i < j
      PROVE  t[i].to <= t[j].from
  <2>1. j - 1 \in DOMAIN s /\ t[j] = s[j - 1] /\ i \in Nat /\ j \in Nat
    BY <1>2, <1>3, <1>8
  <2>2. CASE i = 1
    BY <2>1, <2>2, <1>1, <1>6
  <2>3. CASE i # 1
    <3>1. i - 1 \in DOMAIN s /\ t[i] = s[i - 1] /\ i - 1 < j - 1
      BY <2>1, <2>3, <1>3, <1>8
    <3> QED
      BY <2>1, <3>1, Zenon DEF FramesIn
  <2> QED
    BY <2>2, <2>3
<1>9. ASSUME NEW e \in before
      PROVE  Covered(file, t, before, e)
  <2>1. CASE e < q
    <3>1. o = e \/ (o < e /\ e < FrameEnd(file, o))
      BY <2>1, e \in Nat
    <3>2. Makes(file, t[1], o)
      BY <1>1, <1>5, Zenon
    <3> QED
      BY <3>1, <3>2, <1>4, Zenon DEF Covered
  <2>2. CASE ~(e < q)
    <3>1. e \in frames
      BY <2>2, e \in Nat
    <3>2. Covered(file, s, frames, e)
      BY <3>1, Zenon DEF FramesIn
    <3>3. ASSUME NEW i \in DOMAIN s, NEW p \in frames, Makes(file, s[i], p),
                 p = e \/ (p < e /\ e < FrameEnd(file, p))
          PROVE  Covered(file, t, before, e)
      <4>1. i + 1 \in DOMAIN t /\ Makes(file, t[i + 1], p) /\ p \in before
        BY <3>3, <1>4, Zenon
      <4> QED
        BY <3>3, <4>1, Zenon DEF Covered
    <3>4. ASSUME NEW p \in frames, p <= e, Unfit(file, p), \A i \in DOMAIN s : s[i].to <= p
          PROVE  Covered(file, t, before, e)
      <4>1. ASSUME NEW i \in DOMAIN t
            PROVE  t[i].to <= p
        <5>1. CASE i = 1
          BY <5>1, <1>1
        <5>2. CASE i # 1
          BY <5>2, <1>3, <3>4
        <5> QED
          BY <5>1, <5>2
      <4>2. p \in before
        OBVIOUS
      <4> QED
        BY <3>4, <4>1, <4>2, Zenon DEF Covered
    <3> QED
      BY <3>2, <3>3, <3>4, Zenon DEF Covered
  <2> QED
    BY <2>1, <2>2
<1> QED
  BY <1>7, <1>8, <1>9, Zenon DEF FramesIn, t

\* A search for frames from every offset on.
FrameScan(file, scan, F) ==
    /\ \A x \in F : x.from \in Nat /\ x.to \in Nat
    /\ \A o \in Nat :
          /\ scan[o] \in Seq(F)
          /\ o + HeaderLen[file.format] > file.len => scan[o] = <<>>
          /\ o + HeaderLen[file.format] <= file.len =>
                /\ file.at[o] = NoFrame => scan[o] = scan[o + 1]
                /\ file.at[o] # NoFrame =>
                      \/ Unfit(file, o) /\ scan[o] = <<>>
                      \/ /\ file.at[o].length \in Nat \ {0}
                         /\ \E x \in F : /\ o <= x.from /\ x.to = FrameEnd(file, o)
                                         /\ scan[o] = <<x>> \o scan[FrameEnd(file, o)]

LEMMA ScanKeeps ==
  ASSUME NEW file, file.len \in Nat, HeaderLen[file.format] \in Nat \ {0},
         NEW scan, NEW F, FrameScan(file, scan, F), NEW from \in Nat
  PROVE  FramesIn(file, scan[from], FramesFrom(file, from))
<1> DEFINE L == HeaderLen[file.format]
           frames(o) == FramesFrom(file, o)
           T == {o \in Nat : FramesIn(file, scan[o], frames(o))}
<1>1. \A o \in Nat : \A p : p \in frames(o) <=> p \in Nat /\ o <= p /\ p + L <= file.len /\ file.at[p] # NoFrame
  BY DEF FramesFrom
<1> HIDE DEF frames
<1>2. ASSUME NEW o \in Nat, o + L > file.len
      PROVE  o \in T
  <2>1. frames(o) = {}
    BY <1>1, <1>2
  <2>2. scan[o] = <<>>
    BY <1>2 DEF FrameScan
  <2>3. DOMAIN <<>> = {}
    OBVIOUS
  <2> QED
    BY <2>1, <2>2, <2>3 DEF FramesIn
<1>3. ASSUME NEW o \in Nat, \A q \in Nat : q > o => q \in T
      PROVE  o \in T
  <2>1. CASE o + L > file.len
    BY <2>1, <1>2
  <2>2. CASE o + L <= file.len /\ file.at[o] = NoFrame
    <3>1. o + 1 \in Nat /\ o + 1 > o
      OBVIOUS
    <3>2. scan[o] = scan[o + 1]
      BY <2>2 DEF FrameScan
    <3>3. frames(o) = frames(o + 1)
      <4>1. \A p : p \in frames(o) <=> p \in frames(o + 1)
        BY <1>1, <2>2, <3>1
      <4> QED
        BY <4>1
    <3>4. FramesIn(file, scan[o + 1], frames(o + 1))
      BY <3>1, <1>3
    <3> QED
      BY <3>2, <3>3, <3>4
  <2>3. CASE o + L <= file.len /\ file.at[o] # NoFrame /\ Unfit(file, o) /\ scan[o] = <<>>
    <3>1. DOMAIN <<>> = {}
      OBVIOUS
    <3>2. o \in frames(o) /\ \A p \in frames(o) : o <= p
      BY <1>1, <2>3
    <3>3. \A p \in frames(o) : Covered(file, <<>>, frames(o), p)
      BY <2>3, <3>1, <3>2, Zenon DEF Covered
    <3> QED
      BY <2>3, <3>1, <3>3 DEF FramesIn
  <2>4. CASE /\ o + L <= file.len /\ file.at[o] # NoFrame /\ file.at[o].length \in Nat \ {0}
             /\ \E x \in F : /\ o <= x.from /\ x.to = FrameEnd(file, o)
                             /\ scan[o] = <<x>> \o scan[FrameEnd(file, o)]
    <3> DEFINE q == FrameEnd(file, o)
    <3>1. q \in Nat /\ o < q
      BY <2>4 DEF FrameEnd
    <3>2. PICK x \in F : o <= x.from /\ x.to = q /\ scan[o] = <<x>> \o scan[q]
      BY <2>4
    <3> HIDE DEF q
    <3>3. FramesIn(file, scan[q], frames(q))
      BY <3>1, <1>3
    <3>4. scan[q] \in Seq(F) /\ \A y \in F : y.from \in Nat /\ y.to \in Nat
      BY <3>1 DEF FrameScan
    <3>5. /\ frames(o) \in SUBSET Nat /\ frames(q) \in SUBSET Nat
          /\ o \in frames(o) /\ frames(q) \subseteq frames(o)
          /\ \A p \in frames(o) : o <= p /\ (p >= q => p \in frames(q))
          /\ \A p \in frames(q) : q <= p
      BY <1>1, <2>4, <3>1
    <3>6. FramesIn(file, <<x>> \o scan[q], frames(o))
      <4>1. q = FrameEnd(file, o)
        BY DEF q
      <4> HIDE DEF T
      <4> QED
        BY <3>1, <3>2, <3>3, <3>4, <3>5, <4>1, FrameAdded
    <3> QED
      BY <3>2, <3>6
  <2> QED
    <3>1. o + L > file.len \/ o + L <= file.len
      OBVIOUS
    <3>2. o + L <= file.len /\ file.at[o] # NoFrame =>
             \/ Unfit(file, o) /\ scan[o] = <<>>
             \/ /\ file.at[o].length \in Nat \ {0}
                /\ \E x \in F : /\ o <= x.from /\ x.to = FrameEnd(file, o)
                                /\ scan[o] = <<x>> \o scan[FrameEnd(file, o)]
      BY Zenon DEF FrameScan
    <3> HIDE DEF T, L
    <3> QED
      BY <2>1, <2>2, <2>3, <2>4, <3>1, <3>2, Zenon
<1> HIDE DEF T
<1>4. Nat \subseteq T
  <2>1. \A o \in Nat : o >= file.len => o \in T
    BY <1>2
  <2> QED
    BY <1>3, <2>1, DownwardInduction
<1> QED
  BY <1>4 DEF T, frames

\* MP3: every frame is a sample, lies in one, or behind one that is cut off.
LEMMA Mp3Kept ==
  ASSUME NEW file, IsFile(file), file.format = "mp3"
  PROVE  AudioIsKept(file)
<1> DEFINE L == HeaderLen["mp3"]
<1>1. PICK scan :
         /\ RemuxMp3(file) = Track(scan[file.tag]) /\ file.tag \in Nat
         /\ \A o \in Nat :
               /\ scan[o] \in Seq(Samples)
               /\ scan[o] = IF o + L > file.len THEN <<>>
                            ELSE IF file.at[o] = NoFrame THEN scan[o + 1]
                            ELSE IF o + file.at[o].length > file.len THEN <<>>
                            ELSE <<Sample(o, o + file.at[o].length, file.at[o].dur, 0)>>
                                   \o scan[o + file.at[o].length]
  BY Mp3Scan, Zenon
<1>2. /\ L \in Nat \ {0} /\ file.len \in Nat /\ HeaderLen[file.format] = L
      /\ \A o \in 0..(file.len - L) : file.at[o] # NoFrame => file.at[o] \in [length : Nat \ {0}, dur : Nat]
  BY RemuxConstants DEF IsFile
<1> HIDE DEF L
<1>3. ASSUME NEW o \in Nat, o + L <= file.len, file.at[o] # NoFrame
      PROVE  \/ Unfit(file, o) /\ scan[o] = <<>>
             \/ /\ file.at[o].length \in Nat \ {0}
                /\ \E x \in Samples : /\ o <= x.from /\ x.to = FrameEnd(file, o)
                                     /\ scan[o] = <<x>> \o scan[FrameEnd(file, o)]
  <2> DEFINE l == file.at[o].length
             x == Sample(o, o + l, file.at[o].dur, 0)
  <2>1. l \in Nat \ {0} /\ file.at[o].dur \in Nat /\ ~(o + L > file.len)
    BY <1>2, <1>3
  <2>2. CASE o + l > file.len
    <3>1. scan[o] = <<>>
      BY <1>1, <1>3, <2>1, <2>2, Zenon
    <3> QED
      BY <2>2, <3>1 DEF Unfit, FrameEnd
  <2>3. CASE ~(o + l > file.len)
    <3>1. scan[o] = <<x>> \o scan[o + l]
      BY <1>1, <1>3, <2>1, <2>3, Zenon
    <3>2. x \in Samples /\ x.from = o /\ x.to = o + l
      BY <2>1 DEF Sample, Samples
    <3> HIDE DEF x
    <3>3. o <= x.from /\ x.to = FrameEnd(file, o)
      BY <3>2 DEF FrameEnd
    <3> QED
      BY <2>1, <3>1, <3>2, <3>3, Zenon DEF FrameEnd
  <2> QED
    BY <2>2, <2>3
<1>4. ASSUME NEW o \in Nat
      PROVE  /\ o + L > file.len => scan[o] = <<>>
             /\ o + L <= file.len /\ file.at[o] = NoFrame => scan[o] = scan[o + 1]
  <2>1. o + L <= file.len => ~(o + L > file.len)
    BY <1>2
  <2> QED
    BY <1>1, <2>1, Zenon
<1>5. FrameScan(file, scan, Samples)
  <2>1. \A x \in Samples : x.from \in Nat /\ x.to \in Nat
    BY DEF Samples
  <2> QED
    BY <1>1, <1>2, <1>3, <1>4, <2>1, Zenon DEF FrameScan
<1>6. FramesAreKept(file, scan[file.tag], file.tag)
  BY <1>1, <1>2, <1>5, ScanKeeps, FramesKeptIs
<1>7. Remuxed(file).samples = scan[file.tag]
  <2>1. Remuxed(file) = RemuxMp3(file)
    BY DEF Remuxed
  <2> QED
    BY <1>1, <2>1, Accepted, Zenon
<1> QED
  BY <1>6, <1>7 DEF AudioIsKept, Keeps

\* ADTS: likewise, for frames that are longer than their headers.
LEMMA AdtsKept ==
  ASSUME NEW file, IsFile(file), file.format = "adts"
  PROVE  AudioIsKept(file)
<1> DEFINE L == HeaderLen["adts"]
           F == AdtsFrames(file)
           samples == RemuxAdts(file).samples
           frame(o) == [from |-> o + file.at[o].header, to |-> o + file.at[o].length,
                        dur |-> file.at[o].dur, key |-> file.at[o].key]
<1>1. PICK scan :
         /\ IsTrack(RemuxAdts(file))
         /\ Len(samples) = Len(scan[0])
         /\ \A i \in 1..Len(scan[0]) : samples[i].from = scan[0][i].from /\ samples[i].to = scan[0][i].to
         /\ \A o \in Nat :
               /\ scan[o] \in Seq(F)
               /\ scan[o] = IF o + L > file.len THEN <<>>
                            ELSE IF file.at[o] = NoFrame THEN scan[o + 1]
                            ELSE IF \/ o + file.at[o].length > file.len
                                    \/ file.at[o].length <= file.at[o].header THEN <<>>
                            ELSE <<frame(o)>> \o scan[o + file.at[o].length]
  BY AdtsScan, Zenon
<1>2. /\ L \in Nat \ {0} /\ file.len \in Nat /\ HeaderLen[file.format] = L
      /\ \A o \in 0..(file.len - L) :
            file.at[o] # NoFrame =>
               /\ file.at[o].length \in Nat /\ file.at[o].header \in Nat /\ file.at[o].dur \in Nat
  BY RemuxConstants DEF IsFile
<1> HIDE DEF L
<1>3. ASSUME NEW o \in Nat, o + L <= file.len, file.at[o] # NoFrame
      PROVE  \/ Unfit(file, o) /\ scan[o] = <<>>
             \/ /\ file.at[o].length \in Nat \ {0}
                /\ \E x \in F : /\ o <= x.from /\ x.to = FrameEnd(file, o)
                               /\ scan[o] = <<x>> \o scan[FrameEnd(file, o)]
  <2> DEFINE l == file.at[o].length
             x == frame(o)
             stops == o + l > file.len \/ l <= file.at[o].header
  <2>1. l \in Nat /\ file.at[o].header \in Nat /\ file.at[o].dur \in Nat /\ ~(o + L > file.len)
    BY <1>2, <1>3
  <2>2. CASE stops
    <3>1. scan[o] = <<>>
      BY <1>1, <1>3, <2>1, <2>2, Zenon
    <3> QED
      BY <2>2, <3>1 DEF Unfit, FrameEnd
  <2>3. CASE ~stops
    <3>1. scan[o] = <<x>> \o scan[o + l]
      <4> HIDE DEF frame
      <4> QED
        BY <1>1, <1>3, <2>1, <2>3, Zenon
    <3>2. x \in F /\ x.from = o + file.at[o].header /\ x.to = o + l
      <4>1. file.at[o].key \in {file.at[p].key : p \in Nat}
        OBVIOUS
      <4> QED
        BY <2>1, <4>1 DEF AdtsFrames
    <3> HIDE DEF x, F
    <3>3. o <= x.from /\ x.to = FrameEnd(file, o) /\ l # 0
      BY <2>1, <2>3, <3>2 DEF FrameEnd
    <3> QED
      BY <2>1, <3>1, <3>2, <3>3 DEF FrameEnd
  <2> QED
    BY <2>2, <2>3
<1>4. ASSUME NEW o \in Nat
      PROVE  /\ o + L > file.len => scan[o] = <<>>
             /\ o + L <= file.len /\ file.at[o] = NoFrame => scan[o] = scan[o + 1]
  <2>1. o + L <= file.len => ~(o + L > file.len)
    BY <1>2
  <2> HIDE DEF frame
  <2> QED
    BY <1>1, <2>1, Zenon
<1>5. FrameScan(file, scan, F)
  <2>1. \A x \in F : x.from \in Nat /\ x.to \in Nat
    BY DEF AdtsFrames
  <2> HIDE DEF F, frame
  <2> QED
    BY <1>1, <1>2, <1>3, <1>4, <2>1, Zenon DEF FrameScan
<1>6. FramesIn(file, scan[0], FramesFrom(file, 0))
  BY <1>1, <1>2, <1>5, ScanKeeps
<1>7. DOMAIN samples = DOMAIN scan[0] /\ DOMAIN scan[0] = 1..Len(scan[0])
  <2>1. samples \in Seq(Samples) /\ scan[0] \in Seq(F)
    BY <1>1 DEF IsTrack
  <2> HIDE DEF samples, F
  <2> QED
    BY <1>1, <2>1
<1> HIDE DEF samples, F, frame
<1>8. FramesIn(file, samples, FramesFrom(file, 0))
  <2>1. \A i \in DOMAIN samples : samples[i].from = scan[0][i].from /\ samples[i].to = scan[0][i].to
    BY <1>1, <1>7
  <2>2. \A i \in DOMAIN samples : \A p : Makes(file, samples[i], p) <=> Makes(file, scan[0][i], p)
    BY <2>1, Zenon DEF Makes
  <2>3. ASSUME NEW o \in FramesFrom(file, 0)
        PROVE  Covered(file, samples, FramesFrom(file, 0), o)
    <3>1. Covered(file, scan[0], FramesFrom(file, 0), o)
      BY <1>6, Zenon DEF FramesIn
    <3> QED
      BY <1>7, <2>1, <2>2, <3>1 DEF Covered
  <2> QED
    BY <1>6, <1>7, <2>1, <2>2, <2>3 DEF FramesIn
<1>9. Remuxed(file).samples = samples
  BY DEF Remuxed, samples
<1>10. FramesAreKept(file, samples, 0)
  BY <1>8, FramesKeptIs
<1> QED
  BY <1>9, <1>10 DEF AudioIsKept, Keeps

-----------------------------------------------------------------------------
(* The samples hold all of the audio, with its durations: PCM             *)

LEMMA TilePrepended ==
  ASSUME NEW x \in Samples, NEW s \in Seq(Samples), NEW to, Tile(s, x.to, to)
  PROVE  Tile(<<x>> \o s, x.from, to)
<1> DEFINE t == <<x>> \o s
<1>1. /\ t \in Seq(Samples) /\ Len(t) = Len(s) + 1 /\ Len(s) \in Nat /\ t[1] = x
      /\ \A i \in 1..Len(s) : t[i + 1] = s[i]
      /\ \A i \in 1..(Len(s) + 1) : i = 1 \/ (i - 1 \in 1..Len(s) /\ t[i] = s[i - 1])
  BY Prepended
<1> HIDE DEF t
<1>2. CASE Len(s) = 0
  <2>1. x.to = to /\ Len(t) = 1
    BY <1>1, <1>2 DEF Tile
  <2> QED
    BY <1>1, <2>1 DEF Tile, t
<1>3. CASE Len(s) # 0
  <2>1. /\ s[1].from = x.to /\ s[Len(s)].to = to
        /\ \A i \in 1..(Len(s) - 1) : s[i].to = s[i + 1].from
    BY <1>3 DEF Tile
  <2>2. t[2] = s[1] /\ t[Len(s) + 1] = s[Len(s)]
    BY <1>1, <1>3
  <2>3. ASSUME NEW i \in 1..Len(s)
        PROVE  t[i].to = t[i + 1].from
    <3>1. CASE i = 1
      BY <3>1, <2>1, <2>2, <1>1
    <3>2. CASE i # 1
      <4>1. i - 1 \in 1..(Len(s) - 1) /\ (i - 1) + 1 = i /\ i \in 1..(Len(s) + 1)
        BY <3>2, <1>1
      <4>2. t[i] = s[i - 1] /\ t[i + 1] = s[i]
        BY <4>1, <3>2, <1>1
      <4>3. s[i - 1].to = s[(i - 1) + 1].from
        BY <4>1, <2>1
      <4> QED
        BY <4>1, <4>2, <4>3
    <3> QED
      BY <3>1, <3>2
  <2>4. Len(t) - 1 = Len(s) /\ Len(t) # 0
    BY <1>1
  <2> QED
    BY <1>1, <2>1, <2>2, <2>3, <2>4 DEF Tile, t
<1> QED
  BY <1>1, <1>2, <1>3

LEMMA DurationsPrepended ==
  ASSUME NEW x \in Samples, NEW s \in Seq(Samples)
  PROVE  /\ SumAll(Durations(<<x>> \o s)) = x.dur + SumAll(Durations(s))
         /\ SumAll(Durations(s)) \in Nat
<1> DEFINE t == <<x>> \o s
           m == Len(s)
<1>1. /\ t \in Seq(Samples) /\ Len(t) = m + 1 /\ m \in Nat /\ t[1] = x
      /\ \A i \in 1..m : t[i + 1] = s[i]
  BY Prepended
<1> HIDE DEF t
<1> DEFINE S(i) == SumTo(Durations(s), i)
           T(i) == SumTo(Durations(t), i)
<1>2. /\ S(0) = 0 /\ \A i \in 0..m : S(i) \in Nat
      /\ \A i \in 1..m : s[i].dur \in Nat /\ S(i) = S(i - 1) + s[i].dur
  BY DurationSums
<1>3. /\ T(0) = 0 /\ \A i \in 0..(m + 1) : T(i) \in Nat
      /\ \A i \in 1..(m + 1) : t[i].dur \in Nat /\ T(i) = T(i - 1) + t[i].dur
  BY <1>1, DurationSums
<1>4. Len(Durations(s)) = m /\ Len(Durations(t)) = m + 1
  BY <1>1 DEF Durations
<1> HIDE DEF S, T
<1> DEFINE U == {i \in 0..m : T(i + 1) = x.dur + S(i)}
<1>5. 0 \in U
  <2>1. T(1) = T(1 - 1) + t[1].dur /\ t[1].dur \in Nat
    BY <1>1, <1>3
  <2> QED
    BY <1>1, <1>2, <1>3, <2>1
<1>6. ASSUME NEW i \in 1..m, i - 1 \in U
      PROVE  i \in U
  <2>1. T(i + 1) = T((i + 1) - 1) + t[i + 1].dur /\ (i + 1) - 1 = i /\ (i - 1) + 1 = i
    BY <1>1, <1>3
  <2>2. S(i) = S(i - 1) + s[i].dur /\ S(i - 1) \in Nat /\ s[i].dur \in Nat /\ t[i + 1] = s[i]
    BY <1>1, <1>2
  <2>3. T((i - 1) + 1) = x.dur + S(i - 1)
    BY <1>6
  <2>4. x.dur \in Nat
    BY DEF Samples
  <2> QED
    BY <2>1, <2>2, <2>3, <2>4
<1> HIDE DEF U
<1>7. 0..m \subseteq U
  BY <1>1, <1>5, <1>6, UpToInduction
<1>8. T(m + 1) = x.dur + S(m) /\ S(m) \in Nat
  BY <1>1, <1>2, <1>7 DEF U
<1> QED
  BY <1>4, <1>8 DEF SumAll, S, T, t

\* Division, where it has a rest.
LEMMA QuotientIs ==
  ASSUME NEW b \in Nat \ {0}, NEW q \in Nat, NEW r \in 0..(b - 1)
  PROVE  b * q \in Nat /\ (b * q + r) \div b = q
<1> DEFINE a == b * q + r
           d == a \div b
           e == a % b
<1>1. b * q \in Nat /\ a \in Nat
  <2>1. b * q \in Nat
    BY SMTT(20)
  <2> QED
    BY <2>1
<1>2. d \in Nat /\ a = b * d + e /\ e \in 0..(b - 1)
  <2> HIDE DEF a
  <2> QED
    BY <1>1, Quotient, Remainder
<1> HIDE DEF d, e
<1>3. CASE d < q
  <2>1. PICK k \in Nat : q = d + 1 + k
    BY <1>2, <1>3
  <2>2. b * q = b * d + b + b * k /\ b * k \in Nat /\ b * d \in Nat
    BY <2>1, <1>2, SMTT(20)
  <2> DEFINE x == b * q
             y == b * d
             z == b * k
  <2>3. x = y + b + z /\ z \in Nat /\ y \in Nat /\ x + r = y + e
    BY <1>2, <2>2
  <2> HIDE DEF x, y, z
  <2> QED
    BY <1>2, <2>3
<1>4. CASE d > q
  <2>1. PICK k \in Nat : d = q + 1 + k
    BY <1>2, <1>4
  <2>2. b * d = b * q + b + b * k /\ b * k \in Nat /\ b * q \in Nat
    BY <2>1, <1>2, SMTT(20)
  <2> DEFINE x == b * q
             y == b * d
             z == b * k
  <2>3. y = x + b + z /\ z \in Nat /\ x \in Nat /\ x + r = y + e
    BY <1>2, <2>2
  <2> HIDE DEF x, y, z
  <2> QED
    BY <1>2, <2>3
<1> QED
  BY <1>1, <1>2, <1>3, <1>4 DEF d

\* The frames of a length: whole ones, and the rest as one.
FramesOf(len, frame) == (len + frame - 1) \div frame

LEMMA FramesAddUp ==
  ASSUME NEW frame \in Nat \ {0}, NEW len \in Nat
  PROVE  /\ FramesOf(len, frame) \in Nat /\ FramesOf(0, frame) = 0
         /\ len \in 1..(frame - 1) => FramesOf(len, frame) = 1 /\ len \div frame = 0
         /\ len % frame = 0 =>
               /\ FramesOf(len, frame) = len \div frame
               /\ len > 0 => len \div frame > 0
               /\ \A rest \in Nat : FramesOf(len + rest, frame) = len \div frame + FramesOf(rest, frame)
<1>1. \A q \in Nat, r \in 0..(frame - 1) : frame * q \in Nat /\ (frame * q + r) \div frame = q
  BY QuotientIs
<1>2. frame * 0 = 0 /\ frame * 1 = frame
  OBVIOUS
<1>3. FramesOf(len, frame) \in Nat
  <2>1. len + frame - 1 \in Nat
    OBVIOUS
  <2> QED
    BY <2>1, Quotient DEF FramesOf
<1>4. FramesOf(0, frame) = 0
  <2>1. (frame * 0 + (frame - 1)) \div frame = 0
    BY <1>1
  <2>2. frame * 0 + (frame - 1) = 0 + frame - 1
    BY <1>2
  <2> QED
    BY <2>1, <2>2 DEF FramesOf
<1>5. ASSUME len \in 1..(frame - 1)
      PROVE  FramesOf(len, frame) = 1 /\ len \div frame = 0
  <2>1. (frame * 1 + (len - 1)) \div frame = 1 /\ (frame * 0 + len) \div frame = 0
    BY <1>1, <1>5
  <2>2. frame * 1 + (len - 1) = len + frame - 1 /\ frame * 0 + len = len
    BY <1>2
  <2> QED
    BY <2>1, <2>2 DEF FramesOf
<1>6. ASSUME len % frame = 0
      PROVE  /\ FramesOf(len, frame) = len \div frame
             /\ len > 0 => len \div frame > 0
             /\ \A rest \in Nat : FramesOf(len + rest, frame) = len \div frame + FramesOf(rest, frame)
  <2> DEFINE k == len \div frame
  <2>1. k \in Nat /\ len = frame * k
    <3>1. len \div frame \in Nat /\ len = frame * (len \div frame) + (len % frame)
      BY Quotient
    <3> DEFINE p == frame * (len \div frame)
    <3>2. p \in Nat
      BY <3>1, <1>1
    <3>3. len = p + (len % frame)
      BY <3>1
    <3> HIDE DEF p
    <3>4. len = p
      BY <3>2, <3>3, <1>6
    <3> QED
      BY <3>1, <3>4 DEF p
  <2>2. ASSUME NEW rest \in Nat
        PROVE  FramesOf(len + rest, frame) = k + FramesOf(rest, frame)
    <3> DEFINE a == rest + frame - 1
               d == a \div frame
               r == a % frame
               p == frame * k
               o == frame * d
    <3>1. d \in Nat /\ a = o + r /\ r \in 0..(frame - 1)
      <4>1. a \in Nat
        OBVIOUS
      <4> HIDE DEF a
      <4> QED
        BY <4>1, Quotient, Remainder
    <3> HIDE DEF d, r
    <3>2. frame * (k + d) = p + o
      <4> HIDE DEF k
      <4> QED
        BY <2>1, <3>1, SMTT(20)
    <3>3. (frame * (k + d) + r) \div frame = k + d
      <4>1. k + d \in Nat
        BY <2>1, <3>1
      <4> QED
        BY <3>1, <4>1, <1>1
    <3>4. p = len /\ o \in Nat
      BY <2>1, <3>1, <1>1
    <3> HIDE DEF o, p, k
    <3>5. (p + o) + r = len + rest + frame - 1
      BY <3>1, <3>4
    <3> QED
      BY <3>2, <3>3, <3>5 DEF FramesOf, d
  <2>3. FramesOf(len, frame) = k
    <3>1. FramesOf(len + 0, frame) = k + FramesOf(0, frame) /\ len + 0 = len
      BY <2>2
    <3> HIDE DEF k
    <3> QED
      BY <2>1, <3>1, <1>4
  <2>4. len > 0 => k > 0
    BY <2>1, <1>2
  <2> QED
    BY <2>2, <2>3, <2>4
<1> QED
  BY <1>3, <1>4, <1>5, <1>6

LEMMA NoSamples ==
  SumAll(Durations(<<>>)) = 0
<1>1. Durations(<<>>) = <<>> /\ <<>> \in Seq(Nat) /\ Len(<<>>) = 0
  BY DEF Durations
<1> QED
  BY <1>1, Sums DEF SumAll

\* The pieces of PCM data: one behind the other, of as many frames as the data.
LEMMA PcmPiecesFit ==
  ASSUME NEW from \in Nat, NEW to \in Nat, from <= to, NEW frame \in Nat \ {0}, NEW rate \in Nat
  PROVE  LET samples == PcmChunks(from, to, frame, rate)
         IN  /\ Tile(samples, from, to)
             /\ SumAll(Durations(samples)) = FramesOf(to - from, frame)
             /\ from = to => samples = <<>>
<1>1. PICK cut : PcmCut(cut, to, frame, rate)
  BY PcmScan, Zenon
<1> DEFINE Fits(o) == Tile(cut[o], o, to) /\ SumAll(Durations(cut[o])) = FramesOf(to - o, frame)
           T == {o \in Nat : o <= to => Fits(o)}
<1> HIDE DEF Fits
<1>2. ASSUME NEW o \in Nat, o >= to
      PROVE  o \in T
  <2> SUFFICES ASSUME o = to
               PROVE  Fits(o)
    BY <1>2
  <2>1. cut[o] = <<>>
    BY <1>1, <1>2 DEF PcmCut
  <2>2. to - o = 0 /\ FramesOf(0, frame) = 0
    BY FramesAddUp, 0 \in Nat
  <2>3. Tile(<<>>, o, to)
    BY DEF Tile
  <2> QED
    BY <2>1, <2>2, <2>3, NoSamples DEF Fits
<1>3. ASSUME NEW o \in Nat, \A q \in Nat : q > o => q \in T
      PROVE  o \in T
  <2>1. CASE o >= to
    BY <2>1, <1>2
  <2>2. CASE o < to
    <3>1. PICK end \in (o + 1)..to :
             /\ cut[o] = <<Sample(o, end, Greatest((end - o) \div frame, 1), 0)>> \o cut[end]
             /\ (end - o) % frame = 0 \/ (end = to /\ end - o < frame)
      BY <2>2, <1>1 DEF PcmCut
    <3> DEFINE d == Greatest((end - o) \div frame, 1)
               x == Sample(o, end, d, 0)
               len == end - o
    <3>2. end \in Nat /\ end > o /\ len \in Nat /\ len > 0 /\ to - end \in Nat /\ to - o = len + (to - end)
      BY <2>2, <3>1
    <3>3. cut[end] \in Seq(Samples)
      BY <3>2, <1>1 DEF PcmCut
    <3>4. Fits(end)
      BY <3>1, <3>2, <1>3
    <3>5. d \in Nat /\ FramesOf(to - o, frame) = d + FramesOf(to - end, frame)
      <4> HIDE DEF len
      <4>1. CASE len % frame = 0
        <5>1. /\ len \div frame > 0 /\ len \div frame \in Nat
              /\ FramesOf(len + (to - end), frame) = len \div frame + FramesOf(to - end, frame)
          BY <3>2, <4>1, FramesAddUp, Quotient
        <5>2. d = len \div frame
          BY <5>1 DEF Greatest, len
        <5> QED
          BY <5>1, <5>2, <3>2
      <4>2. CASE ~(len % frame = 0)
        <5>1. end = to /\ len < frame
          BY <4>2, <3>1 DEF len
        <5>2. FramesOf(len, frame) = 1 /\ len \div frame = 0 /\ FramesOf(0, frame) = 0
          <6>1. len \in 1..(frame - 1)
            BY <3>2, <5>1
          <6> QED
            BY <3>2, <6>1, FramesAddUp
        <5>3. d = 1
          BY <5>2 DEF Greatest, len
        <5>4. to - o = len /\ to - end = 0
          BY <5>1, <3>2
        <5> QED
          BY <5>2, <5>3, <5>4
      <4> QED
        BY <4>1, <4>2
    <3> HIDE DEF d
    <3>6. x \in Samples /\ x.from = o /\ x.to = end /\ x.dur = d
      BY <3>2, <3>5 DEF Sample, Samples
    <3>7. cut[o] = <<x>> \o cut[end]
      BY <3>1 DEF d
    <3> HIDE DEF x
    <3>8. Tile(<<x>> \o cut[end], o, to)
      <4>1. Tile(cut[end], x.to, to)
        BY <3>4, <3>6 DEF Fits
      <4> QED
        BY <4>1, <3>3, <3>6, TilePrepended
    <3>9. SumAll(Durations(<<x>> \o cut[end])) = d + SumAll(Durations(cut[end]))
      BY <3>3, <3>6, DurationsPrepended
    <3>10. Fits(o)
      BY <3>4, <3>5, <3>7, <3>8, <3>9 DEF Fits
    <3> QED
      BY <3>10
  <2> QED
    BY <2>1, <2>2
<1> HIDE DEF T
<1>4. Nat \subseteq T
  <2>1. \A o \in Nat : o >= to => o \in T
    BY <1>2
  <2> QED
    BY <1>3, <2>1, DownwardInduction
<1>5. Fits(from)
  BY <1>4 DEF T
<1>6. PcmChunks(from, to, frame, rate) = cut[from] /\ (from = to => cut[from] = <<>>)
  BY <1>1 DEF PcmCut
<1> QED
  BY <1>5, <1>6 DEF Fits

LEMMA Scaled ==
  ASSUME NEW a \in Nat, NEW b \in Nat, NEW f \in Nat \ {0}
  PROVE  f * a \in Nat /\ f * b \in Nat /\ (a <= b <=> f * a <= f * b)
<1>1. f * a \in Nat /\ f * b \in Nat
  BY SMTT(20)
<1>2. a <= b => f * a <= f * b
  BY SMTT(20)
<1>3. ASSUME b < a
      PROVE  f * b < f * a
  <2>1. PICK d \in Nat : a = b + 1 + d
    BY <1>3
  <2>2. f * a = f * b + f + f * d /\ f * d \in Nat
    BY <2>1, SMTT(20)
  <2> DEFINE x == f * a
             y == f * b
             z == f * d
  <2>3. x = y + f + z /\ z \in Nat /\ y \in Nat
    BY <1>1, <2>2
  <2> HIDE DEF x, y, z
  <2>4. y < x
    BY <2>3
  <2> QED
    BY <2>4 DEF x, y
<1> DEFINE x == f * a
           y == f * b
<1>4. x \in Nat /\ y \in Nat /\ (a <= b => x <= y) /\ (b < a => y < x)
  BY <1>1, <1>2, <1>3
<1> HIDE DEF x, y
<1>5. a <= b <=> x <= y
  BY <1>4
<1> QED
  BY <1>1, <1>5 DEF x, y

\* The packets of PCM data that is encoded: likewise.
LEMMA AlacPiecesFit ==
  ASSUME NEW from \in Nat, NEW len \in Nat, NEW frame \in Nat \ {0}, len % frame = 0
  PROVE  LET samples == AlacPackets(from, from + len, frame)
         IN  /\ Tile(samples, from, from + len)
             /\ SumAll(Durations(samples)) = FramesOf(len, frame)
             /\ len = 0 => samples = <<>>
<1> DEFINE to == from + len
           P == PacketFrames
           size == P * frame
           n == (to - from + size - 1) \div size
           start(i) == from + (i - 1) * size
           end(i) == Least(start(i) + size, to)
           r == [i \in 1..n |-> Sample(start(i), end(i), (end(i) - start(i)) \div frame, 0)]
           k == len \div frame
<1>1. AlacPackets(from, from + len, frame) = r
  BY DEF AlacPackets
<1>2. size \in Nat \ {0} /\ P \in Nat \ {0}
  <2>1. P \in Nat \ {0}
    BY RemuxConstants
  <2> HIDE DEF P
  <2> QED
    BY <2>1, SMTT(20)
<1>3. k \in Nat /\ len = frame * k
  <2>1. len \div frame \in Nat /\ len = frame * (len \div frame) + (len % frame)
    BY Quotient
  <2> DEFINE p == frame * (len \div frame)
  <2>2. p \in Nat
    BY <2>1, SMTT(20)
  <2>3. len = p + (len % frame)
    BY <2>1
  <2> HIDE DEF p
  <2>4. len = p
    BY <2>2, <2>3
  <2> QED
    BY <2>1, <2>4 DEF p
<1> HIDE DEF k, P
           \* the packets before the i-th have as many frames as they can
<1> DEFINE m(i) == Least(i * P, k)
<1>4. ASSUME NEW i \in Nat
      PROVE  i * P \in Nat /\ i * size = frame * (i * P)
  BY <1>2, SMTT(20)
<1>5. n \in Nat /\ n * P >= k /\ (n # 0 => (n - 1) * P < k)
  <2> DEFINE a == len + size - 1
  <2>0. to - from + size - 1 = a /\ a \in Nat
    BY <1>2
  <2>1. a \div size \in Nat /\ a = size * (a \div size) + (a % size) /\ a % size \in 0..(size - 1)
    <3> HIDE DEF a, size
    <3> QED
      BY <2>0, <1>2, Quotient, Remainder
  <2>2. n \in Nat /\ n * size >= len /\ n * size <= a
    <3> DEFINE q == size * (a \div size)
               e == a % size
    <3>1. n = a \div size
      BY <2>0
    <3>2. n * size = q
      <4> HIDE DEF a, size, n
      <4> QED
        BY <1>2, <2>1, <3>1
    <3>3. q \in Int /\ e \in 0..(size - 1) /\ a = q + e
      <4> HIDE DEF a, size
      <4>1. size * (a \div size) \in Int
        BY <1>2, <2>1, SMTT(20)
      <4> QED
        BY <2>1, <4>1
    <3> HIDE DEF q, e, n
    <3>4. q >= len /\ q <= a
      <4> HIDE DEF size
      <4> QED
        BY <3>3, <1>2
    <3> QED
      BY <2>1, <3>1, <3>2, <3>4
  <2> HIDE DEF n
  <2>3. n * P \in Nat /\ n * size = frame * (n * P)
    BY <2>2, <1>4
  <2>4. n * P >= k
    <3>1. frame * k <= frame * (n * P)
      BY <2>2, <2>3, <1>3
    <3> QED
      BY <2>3, <3>1, <1>3, Scaled
  <2>5. ASSUME n # 0
        PROVE  (n - 1) * P < k
    <3> DEFINE x == (n - 1) * P
    <3>1. n - 1 \in Nat
      BY <2>2, <2>5
    <3>2. x \in Nat /\ (n - 1) * size = frame * x
      BY <3>1, <1>4
    <3>3. (n - 1) * size < len
      <4>1. (n - 1) * size = n * size - size
        <5> HIDE DEF size
        <5> QED
          BY <1>2, <2>2
      <4> DEFINE z == n * size
      <4>2. z \in Nat /\ z <= a
        BY <2>2, <2>3, <1>2, ProductGrows
      <4> HIDE DEF z, size
      <4> QED
        BY <4>1, <4>2, <1>2 DEF z
    <3> HIDE DEF x
    <3>4. ~(frame * k <= frame * x) /\ frame * k \in Nat
      <4>1. frame * k = len /\ len \in Nat /\ frame * x \in Nat
        BY <1>3, <3>2, Scaled
      <4> QED
        BY <3>2, <3>3, <4>1
    <3>5. ~(k <= x)
      BY <3>2, <3>4, <1>3, Scaled
    <3>6. x < k
      BY <3>2, <3>5, <1>3
    <3> QED
      BY <3>6 DEF x
  <2>6. n \in Nat
    BY <2>2
  <2> HIDE DEF a, size
  <2> QED
    BY <2>4, <2>5, <2>6, Zenon
<1> HIDE DEF n
<1>6. ASSUME NEW i \in 1..n
      PROVE  /\ i - 1 \in Nat /\ (i - 1) * P \in Nat /\ (i - 1) * P < k /\ i * P = (i - 1) * P + P
             /\ start(i) = from + frame * ((i - 1) * P)
             /\ end(i) = from + frame * m(i) /\ m(i) \in Nat /\ m(i) >= (i - 1) * P
  <2> DEFINE x == (i - 1) * P
             y == i * P
  <2>1. i \in Nat /\ i - 1 \in Nat /\ n - 1 \in Nat /\ i - 1 <= n - 1 /\ n # 0
    BY <1>5
  <2>2. x \in Nat /\ y \in Nat /\ (i - 1) * size = frame * x /\ i * size = frame * y
    BY <2>1, <1>4
  <2>3. x <= (n - 1) * P /\ (n - 1) * P \in Nat
    BY <2>1, <1>2, ProductGrows
  <2>4. y = x + P /\ i * size = (i - 1) * size + size
    <3> HIDE DEF size
    <3> QED
      BY <2>1, <1>2
  <2>5. x < k
    BY <2>1, <2>2, <2>3, <1>3, <1>5
  <2>6. start(i) = from + frame * x
    BY <2>2
  <2>7. start(i) + size = from + frame * y
    <3> DEFINE u == frame * x
               v == frame * y
    <3>1. u \in Nat /\ v \in Nat /\ v = u + size /\ start(i) = from + u
      BY <2>2, <2>4, <2>6, Scaled, <1>2
    <3> HIDE DEF u, v, start, size
    <3>2. start(i) + size = from + v
      BY <3>1, <1>2
    <3> QED
      BY <3>2 DEF v
  <2>8. end(i) = from + frame * m(i)
    <3> HIDE DEF start, size, y
    <3>1. frame * y \in Nat /\ frame * k \in Nat /\ (y <= k <=> frame * y <= frame * k)
      BY <2>2, <1>3, Scaled
    <3> DEFINE v == frame * y
               w == frame * k
    <3>2. to = from + w /\ v \in Nat /\ w \in Nat /\ (y <= k <=> v <= w) /\ start(i) + size = from + v
      BY <2>7, <3>1, <1>3
    <3>3. end(i) = Least(from + v, from + w) /\ m(i) = Least(y, k)
      BY <3>2 DEF y
    <3>4. Least(from + v, from + w) = from + (IF y < k THEN v ELSE w)
      <4>1. y \in Nat /\ k \in Nat /\ v \in Nat /\ w \in Nat /\ (k <= y <=> w <= v)
        <5>1. k <= y <=> w <= v
          BY <2>2, <1>3, Scaled
        <5>2. y \in Nat /\ k \in Nat
          BY <2>2, <1>3
        <5> HIDE DEF v, w, y
        <5> QED
          BY <3>2, <5>1, <5>2
      <4> HIDE DEF v, w, y
      <4>2. CASE y < k
        <5>1. from + v < from + w
          BY <4>1, <4>2
        <5> QED
          BY <4>2, <5>1 DEF Least
      <4>3. CASE ~(y < k)
        <5>1. ~(from + v < from + w)
          BY <4>1, <4>3
        <5> QED
          BY <4>3, <5>1 DEF Least
      <4> QED
        BY <4>2, <4>3
    <3>5. frame * Least(y, k) = IF y < k THEN v ELSE w
      BY DEF Least
    <3> HIDE DEF end, m, v, w
    <3> QED
      BY <3>3, <3>4, <3>5
  <2>9. m(i) \in Nat /\ m(i) >= x
    <3>1. y \in Nat /\ y >= x
      BY <2>2, <2>4, <1>2
    <3>2. m(i) = Least(y, k)
      OBVIOUS
    <3> HIDE DEF x, y, m
    <3> QED
      BY <2>2, <2>5, <3>1, <3>2, <1>3 DEF Least
  <2> HIDE DEF start, end, m, size
  <2> QED
    BY <2>1, <2>2, <2>4, <2>5, <2>6, <2>8, <2>9, Zenon
<1>7. ASSUME NEW i \in 1..n
      PROVE  /\ r[i] \in Samples /\ r[i].from = start(i) /\ r[i].to = end(i)
             /\ r[i].dur \in Nat /\ m(i) = (i - 1) * P + r[i].dur
  <2> DEFINE x == (i - 1) * P
             d == (end(i) - start(i)) \div frame
  <2>1. /\ x \in Nat /\ start(i) = from + frame * x
        /\ end(i) = from + frame * m(i) /\ m(i) \in Nat /\ m(i) >= x
    BY <1>6
  <2> HIDE DEF start, end, m, x
  <2>2. PICK e \in Nat : m(i) = x + e
    <3>1. m(i) \in Nat /\ x \in Nat /\ m(i) >= x
      BY <2>1
    <3>2. m(i) - x \in Nat /\ m(i) = x + (m(i) - x)
      BY <3>1
    <3> QED
      BY <3>2, Zenon
  <2>3. frame * m(i) = frame * x + frame * e /\ frame * x \in Nat /\ frame * e \in Nat
    BY <2>1, <2>2, SMTT(20)
  <2>4. end(i) - start(i) = frame * e + 0 /\ end(i) \in Nat /\ start(i) \in Nat
    <3> DEFINE u == frame * x
               v == frame * e
               w == frame * m(i)
    <3>1. /\ w = u + v /\ u \in Nat /\ v \in Nat
          /\ start(i) = from + u /\ end(i) = from + w
      BY <2>1, <2>3
    <3> HIDE DEF u, v, w
    <3>2. end(i) - start(i) = v + 0 /\ end(i) \in Nat /\ start(i) \in Nat
      BY <3>1
    <3> QED
      BY <3>2 DEF v
  <2>5. d = e
    BY <2>4, QuotientIs
  <2>6. r[i] = Sample(start(i), end(i), d, 0)
    OBVIOUS
  <2> HIDE DEF d, r
  <2>7. /\ r[i] \in Samples /\ r[i].from = start(i) /\ r[i].to = end(i) /\ r[i].dur = e
    BY <2>2, <2>4, <2>5, <2>6 DEF Sample, Samples
  <2> QED
    BY <2>2, <2>7 DEF x
<1>8. r \in Seq(Samples) /\ Len(r) = n
  <2>1. r = [i \in 1..n |-> r[i]]
    OBVIOUS
  <2> HIDE DEF r
  <2>2. r \in [1..n -> Samples]
    BY <2>1, <1>7
  <2> QED
    BY <2>2, <1>5
<1> HIDE DEF r, start, end
<1>9. ASSUME NEW i \in 1..n
      PROVE  i < n => m(i) = i * P
  <2> SUFFICES ASSUME i < n
               PROVE  m(i) = i * P
    OBVIOUS
  <2>1. i + 1 \in 1..n /\ (i + 1) - 1 = i
    BY <1>5
  <2>2. i * P < k /\ i * P \in Nat
    BY <2>1, <1>6
  <2> QED
    BY <2>2, <1>3 DEF Least
<1>10. n # 0 => m(n) = k
  BY <1>3, <1>4, <1>5 DEF Least
<1>11. n = 0 => k = 0
  <2>1. 0 * P = 0
    BY <1>2
  <2> QED
    BY <2>1, <1>3, <1>5
<1>12. SumAll(Durations(r)) = k
  <2> DEFINE S(i) == SumTo(Durations(r), i)
             U == {i \in 0..n : S(i) = IF i = 0 THEN 0 ELSE m(i)}
  <2>1. S(0) = 0 /\ \A i \in 1..n : S(i) = S(i - 1) + r[i].dur
    BY <1>8, DurationSums
  <2> HIDE DEF S
  <2>2. 0 \in U
    BY <1>5, <2>1
  <2>3. ASSUME NEW i \in 1..n, i - 1 \in U
        PROVE  i \in U
    <3>1. S(i) = S(i - 1) + r[i].dur /\ m(i) = (i - 1) * P + r[i].dur
      BY <2>1, <1>7
    <3>2. S(i - 1) = (i - 1) * P
      <4>1. CASE i = 1
        <5>1. (i - 1) * P = 0 /\ S(i - 1) = 0
          BY <4>1, <2>1, <1>2
        <5> QED
          BY <5>1
      <4>2. CASE i # 1
        <5>1. i - 1 \in 1..n /\ i - 1 < n /\ i - 1 # 0
          BY <4>2, <1>5
        <5>2. m(i - 1) = (i - 1) * P
          BY <5>1, <1>9
        <5>3. S(i - 1) = m(i - 1)
          BY <2>3, <5>1
        <5> QED
          BY <5>2, <5>3
      <4> QED
        BY <4>1, <4>2
    <3>3. S(i) = m(i) /\ i # 0 /\ i \in 0..n
      <4>1. i # 0 /\ i \in 0..n
        BY <1>5
      <4> HIDE DEF m, U
      <4> QED
        BY <3>1, <3>2, <4>1, Zenon
    <3> HIDE DEF m
    <3> QED
      BY <3>3
  <2> HIDE DEF U
  <2>4. 0..n \subseteq U
    BY <1>5, <2>2, <2>3, UpToInduction
  <2>5. S(n) = IF n = 0 THEN 0 ELSE m(n)
    BY <1>5, <2>4 DEF U
  <2>6. S(n) = k
    <3> HIDE DEF m
    <3> QED
      BY <2>5, <1>10, <1>11
  <2>7. Len(Durations(r)) = n
    BY <1>5, <1>8 DEF Durations
  <2> QED
    BY <2>6, <2>7 DEF SumAll, S
<1>13. Tile(r, from, to)
  <2>1. CASE n = 0
    <3>1. from = to
      <4>1. frame * 0 = 0
        OBVIOUS
      <4> QED
        BY <2>1, <1>3, <1>11, <4>1
    <3> QED
      BY <2>1, <3>1, <1>8 DEF Tile
  <2>2. CASE n # 0
    <3>1. 1 \in 1..n /\ n \in 1..n
      BY <2>2, <1>5
    <3>2. r[1].from = from
      <4>1. (1 - 1) * P = 0 /\ frame * 0 = 0
        BY <1>2
      <4>2. r[1].from = from + frame * ((1 - 1) * P)
        BY <3>1, <1>6, <1>7
      <4> QED
        BY <4>1, <4>2
    <3>3. r[n].to = to
      <4>1. r[n].to = from + frame * m(n) /\ m(n) = k
        BY <2>2, <3>1, <1>6, <1>7, <1>10
      <4> HIDE DEF m
      <4> QED
        BY <4>1, <1>3
    <3>4. ASSUME NEW i \in 1..(n - 1)
          PROVE  r[i].to = r[i + 1].from
      <4>1. i \in 1..n /\ i < n /\ i + 1 \in 1..n /\ (i + 1) - 1 = i
        BY <1>5
      <4>2. r[i].to = from + frame * m(i) /\ m(i) = i * P
        BY <4>1, <1>6, <1>7, <1>9
      <4>3. r[i + 1].from = from + frame * (((i + 1) - 1) * P)
        BY <4>1, <1>6, <1>7
      <4> HIDE DEF m
      <4> QED
        BY <4>1, <4>2, <4>3
    <3> QED
      BY <2>2, <3>2, <3>3, <3>4, <1>8, Zenon DEF Tile
  <2> QED
    BY <2>1, <2>2
<1>14. len = 0 => r = <<>>
  <2> SUFFICES ASSUME len = 0
               PROVE  r = <<>>
    OBVIOUS
  <2>1. k = 0
    <3>1. ~(1 <= k)
      <4>1. frame * 1 = frame /\ (1 <= k <=> frame * 1 <= frame * k)
        BY <1>3, Scaled
      <4> QED
        BY <4>1, <1>3
    <3> QED
      BY <3>1, <1>3
  <2>2. n = 0
    <3>1. n # 0 => (n - 1) * P \in Nat
      BY <1>5, <1>4
    <3> QED
      BY <2>1, <3>1, <1>5
  <2> QED
    BY <2>2, <1>8
<1>15. FramesOf(len, frame) = k
  BY FramesAddUp DEF k
<1> QED
  BY <1>1, <1>12, <1>13, <1>14, <1>15, Zenon

\* The data of a WAV or AIFF file that is accepted, and the frames it is cut into.
LEMMA PcmSamples ==
  ASSUME NEW file, IsFile(file), file.format \in {"wav", "aiff"}, Remuxed(file).ok
  PROVE  LET w == WalkChunks(file)
             samples == Remuxed(file).samples
             frame == IF file.highRate THEN file.channels * PcmBytesPerSample(file.depth)
                      ELSE Greatest((file.channels * file.depth) \div 8, 1)
         IN  /\ w.from + w.len <= file.len
             /\ Tile(samples, w.from, w.from + w.len)
             /\ w.len \in Nat /\ frame \in Nat \ {0}
             /\ SumAll(Durations(samples)) = FramesOf(w.len, frame)
<1> DEFINE w == WalkChunks(file)
           lpcm == Greatest((file.channels * file.depth) \div 8, 1)
           alac == file.channels * PcmBytesPerSample(file.depth)
<1>0. Remuxed(file) = RemuxPcm(file)
  BY DEF Remuxed
<1>1. w \in WalkedType /\ (w.len > 0 => w.from + w.len <= file.len)
  BY WalkedChunks
<1>2. RemuxPcm(file) =
        IF w.from = -1 \/ ~w.fmt THEN RemuxError
        ELSE IF ~file.highRate THEN Track(PcmChunks(w.from, w.from + w.len, lpcm, file.rate))
        ELSE IF alac = 0 \/ w.len % Greatest(alac, 1) # 0 THEN RemuxError
        ELSE Track(AlacPackets(w.from, w.from + w.len, alac))
  BY DEF RemuxPcm
<1>3. ~RemuxError.ok
  BY DEF RemuxError
<1>4. /\ file.channels \in Nat /\ file.depth \in Nat /\ file.rate \in Nat
  BY DEF IsFile
<1>5. lpcm \in Nat \ {0}
  <2>1. (file.channels * file.depth) \div 8 \in Nat
    BY <1>4, ProductGrows, Quotient
  <2> QED
    BY <2>1 DEF Greatest
<1>6. alac \in Nat
  <2>1. PcmBytesPerSample(file.depth) \in Nat
    BY DEF PcmBytesPerSample
  <2> QED
    BY <1>4, <2>1, ProductGrows
<1> HIDE DEF w, lpcm, alac
<1>7. w.from \in Nat /\ w.len \in Nat /\ w.from + w.len \in Nat
  <2>1. w.from # -1
    BY <1>0, <1>2, <1>3, Zenon
  <2> QED
    BY <1>1, <2>1 DEF WalkedType
<1>8. \A frame, samples :
         Tile(samples, w.from, w.from + w.len) /\ (w.len = 0 => samples = <<>>)
           /\ Remuxed(file) = Track(samples)
         => w.from + w.len <= file.len /\ samples = Remuxed(file).samples
  <2> SUFFICES ASSUME NEW samples, w.len = 0 => samples = <<>>, Remuxed(file) = Track(samples)
               PROVE  w.from + w.len <= file.len /\ samples = Remuxed(file).samples
    OBVIOUS
  <2>1. samples # <<>> /\ samples = Remuxed(file).samples
    BY Accepted, Zenon
  <2>2. w.len > 0
    BY <2>1, <1>7
  <2> QED
    BY <2>1, <2>2, <1>1
<1>9. CASE ~file.highRate
  <2> DEFINE samples == PcmChunks(w.from, w.from + w.len, lpcm, file.rate)
  <2>1. Remuxed(file) = Track(samples)
    BY <1>0, <1>2, <1>3, <1>9, Zenon
  <2>2. /\ Tile(samples, w.from, w.from + w.len)
        /\ SumAll(Durations(samples)) = FramesOf((w.from + w.len) - w.from, lpcm)
        /\ w.from = w.from + w.len => samples = <<>>
    BY <1>4, <1>5, <1>7, PcmPiecesFit
  <2>3. (w.from + w.len) - w.from = w.len /\ (w.len = 0 => w.from = w.from + w.len)
    BY <1>7
  <2> HIDE DEF samples
  <2>4. w.from + w.len <= file.len /\ samples = Remuxed(file).samples
    BY <2>1, <2>2, <2>3, <1>8
  <2> QED
    BY <1>5, <1>7, <1>9, <2>2, <2>3, <2>4 DEF w, lpcm
<1>10. CASE file.highRate
  <2> DEFINE samples == AlacPackets(w.from, w.from + w.len, alac)
  <2>1. Remuxed(file) = Track(samples) /\ alac # 0 /\ ~(w.len % Greatest(alac, 1) # 0)
    BY <1>0, <1>2, <1>3, <1>10, Zenon
  <2>2. alac \in Nat \ {0} /\ w.len % alac = 0
    BY <2>1, <1>6 DEF Greatest
  <2>3. /\ Tile(samples, w.from, w.from + w.len)
        /\ SumAll(Durations(samples)) = FramesOf(w.len, alac)
        /\ w.len = 0 => samples = <<>>
    BY <1>7, <2>2, AlacPiecesFit
  <2> HIDE DEF samples
  <2>4. w.from + w.len <= file.len /\ samples = Remuxed(file).samples
    BY <2>1, <2>3, <1>8
  <2> QED
    BY <1>7, <1>10, <2>2, <2>3, <2>4 DEF w, alac
<1> QED
  BY <1>9, <1>10

\* WAV and AIFF: the samples are all of the data, in the file.
LEMMA PcmKept ==
  ASSUME NEW file, IsFile(file), file.format \in {"wav", "aiff"}, Remuxed(file).ok
  PROVE  AudioIsKept(file)
<1> DEFINE w == WalkChunks(file)
<1>1. w.from + w.len <= file.len /\ Tile(Remuxed(file).samples, w.from, w.from + w.len)
  BY PcmSamples
<1> HIDE DEF w
<1>2. \E v \in {w} : v.from + v.len <= file.len /\ Tile(Remuxed(file).samples, v.from, v.from + v.len)
  BY <1>1
<1>3. file.format # "flac" /\ file.format # "mp3" /\ file.format # "adts"
  OBVIOUS
<1> QED
  BY <1>2, <1>3 DEF AudioIsKept, Keeps, w

\* The samples of a PCM file are whole bytes: as packed, or as the ALAC encoder reads them.
WholeBytes(file) ==
    file.format \in {"wav", "aiff"} /\ ~file.highRate =>
       file.channels > 0 /\ \E k \in Nat \ {0} : file.depth = 8 * k

\* The durations of PCM data are its frames.
LEMMA PcmDurations ==
  ASSUME NEW file, IsFile(file), file.format \in {"wav", "aiff"}, Remuxed(file).ok, WholeBytes(file)
  PROVE  DurationsFit(file)
<1> DEFINE bytes == file.channels * ((file.depth + 7) \div 8)
           frame == IF file.highRate THEN file.channels * PcmBytesPerSample(file.depth)
                    ELSE Greatest((file.channels * file.depth) \div 8, 1)
           len == WalkChunks(file).len
           samples == Remuxed(file).samples
<1>1. frame \in Nat \ {0} /\ SumAll(Durations(samples)) = FramesOf(len, frame)
  BY PcmSamples
<1>2. file.channels \in Nat /\ file.depth \in Nat
  BY DEF IsFile
<1>3. frame = bytes
  <2>1. CASE file.highRate
    <3>1. file.depth \in {16, 20, 24, 32}
      <4>1. file.depth \notin {16, 20, 24, 32} => PcmBytesPerSample(file.depth) = 0
        BY DEF PcmBytesPerSample
      <4>2. file.channels * 0 = 0
        BY <1>2
      <4> QED
        BY <1>1, <2>1, <4>1, <4>2
    <3>2. PcmBytesPerSample(file.depth) = (file.depth + 7) \div 8
      BY <3>1 DEF PcmBytesPerSample
    <3> QED
      BY <2>1, <3>2
  <2>2. CASE ~file.highRate
    <3>1. PICK k \in Nat \ {0} : file.depth = 8 * k /\ file.channels > 0
      BY <2>2 DEF WholeBytes
    <3>2. (file.depth + 7) \div 8 = k
      BY <3>1
    <3> DEFINE c == file.channels
               p == c * k
    <3>3. p \in Nat \ {0} /\ c * (8 * k) = 8 * p
      BY <1>2, <3>1, SMTT(20)
    <3>4. (c * file.depth) \div 8 = p
      <4>1. c * file.depth = 8 * p
        BY <3>1, <3>3
      <4> HIDE DEF p
      <4>2. (8 * p) \div 8 = p
        BY <3>3
      <4> QED
        BY <4>1, <4>2
    <3>5. Greatest(p, 1) = p
      <4> HIDE DEF p
      <4> QED
        BY <3>3 DEF Greatest
    <3>6. bytes = p
      BY <3>2
    <3>7. frame = Greatest((c * file.depth) \div 8, 1)
      BY <2>2
    <3> HIDE DEF p, c, bytes, frame
    <3> QED
      BY <3>4, <3>5, <3>6, <3>7
  <2> QED
    BY <2>1, <2>2
<1> HIDE DEF frame, bytes, len, samples
<1>4. SumAll(Durations(samples)) = (len + bytes - 1) \div bytes
  BY <1>1, <1>3 DEF FramesOf
<1>5. file.format # "flac"
  OBVIOUS
<1> QED
  BY <1>4, <1>5 DEF DurationsFit, AddUp, bytes, len, samples

-----------------------------------------------------------------------------
(* The samples hold all of the audio: Opus and MP4                        *)

\* The places of the numbers of a set.
LEMMA Places ==
  ASSUME NEW n \in Nat, NEW set \in SUBSET (1..n)
  PROVE  /\ Place(set, 0) = 0 /\ Place(set, n) = Cardinality(set)
         /\ \A i \in 0..n : Place(set, i) \in Nat
         /\ \A i \in 1..n : Place(set, i) = IF i \in set THEN Place(set, i - 1) + 1 ELSE Place(set, i - 1)
<1> DEFINE upTo(i) == {j \in set : j <= i}
<1>1. IsFiniteSet(set)
  <2>1. IsFiniteSet(1..n)
    BY FS_Interval
  <2>2. set \subseteq 1..n
    OBVIOUS
  <2> QED
    BY <2>1, <2>2, FS_Subset, Zenon
<1>2. \A i : IsFiniteSet(upTo(i)) /\ Cardinality(upTo(i)) \in Nat
  <2> TAKE i
  <2>1. upTo(i) \subseteq set
    OBVIOUS
  <2>2. IsFiniteSet(upTo(i))
    BY <1>1, <2>1, FS_Subset, Zenon
  <2> QED
    BY <2>2, FS_CardinalityType, Zenon
<1>n. \A j \in set : j \in Nat /\ 1 <= j /\ j <= n
  OBVIOUS
<1>3. upTo(0) = {} /\ upTo(n) = set
  <2>1. \A j \in set : ~(j <= 0) /\ j <= n
    BY <1>n
  <2> QED
    BY <2>1, Zenon
<1>4. ASSUME NEW i \in 1..n
      PROVE  Cardinality(upTo(i)) = IF i \in set THEN Cardinality(upTo(i - 1)) + 1 ELSE Cardinality(upTo(i - 1))
  <2>0. /\ \A j \in set : j <= i <=> j <= i - 1 \/ j = i
        /\ ~(i <= i - 1) /\ i <= i
    BY <1>n
  <2>1. CASE i \in set
    <3>1. upTo(i) = upTo(i - 1) \cup {i} /\ i \notin upTo(i - 1)
      BY <2>1, <2>0, Zenon
    <3> HIDE DEF upTo
    <3> QED
      BY <2>1, <3>1, <1>2, FS_AddElement
  <2>2. CASE i \notin set
    <3>1. upTo(i) = upTo(i - 1)
      BY <2>2, <2>0, Zenon
    <3> HIDE DEF upTo
    <3> QED
      BY <2>2, <3>1
  <2> QED
    BY <2>1, <2>2
<1>5. Cardinality({}) = 0
  BY FS_EmptySet
<1> QED
  BY <1>2, <1>3, <1>4, <1>5 DEF Place

LEMMA PlacesGrow ==
  ASSUME NEW n \in Nat, NEW set \in SUBSET (1..n), NEW i \in 0..n, NEW j \in 0..n
  PROVE  /\ i <= j => Place(set, i) <= Place(set, j)
         /\ i < j /\ j \in set => Place(set, i) < Place(set, j)
<1> DEFINE P(k) == Place(set, k)
<1>1. /\ \A k \in 0..n : P(k) \in Nat
      /\ \A k \in 1..n : P(k) = IF k \in set THEN P(k - 1) + 1 ELSE P(k - 1)
  BY Places
<1> HIDE DEF P
<1> DEFINE U == {k \in 0..n : \A h \in 0..k : P(h) <= P(k)}
<1>2. 0 \in U
  BY <1>1
<1>3. ASSUME NEW k \in 1..n, k - 1 \in U
      PROVE  k \in U
  <2>1. P(k - 1) \in Nat /\ P(k) \in Nat /\ P(k - 1) <= P(k)
    BY <1>1
  <2>2. ASSUME NEW h \in 0..k
        PROVE  P(h) <= P(k)
    <3>1. CASE h = k
      BY <3>1, <2>1
    <3>2. CASE h # k
      <4>1. h \in 0..(k - 1) /\ h \in 0..n
        BY <3>2
      <4> QED
        BY <4>1, <2>1, <1>1, <1>3
    <3> QED
      BY <3>1, <3>2
  <2> QED
    BY <2>2
<1> HIDE DEF U
<1>4. 0..n \subseteq U
  BY <1>2, <1>3, UpToInduction
<1>5. \A k \in 0..n : \A h \in 0..k : P(h) <= P(k)
  BY <1>4 DEF U
<1>6. i <= j => P(i) <= P(j)
  BY <1>5
<1>7. ASSUME i < j, j \in set
      PROVE  P(i) < P(j)
  <2>1. j \in 1..n /\ j - 1 \in 0..n /\ i \in 0..(j - 1)
    BY <1>7
  <2>2. P(j) = P(j - 1) + 1 /\ P(i) <= P(j - 1)
    BY <2>1, <1>1, <1>5, <1>7
  <2>3. P(i) \in Nat /\ P(j - 1) \in Nat
    BY <2>1, <1>1
  <2> QED
    BY <2>2, <2>3
<1> QED
  BY <1>6, <1>7 DEF P

\* The elements of a sequence whose numbers are in a set.
IsFilter(u, s, set, D) ==
    /\ s \in Seq(D) /\ set \in SUBSET (1..Len(s))
    /\ u[0] = <<>>
    /\ \A i \in 0..Len(s) : u[i] \in Seq(D)
    /\ \A i \in 1..Len(s) : u[i] = IF i \in set THEN Append(u[i - 1], s[i]) ELSE u[i - 1]

LEMMA Filtered ==
  ASSUME NEW D, NEW s, NEW set, NEW u, IsFilter(u, s, set, D)
  PROVE  LET t == u[Len(s)]
         IN  /\ t \in Seq(D) /\ Len(t) = Cardinality(set)
             /\ \A j \in set : Place(set, j) \in 1..Len(t) /\ t[Place(set, j)] = s[j]
             /\ \A m \in 1..Len(t) : \E j \in set : m = Place(set, j)
<1> DEFINE n == Len(s)
           P(i) == Place(set, i)
<1>1. /\ s \in Seq(D) /\ set \in SUBSET (1..n) /\ n \in Nat
      /\ u[0] = <<>>
      /\ \A i \in 0..n : u[i] \in Seq(D)
      /\ \A i \in 1..n : u[i] = IF i \in set THEN Append(u[i - 1], s[i]) ELSE u[i - 1]
  BY DEF IsFilter
<1>2. /\ P(0) = 0 /\ P(n) = Cardinality(set)
      /\ \A i \in 0..n : P(i) \in Nat
      /\ \A i \in 1..n : P(i) = IF i \in set THEN P(i - 1) + 1 ELSE P(i - 1)
  BY <1>1, Places
<1> HIDE DEF P, n
<1> DEFINE Right(i) == /\ Len(u[i]) = P(i)
                       /\ \A j \in set : j <= i => P(j) \in 1..Len(u[i]) /\ u[i][P(j)] = s[j]
                       /\ \A m \in 1..Len(u[i]) : \E j \in set : j <= i /\ m = P(j)
           U == {i \in 0..n : Right(i)}
<1>3. Right(0)
  <2>1. Len(u[0]) = 0 /\ 1..0 = {}
    BY <1>1
  <2>2. \A j \in set : ~(j <= 0)
    BY <1>1
  <2> QED
    BY <2>1, <2>2, <1>2
<1>4. ASSUME NEW i \in 1..n, Right(i - 1)
      PROVE  Right(i)
  <2>1. u[i - 1] \in Seq(D) /\ i - 1 \in 0..n /\ P(i - 1) \in Nat /\ s[i] \in D
    BY <1>1, <1>2 DEF n
  <2>2. \A j \in set : j <= i <=> j <= i - 1 \/ j = i
    BY <1>1
  <2>3. CASE i \in set
    <3> DEFINE t == u[i - 1]
               v == Append(t, s[i])
    <3>1. u[i] = v /\ P(i) = P(i - 1) + 1
      BY <2>3, <1>1, <1>2
    <3>2. Len(t) = P(i - 1) /\ Len(v) = P(i) /\ v[P(i)] = s[i] /\ \A m \in 1..Len(t) : v[m] = t[m] /\ m \in 1..Len(v)
      BY <2>1, <3>1, <1>4
    <3>3. \A m \in 1..Len(v) : m = P(i) \/ m \in 1..Len(t)
      BY <2>1, <3>1, <3>2
    <3>4. P(i) \in 1..Len(v)
      BY <2>1, <3>1, <3>2
    <3> HIDE DEF v
    <3>5. ASSUME NEW j \in set, j <= i
          PROVE  P(j) \in 1..Len(v) /\ v[P(j)] = s[j]
      <4>1. CASE j = i
        BY <4>1, <3>2, <3>4
      <4>2. CASE j <= i - 1
        <5>1. P(j) \in 1..Len(t) /\ t[P(j)] = s[j]
          BY <4>2, <1>4
        <5> QED
          BY <5>1, <3>2, Zenon
      <4> QED
        BY <3>5, <4>1, <4>2, <2>2, Zenon
    <3>6. ASSUME NEW m \in 1..Len(v)
          PROVE  \E j \in set : j <= i /\ m = P(j)
      <4>1. CASE m = P(i)
        <5>1. i <= i
          OBVIOUS
        <5> QED
          BY <4>1, <5>1, <2>3, Zenon
      <4>2. CASE m \in 1..Len(t)
        <5>1. \E j \in set : j <= i - 1 /\ m = P(j)
          BY <4>2, <1>4, Zenon
        <5> QED
          BY <5>1, <2>2, Zenon
      <4> QED
        BY <4>1, <4>2, <3>3, Zenon
    <3> QED
      BY <3>1, <3>2, <3>5, <3>6, Zenon
  <2>4. CASE i \notin set
    <3>1. u[i] = u[i - 1] /\ P(i) = P(i - 1)
      BY <2>4, <1>1, <1>2
    <3>2. \A j \in set : j <= i <=> j <= i - 1
      BY <2>2, <2>4, Zenon
    <3> QED
      BY <3>1, <3>2, <1>4, Zenon
  <2> QED
    BY <2>3, <2>4
<1> HIDE DEF Right
<1>5. 0..n \subseteq U
  <2>1. 0 \in U /\ \A i \in 1..n : i - 1 \in U => i \in U
    BY <1>1, <1>3, <1>4 DEF n
  <2> HIDE DEF U
  <2> QED
    BY <2>1, <1>1, UpToInduction
<1>6. Right(n) /\ u[n] \in Seq(D)
  BY <1>1, <1>5
<1>7. \A j \in set : j <= n
  BY <1>1
<1> QED
  BY <1>2, <1>6, <1>7, Zenon DEF Right, P, n

\* The lengths of the elements in a set, up to an element, are those of the elements
\* that a filter has kept.
LEMMA FilteredSums ==
  ASSUME NEW s, NEW set, NEW u, IsFilter(u, s, set, Nat), NEW k \in 0..Len(s)
  PROVE  LET lengths == [i \in DOMAIN s |-> IF i \in set THEN s[i] ELSE 0]
         IN  SumTo(lengths, k) = SumTo(u[Len(s)], Place(set, k))
<1> DEFINE n == Len(s)
           t == u[n]
           P(i) == Place(set, i)
           lengths == [i \in DOMAIN s |-> IF i \in set THEN s[i] ELSE 0]
<1>1. s \in Seq(Nat) /\ set \in SUBSET (1..n) /\ n \in Nat /\ DOMAIN s = 1..n
  BY DEF IsFilter
<1>2. /\ t \in Seq(Nat) /\ Len(t) = Cardinality(set)
      /\ \A j \in set : P(j) \in 1..Len(t) /\ t[P(j)] = s[j]
  BY Filtered
<1>3. /\ P(0) = 0 /\ P(n) = Len(t)
      /\ \A i \in 0..n : P(i) \in Nat
      /\ \A i \in 1..n : P(i) = IF i \in set THEN P(i - 1) + 1 ELSE P(i - 1)
  BY <1>1, <1>2, Places
<1>4. \A i \in 0..n : P(i) <= Len(t)
  <2> TAKE i \in 0..n
  <2>1. n \in 0..n /\ i <= n
    BY <1>1
  <2> QED
    BY <2>1, <1>1, <1>3, PlacesGrow
<1>5. /\ lengths \in Seq(Nat) /\ Len(lengths) = n
      /\ \A i \in 1..n : lengths[i] = IF i \in set THEN s[i] ELSE 0
  BY <1>1
<1>6. /\ SumTo(lengths, 0) = 0 /\ SumTo(t, 0) = 0
      /\ \A i \in 1..n : SumTo(lengths, i) = SumTo(lengths, i - 1) + lengths[i]
      /\ \A i \in 0..n : SumTo(lengths, i) \in Nat
  BY <1>2, <1>5, Sums
<1>7. \A i \in 1..Len(t) : SumTo(t, i) = SumTo(t, i - 1) + t[i]
  BY <1>2, Sums
<1> HIDE DEF n, t, P, lengths
<1> DEFINE U == {i \in 0..n : SumTo(lengths, i) = SumTo(t, P(i))}
<1>8. 0 \in U
  BY <1>1, <1>3, <1>6
<1>9. ASSUME NEW i \in 1..n, i - 1 \in U
      PROVE  i \in U
  <2>0. i \in 0..n /\ i - 1 \in 0..n /\ SumTo(lengths, i - 1) \in Nat
    BY <1>1, <1>6
  <2>1. SumTo(lengths, i) = SumTo(lengths, i - 1) + lengths[i] /\ SumTo(lengths, i - 1) = SumTo(t, P(i - 1))
    BY <1>6, <1>9
  <2>2. CASE i \in set
    <3>1. P(i) = P(i - 1) + 1 /\ P(i) \in 1..Len(t) /\ t[P(i)] = s[i] /\ P(i - 1) \in Nat
      BY <2>0, <2>2, <1>2, <1>3
    <3>2. SumTo(t, P(i)) = SumTo(t, P(i) - 1) + t[P(i)] /\ P(i) - 1 = P(i - 1)
      BY <3>1, <1>7
    <3>3. lengths[i] = s[i]
      BY <2>2, <1>5
    <3> QED
      BY <2>0, <2>1, <3>1, <3>2, <3>3
  <2>3. CASE i \notin set
    <3>1. P(i) = P(i - 1) /\ lengths[i] = 0
      BY <2>3, <1>3, <1>5
    <3> QED
      BY <2>0, <2>1, <3>1
  <2> QED
    BY <2>2, <2>3
<1> HIDE DEF U
<1>10. 0..n \subseteq U
  BY <1>1, <1>8, <1>9, UpToInduction
<1>11. k \in 0..n
  BY DEF n
<1> QED
  BY <1>10, <1>11 DEF U, n, t, P, lengths

\* Opus: the samples are the audio packets, at the places they have without the others.
LEMMA OpusKept ==
  ASSUME NEW file, IsFile(file), file.format = "opus", Remuxed(file).ok
  PROVE  AudioIsKept(file)
<1> DEFINE packets == OggPackets(file)
           n == Len(packets)
           audio == {k \in DOMAIN packets : k \in DOMAIN file.kinds => file.kinds[k] = "audio"}
           lengths == [k \in DOMAIN packets |-> IF k \in audio THEN packets[k] ELSE 0]
           samples == Remuxed(file).samples
<1>0. Remuxed(file) = RemuxOpus(file) /\ ~RemuxError.ok
  BY DEF Remuxed, RemuxError
<1>1. PICK lens :
         /\ packets \in Seq(Nat)
         /\ RemuxOpus(file) = Track([k \in DOMAIN lens[n] |->
                   Sample(SumTo(lens[n], k - 1), SumTo(lens[n], k), file.packetDur, 0)])
         /\ lens[0] = <<>>
         /\ \A k \in 0..n : lens[k] \in Seq(Nat)
         /\ \A k \in 1..n :
               lens[k] = IF k \in DOMAIN file.kinds => file.kinds[k] = "audio"
                         THEN Append(lens[k - 1], packets[k]) ELSE lens[k - 1]
  BY <1>0, OpusSteps, Zenon
<1> DEFINE t == lens[n]
           r == [k \in DOMAIN t |-> Sample(SumTo(t, k - 1), SumTo(t, k), file.packetDur, 0)]
<1>2. samples = r
  <2> HIDE DEF r
  <2>1. RemuxOpus(file) = Track(r)
    BY <1>1 DEF r
  <2> QED
    BY <1>0, <2>1, Accepted
<1> HIDE DEF packets
<1>3. DOMAIN packets = 1..n /\ n \in Nat
  BY <1>1
<1>4. audio \in SUBSET (1..n)
  BY <1>3
<1>5. IsFilter(lens, packets, audio, Nat)
  <2>1. \A i \in 1..n : i \in audio <=> (i \in DOMAIN file.kinds => file.kinds[i] = "audio")
    BY <1>3, Zenon
  <2> HIDE DEF audio
  <2> QED
    BY <1>1, <1>4, <2>1 DEF IsFilter
<1>6. \A k \in 0..n : SumTo(lengths, k) = SumTo(t, Place(audio, k))
  <2> HIDE DEF audio
  <2> QED
    BY <1>5, FilteredSums
<1> HIDE DEF lengths, audio, r, samples
<1>7. /\ t \in Seq(Nat) /\ Len(t) = Cardinality(audio)
      /\ \A j \in audio : Place(audio, j) \in 1..Len(t)
  BY <1>5, Filtered
<1>8. Len(samples) = Cardinality(audio)
  BY <1>2, <1>7 DEF r
<1>9. ASSUME NEW k \in audio
      PROVE  /\ samples[Place(audio, k)].from = SumTo(lengths, k - 1)
             /\ samples[Place(audio, k)].to = SumTo(lengths, k)
  <2> DEFINE p == Place(audio, k)
  <2>1. k \in 1..n /\ k \in 0..n /\ k - 1 \in 0..n
    BY <1>3, <1>4
  <2>2. p \in 1..Len(t) /\ p \in DOMAIN t
    BY <1>7
  <2>3. p = Place(audio, k - 1) + 1 /\ Place(audio, k - 1) \in Nat
    BY <1>3, <1>4, <2>1, Places
  <2>4. p - 1 = Place(audio, k - 1)
    BY <2>3
  <2> HIDE DEF p
  <2>5. samples[p] = Sample(SumTo(t, p - 1), SumTo(t, p), file.packetDur, 0)
    BY <1>2, <2>2 DEF r
  <2>6. SumTo(lengths, k - 1) = SumTo(t, p - 1) /\ SumTo(lengths, k) = SumTo(t, p)
    BY <1>6, <2>1, <2>4 DEF p
  <2> QED
    BY <2>5, <2>6 DEF p, Sample
<1>10. \E v \in {OggPackets(file)} :
          LET a == {k \in DOMAIN v : k \in DOMAIN file.kinds => file.kinds[k] = "audio"}
              l == [k \in DOMAIN v |-> IF k \in a THEN v[k] ELSE 0]
          IN  /\ Len(samples) = Cardinality(a)
              /\ \A k \in a : /\ samples[Place(a, k)].from = SumTo(l, k - 1)
                              /\ samples[Place(a, k)].to = SumTo(l, k)
  BY <1>8, <1>9, Zenon DEF packets, audio, lengths
<1>11. /\ file.format # "flac" /\ file.format # "mp3" /\ file.format # "adts"
       /\ file.format \notin {"wav", "aiff"}
  OBVIOUS
<1> QED
  BY <1>10, <1>11 DEF AudioIsKept, Keeps, samples

\* The entry that holds for a sample is the last one that is reported up to it.
LEMMA LastReported ==
  ASSUME NEW n \in Nat, NEW entry, NEW R, entry[0] = 0,
         \A i \in 1..n : entry[i] = IF i \in R THEN i ELSE entry[i - 1]
  PROVE  \A i \in 1..n : entry[i] # 0 =>
            /\ entry[i] \in 1..i /\ entry[i] \in R
            /\ \A j \in 1..n : entry[i] < j /\ j <= i => j \notin R
<1> DEFINE Right(i) == entry[i] # 0 =>
              /\ entry[i] \in 1..i /\ entry[i] \in R
              /\ \A j \in 1..n : entry[i] < j /\ j <= i => j \notin R
           U == {i \in 0..n : Right(i)}
<1>1. 0 \in U
  OBVIOUS
<1>2. ASSUME NEW i \in 1..n, i - 1 \in U
      PROVE  i \in U
  <2>1. CASE i \in R
    <3>1. entry[i] = i /\ i \in 1..i /\ \A j \in 1..n : ~(i < j /\ j <= i)
      BY <2>1
    <3>2. Right(i)
      BY <2>1, <3>1, Zenon
    <3> HIDE DEF Right
    <3> QED
      BY <3>2
  <2>2. CASE i \notin R
    <3>1. entry[i] = entry[i - 1] /\ Right(i - 1)
      BY <2>2, <1>2
    <3>2. /\ \A j \in 1..n : j <= i <=> j <= i - 1 \/ j = i
          /\ \A e \in 1..(i - 1) : e \in 1..i
      OBVIOUS
    <3>3. Right(i)
      BY <2>2, <3>1, <3>2, Zenon
    <3> HIDE DEF Right
    <3> QED
      BY <3>3
  <2> QED
    BY <2>1, <2>2
<1> HIDE DEF U
<1>3. 0..n \subseteq U
  BY <1>1, <1>2, UpToInduction
<1>4. \A i \in 1..n : i \in 0..n
  OBVIOUS
<1> QED
  BY <1>3, <1>4, Zenon DEF U

\* MP4: the samples are those of the audio track, in the file, each with the last entry
\* that the track has reported.
LEMMA Mp4Kept ==
  ASSUME NEW file, IsFile(file), file.format = "mp4", Remuxed(file).ok
  PROVE  AudioIsKept(file)
<1> DEFINE D == [track : STRING, reports : BOOLEAN, offset : Nat, size : Nat, dur : Nat]
           d == file.demuxed
           n == Len(d)
           audio == {k \in DOMAIN d : d[k].track = "audio"}
           P(k) == Place(audio, k)
           t == AudioOf(file.demuxed)
           samples == Remuxed(file).samples
<1>0. Remuxed(file) = RemuxMp4(file) /\ ~RemuxError.ok
  BY DEF Remuxed, RemuxError
<1>1. d \in Seq(D) /\ file.len \in Nat
  BY DEF IsFile
<1>2. PICK entry :
         /\ RemuxMp4(file) =
              IF \E i \in DOMAIN t : entry[i] = 0 \/ t[i].offset + t[i].size > file.len
              THEN RemuxError
              ELSE Track([i \in DOMAIN t |->
                            Sample(t[i].offset, t[i].offset + t[i].size, t[i].dur, entry[i])])
         /\ entry[0] = 0
         /\ \A i \in 0..Len(t) : entry[i] \in Nat
         /\ \A i \in 1..Len(t) : entry[i] = IF t[i].reports THEN i ELSE entry[i - 1]
  BY Mp4Entries, Zenon
<1> DEFINE r == [i \in DOMAIN t |-> Sample(t[i].offset, t[i].offset + t[i].size, t[i].dur, entry[i])]
<1>3. samples = r /\ \A i \in DOMAIN t : entry[i] # 0 /\ ~(t[i].offset + t[i].size > file.len)
  <2>1. \A i \in DOMAIN t : ~(entry[i] = 0 \/ t[i].offset + t[i].size > file.len)
    BY <1>0, <1>2, Zenon
  <2>2. RemuxMp4(file) = Track(r)
    BY <2>1, <1>2, Zenon
  <2> HIDE DEF r
  <2>3. samples = r
    BY <2>2, <1>0, Accepted
  <2> QED
    BY <2>1, <2>3, Zenon
<1> HIDE DEF D
<1>4. DOMAIN d = 1..n /\ n \in Nat
  BY <1>1
<1>5. audio \in SUBSET (1..n)
  BY <1>4
<1>6. PICK u : IsFilter(u, d, audio, D) /\ t = u[n]
  <2>1. PICK upTo :
            /\ AudioOf(d) = upTo[n]
            /\ upTo[0] = <<>>
            /\ \A i \in 0..n : upTo[i] \in Seq(D)
            /\ \A i \in 1..n : upTo[i] = IF d[i].track = "audio" THEN Append(upTo[i - 1], d[i]) ELSE upTo[i - 1]
    <3> HIDE DEF d
    <3> QED
      BY <1>1, AudioOfSteps
  <2>2. \A i \in 1..n : i \in audio <=> d[i].track = "audio"
    BY <1>4, Zenon
  <2> HIDE DEF audio
  <2> QED
    BY <1>1, <1>5, <2>1, <2>2 DEF IsFilter
<1> HIDE DEF audio, samples
<1>7. /\ t \in Seq(D) /\ Len(t) = Cardinality(audio)
      /\ \A j \in audio : P(j) \in 1..Len(t) /\ t[P(j)] = d[j]
      /\ \A m \in 1..Len(t) : \E j \in audio : m = P(j)
  BY <1>6, Filtered
<1> HIDE DEF t
<1>8. DOMAIN t = 1..Len(t) /\ Len(t) \in Nat /\ Len(r) = Len(t)
  BY <1>7
<1>9. \A i \in 1..Len(t) : entry[i] # 0 =>
            /\ entry[i] \in 1..i /\ t[entry[i]].reports
            /\ \A j \in 1..Len(t) : entry[i] < j /\ j <= i => ~t[j].reports
  <2> DEFINE R == {i \in 1..Len(t) : t[i].reports}
  <2>1. \A i \in 1..Len(t) : entry[i] = IF i \in R THEN i ELSE entry[i - 1]
    BY <1>2
  <2> HIDE DEF R
  <2>2. \A i \in 1..Len(t) : entry[i] # 0 =>
            /\ entry[i] \in 1..i /\ entry[i] \in R
            /\ \A j \in 1..Len(t) : entry[i] < j /\ j <= i => j \notin R
    BY <1>2, <1>8, <2>1, LastReported
  <2> QED
    BY <2>2, Zenon DEF R
<1>10. \A a, b \in audio : (a <= b => P(a) <= P(b)) /\ (a < b => P(a) < P(b))
  <2> TAKE a, b \in audio
  <2>1. a \in 0..n /\ b \in 0..n
    BY <1>4, <1>5
  <2> QED
    BY <1>4, <1>5, <2>1, PlacesGrow
<1>11. \A a \in audio : a \in Nat /\ P(a) \in Nat
  BY <1>5, <1>7, <1>8
<1> HIDE DEF P, d
<1>12. ASSUME NEW k \in audio
       PROVE  LET s == samples[P(k)]
              IN  /\ s.from = d[k].offset /\ s.to = d[k].offset + d[k].size
                  /\ s.to <= file.len
                  /\ \E e \in audio : /\ s.entry = P(e) /\ d[e].reports /\ e <= k
                                      /\ \A j \in audio : e < j /\ j <= k => ~d[j].reports
  <2> DEFINE p == P(k)
             s == samples[p]
  <2>1. p \in 1..Len(t) /\ t[p] = d[k]
    BY <1>7
  <2>2. s = Sample(d[k].offset, d[k].offset + d[k].size, d[k].dur, entry[p])
    BY <1>3, <1>8, <2>1
  <2>3. ~(d[k].offset + d[k].size > file.len) /\ entry[p] # 0
    BY <1>3, <1>8, <2>1
  <2>4. d[k].offset \in Nat /\ d[k].size \in Nat
    <3>1. d[k] \in D
      BY <1>7, <2>1, <1>8
    <3> QED
      BY <3>1 DEF D
  <2>5. /\ entry[p] \in 1..p /\ t[entry[p]].reports
        /\ \A j \in 1..Len(t) : entry[p] < j /\ j <= p => ~t[j].reports
    BY <1>9, <2>1, <2>3
  <2>6. entry[p] \in 1..Len(t)
    BY <2>1, <2>5, <1>8
  <2>7. PICK e \in audio : entry[p] = P(e)
    BY <1>7, <2>6
  <2>8. d[e].reports
    BY <1>7, <2>5, <2>7
  <2>9. e <= k
    <3>1. P(e) <= P(k)
      BY <2>5, <2>7, <1>11
    <3> QED
      BY <3>1, <1>10, <1>11
  <2>10. ASSUME NEW j \in audio, e < j, j <= k
         PROVE  ~d[j].reports
    <3>1. P(e) < P(j) /\ P(j) <= P(k)
      BY <2>10, <1>10
    <3>2. P(j) \in 1..Len(t) /\ t[P(j)] = d[j]
      BY <1>7
    <3> QED
      BY <3>1, <3>2, <2>5, <2>7
  <2>11. s.from = d[k].offset /\ s.to = d[k].offset + d[k].size /\ s.entry = entry[p]
    BY <2>2 DEF Sample
  <2>12. s.to <= file.len
    BY <2>3, <2>4, <2>11, <1>1
  <2> HIDE DEF s, p
  <2>13. \E f \in audio : /\ s.entry = P(f) /\ d[f].reports /\ f <= k
                          /\ \A j \in audio : f < j /\ j <= k => ~d[j].reports
    BY <2>7, <2>8, <2>9, <2>10, <2>11, Zenon
  <2> QED
    BY <2>11, <2>12, <2>13, Zenon DEF s, p
<1>13. Len(samples) = Cardinality(audio)
  BY <1>3, <1>7, <1>8
<1>14. /\ file.format # "flac" /\ file.format # "mp3" /\ file.format # "adts"
       /\ file.format \notin {"wav", "aiff"} /\ file.format # "opus"
  OBVIOUS
<1>15. Keeps(file, samples)
       <=> /\ Len(samples) = Cardinality(audio)
           /\ \A k \in audio :
                 LET s == samples[P(k)]
                 IN  /\ s.from = d[k].offset /\ s.to = d[k].offset + d[k].size
                     /\ s.to <= file.len
                     /\ \E e \in audio : /\ s.entry = P(e) /\ d[e].reports /\ e <= k
                                         /\ \A j \in audio : e < j /\ j <= k => ~d[j].reports
  BY <1>14 DEF Keeps, audio, d, P
<1> QED
  BY <1>12, <1>13, <1>15, Zenon DEF AudioIsKept, samples

(* Whatever a file holds, the samples that remuxing makes of it are all of  *)
(* its audio.                                                              *)
LEMMA AudioKept ==
  ASSUME NEW file, IsFile(file), Remuxed(file).ok
  PROVE  AudioIsKept(file)
<1>1. CASE file.format \in {"flac", "mp3", "adts"}
  BY <1>1, FlacKept, Mp3Kept, AdtsKept
<1>2. CASE file.format \in {"wav", "aiff", "opus", "mp4"}
  BY <1>2, PcmKept, OpusKept, Mp4Kept
<1>3. CASE file.format \notin {"flac", "mp3", "adts", "wav", "aiff", "opus", "mp4"}
  <2>1. Remuxed(file) = RemuxError
    BY <1>3 DEF Remuxed
  <2> QED
    BY <2>1 DEF RemuxError
<1> QED
  BY <1>1, <1>2, <1>3

\* Their durations are those of the source.
LEMMA DurationsKept ==
  ASSUME NEW file, IsFile(file), Remuxed(file).ok, WholeBytes(file)
  PROVE  DurationsFit(file)
<1>1. CASE file.format = "flac"
  BY <1>1, FlacDurationsAddUp
<1>2. CASE file.format \in {"wav", "aiff"}
  BY <1>2, PcmDurations
<1>3. CASE file.format \notin {"flac", "wav", "aiff"}
  BY <1>3 DEF DurationsFit, AddUp
<1> QED
  BY <1>1, <1>2, <1>3

-----------------------------------------------------------------------------
(* The cache: its inductive invariant *)

\* Paths that a directory can have.
Paths == [track : Tracks, boot : Nat, sec : 0..MaxClock]

Files == {files \in SUBSET Int : IsFiniteSet(files)}

Dirs == [name : Names, files : Files, stamp : 0..MaxClock, torn : BOOLEAN]

Plans == [name : Paths, size : Nat, stamp : 0..MaxClock]

Tasks == [pc : Steps, track : Tracks \cup {NoName}, made : BOOLEAN, plan : SUBSET Plans,
          total : Nat, dir : Nat, path : Names, left : SUBSET Int, todo : Seq(Int),
          tmp : Names, count : Nat, alone : BOOLEAN, cut : BOOLEAN]

SourcesOK ==
    \A t \in Tracks : /\ IsFile(source[t])
                      /\ stream[t] = [ok |-> Remuxed(source[t]).ok,
                                      segments |-> Len(Segments(source[t]))]

Typed ==
    /\ dirs \in Seq(Dirs)
    /\ holder \in [Tracks -> Clients \cup {NoClient}]
    /\ task \in [Clients -> Tasks]
    /\ now \in 0..MaxClock /\ boot \in Nat \ {0} /\ owed \in BOOLEAN
    /\ budget \in Nat /\ crashes \in Nat /\ hangups \in Nat

\* A path names one directory, and what has none is gone.
NamesOK ==
    /\ \A d, e \in DOMAIN dirs : dirs[d].name = dirs[e].name /\ dirs[d].name # NoName => d = e
    /\ \A d \in DOMAIN dirs : dirs[d].name = NoName => dirs[d] = Gone

\* What a task carries, where it is.
TaskOK(c) ==
    LET t == task[c]
    IN  /\ t.pc # "idle" => t.track \in Tracks
        /\ t.cut => t.pc \in Blocking
        /\ t.pc \in {"remux", "write", "replace", "rename"} => t.tmp # NoName
        /\ t.tmp # NoName => /\ t.pc \in {"remux", "write", "replace", "remove", "rename"}
                             /\ t.tmp.track = t.track /\ t.tmp.boot # 0
        /\ t.pc = "write" => stream[t.track].ok

\* A task that is not cut off holds the lock of its track.
LockOK(c) ==
    task[c].pc \notin {"idle", "lock", "serve"} /\ ~task[c].cut => holder[task[c].track] = c

\* A directory with a playlist has the rest, or is being removed.
Whole(d) ==
    dirs[d].name # NoName /\ IndexFile \in dirs[d].files /\ ~dirs[d].torn
       => Wanted(dirs[d].name.track) \subseteq dirs[d].files

\* A generation has written what it has not to write any more.
Written(c) ==
    At(c, "write") =>
       \E k \in 1..(SegmentCount(task[c].track) + 2) :
          LET files == OutputFiles(task[c].track)
          IN  /\ task[c].todo = SubSeq(files, k, SegmentCount(task[c].track) + 2)
              /\ \A d \in Named(task[c].tmp) :
                    dirs[d].torn \/ \A j \in 1..(k - 1) : files[j] \in dirs[d].files

\* What is being removed is torn, or gone.
Removing(c) ==
    At(c, "remove") => /\ task[c].dir \in DOMAIN dirs /\ task[c].path # NoName
                       /\ dirs[task[c].dir].torn \/ dirs[task[c].dir] = Gone

Inv ==
    /\ SourcesOK /\ Typed /\ NamesOK
    /\ \A c \in Clients : TaskOK(c) /\ LockOK(c) /\ Written(c) /\ Removing(c)
    /\ \A d \in DOMAIN dirs : Whole(d)

-----------------------------------------------------------------------------
(* Facts about the state that the steps use *)

\* The number of segments, and that the segments of an accepted file fit.
LEMMA StreamType ==
  ASSUME SourcesOK, NEW t \in Tracks
  PROVE  /\ stream[t].ok \in BOOLEAN
         /\ SegmentCount(t) \in Nat
         /\ stream[t].ok => SegmentsFit(source[t])
<1>1. /\ IsFile(source[t])
      /\ stream[t] = [ok |-> Remuxed(source[t]).ok, segments |-> Len(Segments(source[t]))]
  BY DEF SourcesOK
<1>2. /\ Segments(source[t]) \in Seq(Pieces)
      /\ Remuxed(source[t]).ok \in BOOLEAN
      /\ Remuxed(source[t]).ok => SegmentsFit(source[t])
  BY <1>1, SegmentsOf, Zenon
<1>3. Len(Segments(source[t])) \in Nat
  BY <1>2
<1> QED
  BY <1>1, <1>2, <1>3 DEF SegmentCount

LEMMA OutputFilesAre ==
  ASSUME NEW t, SegmentCount(t) \in Nat
  PROVE  /\ OutputFiles(t) \in Seq(Int)
         /\ Len(OutputFiles(t)) = SegmentCount(t) + 2
         /\ \A j \in 1..SegmentCount(t) : OutputFiles(t)[j] = j - 1
         /\ OutputFiles(t)[SegmentCount(t) + 1] = InitFile
         /\ OutputFiles(t)[SegmentCount(t) + 2] = IndexFile
<1> DEFINE n == SegmentCount(t)
           s == [i \in 1..n |-> i - 1]
           m == <<InitFile, IndexFile>>
<1>1. n \in Nat
  OBVIOUS
<1> HIDE DEF n
<1>2. s \in Seq(Int) /\ Len(s) = n
  BY <1>1
<1>3. m \in Seq(Int) /\ Len(m) = 2
  BY DEF InitFile, IndexFile
<1>4. OutputFiles(t) = s \o m
  BY DEF OutputFiles, n
<1>5. /\ s \o m \in Seq(Int) /\ Len(s \o m) = n + 2
      /\ \A j \in 1..(n + 2) : (s \o m)[j] = IF j <= n THEN s[j] ELSE m[j - n]
  BY <1>1, <1>2, <1>3
<1>6. \A j \in 1..n : (s \o m)[j] = j - 1
  BY <1>1, <1>5
<1>7. (s \o m)[n + 1] = m[1] /\ (s \o m)[n + 2] = m[2]
  BY <1>1, <1>5
<1> QED
  BY <1>4, <1>5, <1>6, <1>7 DEF n

LEMMA DirAtIs ==
  ASSUME NEW name, Exists(name)
  PROVE  DirAt(name) \in DOMAIN dirs /\ dirs[DirAt(name)].name = name
<1>1. DirAt(name) \in Named(name)
  BY DEF DirAt, Exists
<1> QED
  BY <1>1 DEF Named

\* Paths that tasks make.
LEMMA TheirPaths ==
  ASSUME Typed, NEW t \in Tracks
  PROVE  /\ Final(t) \in Paths /\ Final(t).track = t /\ Final(t).boot = 0
         /\ Tmp(t) \in Paths /\ Tmp(t).track = t /\ Tmp(t).boot # 0
         /\ NoName \notin Paths
  BY CacheConstants DEF Typed, Paths, Final, Tmp

LEMMA GoneIs ==
  /\ Gone.name = NoName /\ Gone.files = {} /\ Gone.stamp = 0 /\ Gone.torn = FALSE
  /\ Gone \in Dirs
  BY FS_EmptySet, CacheConstants DEF Gone, Dirs, Names, Files

LEMMA DirType ==
  ASSUME Typed, NEW d \in DOMAIN dirs
  PROVE  /\ dirs[d] \in Dirs
         /\ dirs[d] = [name |-> dirs[d].name, files |-> dirs[d].files, stamp |-> dirs[d].stamp,
                       torn |-> dirs[d].torn]
         /\ dirs[d].name \in Names /\ dirs[d].files \in Files
         /\ dirs[d].stamp \in 0..MaxClock /\ dirs[d].torn \in BOOLEAN
<1>1. dirs \in Seq(Dirs)
  BY DEF Typed
<1>2. dirs[d] \in Dirs
  BY <1>1
<1> QED
  BY <1>2 DEF Dirs

-----------------------------------------------------------------------------
(* The sizes of directories *)

\* The sum of collect, entry by entry: its recursion has a solution.
LEMMA SumSteps ==
  ASSUME NEW T, IsFiniteSet(T), \A d \in T : Size(d) \in Nat
  PROVE  \E f : /\ f[T] = MapThenSumSet(Size, T) /\ f[{}] = 0
                /\ \A s \in SUBSET T : s # {} => \E x \in s : f[s] = Size(x) + f[s \ {x}]
<1> DEFINE c(s) == CHOOSE x \in s : TRUE
           body(f) == [s \in SUBSET T |-> IF s = {} THEN 0 ELSE Size(c(s)) + f[s \ {c(s)}]]
           iter == CHOOSE f : f = body(f)
           N == Cardinality(T)
           F == [SUBSET T -> Nat]
           zero == [s \in SUBSET T |-> 0]
           On(g) == [s \in SUBSET T |-> IF s = {} THEN 0 ELSE Size(c(s)) + g[s \ {c(s)}]]
           G == [p \in (1..N) \X F |-> On(p[2])]
<1>1. MapThenSumSet(Size, T) = iter[T]
  BY DEF MapThenSumSet, MapThenFoldSet
<1>2. ASSUME NEW s \in SUBSET T, s # {}
      PROVE  /\ c(s) \in s /\ s \ {c(s)} \in SUBSET T /\ Size(c(s)) \in Nat
             /\ Cardinality(s) \in 1..N /\ Cardinality(s \ {c(s)}) = Cardinality(s) - 1
  <2>1. c(s) \in s
    BY <1>2
  <2>2. IsFiniteSet(s) /\ Cardinality(s) <= N /\ Cardinality(s) \in Nat /\ N \in Nat
    BY FS_Subset, FS_CardinalityType
  <2>3. Cardinality(s) # 0
    BY <1>2, <2>2, FS_EmptySet
  <2>4. Cardinality(s \ {c(s)}) = Cardinality(s) - 1
    BY <2>1, <2>2, FS_RemoveElement
  <2> HIDE DEF c, N
  <2> QED
    BY <2>1, <2>2, <2>3, <2>4
<1>3. /\ N \in Nat /\ zero \in F /\ {} \in SUBSET T /\ Cardinality({}) = 0
      /\ \A s \in SUBSET T : Cardinality(s) \in 0..N
  <2>1. \A s \in SUBSET T : Cardinality(s) \in Nat /\ Cardinality(s) <= N
    BY FS_Subset, FS_CardinalityType
  <2>2. N \in Nat
    BY FS_CardinalityType
  <2> QED
    BY <2>1, <2>2, FS_EmptySet
<1> HIDE DEF c, N
<1>4. ASSUME NEW g \in F
      PROVE  On(g) \in F
  BY <1>2
<1>5. IsStep(G, N, F)
  <2> HIDE DEF On, F
  <2> QED
    BY <1>3, <1>4 DEF IsStep
<1>6. \A i \in 1..N, g \in F : G[<<i, g>>] = On(g)
  OBVIOUS
<1> HIDE DEF G, F
<1>7. PICK h : Follows(h, zero, G, N, F)
  BY <1>3, <1>5, Recursion, Zenon
<1>8. h \in [0..N -> F] /\ h[0] = zero /\ \A i \in 1..N : h[i] = G[<<i, h[i - 1]>>]
  BY <1>7 DEF Follows
<1>9. \A i \in 1..N : h[i] = On(h[i - 1])
  <2> HIDE DEF On
  <2> SUFFICES ASSUME NEW i \in 1..N
               PROVE  h[i] = On(h[i - 1])
    OBVIOUS
  <2>1. h[i - 1] \in F
    BY <1>3, <1>8
  <2> QED
    BY <2>1, <1>6, <1>8
<1> DEFINE f == [s \in SUBSET T |-> h[Cardinality(s)][s]]
<1>10. f = body(f)
  <2>1. ASSUME NEW s \in SUBSET T
        PROVE  f[s] = body(f)[s]
    <3>1. CASE s = {}
      BY <3>1, <1>3, <1>8
    <3>2. CASE s # {}
      <4> DEFINE k == Cardinality(s)
                 r == s \ {c(s)}
      <4>1. /\ r \in SUBSET T /\ k \in 1..N /\ Cardinality(r) = k - 1
        BY <3>2, <1>2
      <4>2. f[s] = On(h[k - 1])[s]
        BY <4>1, <1>9
      <4>3. On(h[k - 1])[s] = Size(c(s)) + h[k - 1][r]
        BY <3>2
      <4>4. f[r] = h[k - 1][r]
        BY <4>1
      <4>5. body(f)[s] = Size(c(s)) + f[r]
        BY <3>2
      <4> QED
        BY <4>2, <4>3, <4>4, <4>5
    <3> QED
      BY <3>1, <3>2
  <2>2. f = [s \in SUBSET T |-> f[s]] /\ body(f) = [s \in SUBSET T |-> body(f)[s]]
    OBVIOUS
  <2> HIDE DEF f, body
  <2> QED
    BY <2>1, <2>2
<1>11. iter = body(iter)
  <2> HIDE DEF body, f
  <2> QED
    BY <1>10, Zenon
<1> HIDE DEF iter, f
<1>12. iter[{}] = 0
  BY <1>3, <1>11
<1>13. ASSUME NEW s \in SUBSET T, s # {}
       PROVE  iter[s] = Size(c(s)) + iter[s \ {c(s)}]
  BY <1>11, <1>13
<1> HIDE DEF body
<1>14. \A s \in SUBSET T : s # {} => \E x \in s : iter[s] = Size(x) + iter[s \ {x}]
  BY <1>2, <1>13
<1>15. iter[T] = MapThenSumSet(Size, T) /\ iter[{}] = 0
  BY <1>1, <1>12
<1> QED
  BY <1>14, <1>15, Zenon

LEMMA SizeType ==
  ASSUME Typed, NEW d \in DOMAIN dirs
  PROVE  Size(d) \in Nat
<1>1. dirs[d].files \in Files
  BY DirType
<1>2. /\ IsFiniteSet({f \in dirs[d].files : f >= 0})
  BY <1>1, FS_Subset DEF Files
<1> QED
  BY <1>2, FS_CardinalityType DEF Size

\* The segments of directories, by their directories' names.
SegmentsOfDirs(T) == {u \in Paths \X Nat : \E d \in T : u[1] = dirs[d].name /\ u[2] \in dirs[d].files}

LEMMA SegmentsOfOne ==
  ASSUME Typed, NamesOK, NEW d \in DOMAIN dirs, dirs[d].name # NoName
  PROVE  /\ IsFiniteSet(SegmentsOfDirs({d}))
         /\ Cardinality(SegmentsOfDirs({d})) = Size(d)
<1> DEFINE files == {f \in dirs[d].files : f >= 0}
           f == [n \in files |-> <<dirs[d].name, n>>]
<1>1. dirs[d].name \in Paths /\ dirs[d].files \in Files
  BY DirType DEF Names, Paths
<1>2. IsFiniteSet(files) /\ files \in SUBSET Nat
  BY <1>1, FS_Subset DEF Files
<1>3. SegmentsOfDirs({d}) = {u \in Paths \X Nat : u[1] = dirs[d].name /\ u[2] \in dirs[d].files}
  BY DEF SegmentsOfDirs
<1>4. \A u \in SegmentsOfDirs({d}) : \E n \in files : u = <<dirs[d].name, n>>
  BY <1>3
<1>5. \A n \in files : <<dirs[d].name, n>> \in SegmentsOfDirs({d})
  BY <1>1, <1>2, <1>3
<1> HIDE DEF files
<1>6. f \in Bijection(files, SegmentsOfDirs({d}))
  <2>1. f \in [files -> SegmentsOfDirs({d})]
    BY <1>5
  <2>2. \A u \in SegmentsOfDirs({d}) : \E n \in files : f[n] = u
    BY <1>4
  <2>3. \A n, m \in files : f[n] = f[m] => n = m
    OBVIOUS
  <2> HIDE DEF f
  <2> QED
    BY <2>1, <2>2, <2>3 DEF Bijection, Injection, Surjection, IsInjective
<1>7. ExistsBijection(files, SegmentsOfDirs({d}))
  BY <1>6 DEF ExistsBijection
<1> QED
  BY <1>2, <1>7, FS_Bijection DEF Size, files

\* The total of collect is the number of segments in the entries.
LEMMA SizesAddUp ==
  ASSUME Typed, NamesOK, NEW T \in SUBSET DOMAIN dirs, \A d \in T : dirs[d].name # NoName
  PROVE  /\ IsFiniteSet(SegmentsOfDirs(T))
         /\ MapThenSumSet(Size, T) = Cardinality(SegmentsOfDirs(T))
<1> DEFINE N == Cardinality(T)
<1>1. IsFiniteSet(T) /\ N \in Nat
  <2>1. DOMAIN dirs = 1..Len(dirs) /\ Len(dirs) \in Nat
    BY DEF Typed
  <2>2. IsFiniteSet(DOMAIN dirs)
    BY <2>1, FS_Interval
  <2>3. IsFiniteSet(T)
    BY <2>2, FS_Subset
  <2> QED
    BY <2>3, FS_CardinalityType
<1>2. PICK sum : /\ sum[T] = MapThenSumSet(Size, T) /\ sum[{}] = 0
                 /\ \A s \in SUBSET T : s # {} => \E x \in s : sum[s] = Size(x) + sum[s \ {x}]
  BY <1>1, SizeType, SumSteps
<1> DEFINE Good == {n \in 0..N : \A s \in SUBSET T : Cardinality(s) = n =>
                      /\ IsFiniteSet(SegmentsOfDirs(s))
                      /\ sum[s] = Cardinality(SegmentsOfDirs(s))}
<1>3. ASSUME NEW s \in SUBSET T
      PROVE  IsFiniteSet(s) /\ Cardinality(s) \in 0..N
  <2>1. IsFiniteSet(s) /\ Cardinality(s) <= N
    BY <1>1, FS_Subset
  <2>2. Cardinality(s) \in Nat
    BY <2>1, FS_CardinalityType
  <2> QED
    BY <1>1, <2>1, <2>2
<1> HIDE DEF N
<1>4. 0 \in Good
  <2> SUFFICES ASSUME NEW s \in SUBSET T, Cardinality(s) = 0
               PROVE  IsFiniteSet(SegmentsOfDirs(s)) /\ sum[s] = Cardinality(SegmentsOfDirs(s))
    BY <1>1
  <2>1. s = {}
    BY <1>3, FS_EmptySet
  <2>2. SegmentsOfDirs(s) = {}
    BY <2>1 DEF SegmentsOfDirs
  <2> QED
    BY <1>2, <2>1, <2>2, FS_EmptySet
<1>5. ASSUME NEW n \in 1..N, n - 1 \in Good
      PROVE  n \in Good
  <2> SUFFICES ASSUME NEW s \in SUBSET T, Cardinality(s) = n
               PROVE  IsFiniteSet(SegmentsOfDirs(s)) /\ sum[s] = Cardinality(SegmentsOfDirs(s))
    BY <1>1
  <2>1. s # {}
    BY <1>1, FS_EmptySet
  <2>2. PICK x \in s : sum[s] = Size(x) + sum[s \ {x}]
    BY <1>2, <2>1
  <2> DEFINE r == s \ {x}
             A == SegmentsOfDirs(r)
             B == SegmentsOfDirs({x})
  <2>3. r \in SUBSET T /\ Cardinality(r) = n - 1
    BY <1>1, <1>3, FS_RemoveElement
  <2>4. IsFiniteSet(A) /\ sum[r] = Cardinality(A)
    BY <1>5, <2>3
  <2>5. IsFiniteSet(B) /\ Cardinality(B) = Size(x)
    BY SegmentsOfOne
  <2>6. SegmentsOfDirs(s) = A \cup B
    BY DEF SegmentsOfDirs
  <2>7. A \cap B = {}
    BY DEF SegmentsOfDirs, NamesOK
  <2> HIDE DEF A, B
  <2>8. IsFiniteSet(A \cup B) /\ Cardinality(A \cup B) = Cardinality(A) + Cardinality(B)
    <3>1. Cardinality(A \cup B) = Cardinality(A) + Cardinality(B) - Cardinality({})
      BY <2>4, <2>5, <2>7, FS_Union
    <3>2. Cardinality(A) \in Nat /\ Cardinality(B) \in Nat
      BY <2>4, <2>5, FS_CardinalityType
    <3>3. IsFiniteSet(A \cup B)
      BY <2>4, <2>5, FS_Union
    <3>4. Cardinality({}) = 0
      BY FS_EmptySet
    <3> QED
      BY <3>1, <3>2, <3>3, <3>4
  <2>9. Cardinality(A) \in Nat /\ Cardinality(B) \in Nat
    BY <2>4, <2>5, FS_CardinalityType
  <2> QED
    BY <2>2, <2>4, <2>5, <2>6, <2>8, <2>9 DEF r
<1> HIDE DEF Good
<1>6. 0..N \subseteq Good
  BY <1>1, <1>4, <1>5, UpToInduction
<1> QED
  BY <1>1, <1>2, <1>6 DEF Good, N

\* A directory of n files lacks one of the numbers from 0 to n.
LEMMA OpenableType ==
  ASSUME Typed, NEW name
  PROVE  /\ Openable(name) \in Nat
         /\ Exists(name) /\ {IndexFile, InitFile} \subseteq dirs[DirAt(name)].files =>
               Openable(name) \notin dirs[DirAt(name)].files
<1>1. CASE ~Exists(name) \/ ~({IndexFile, InitFile} \subseteq dirs[DirAt(name)].files)
  BY <1>1 DEF Openable
<1>2. CASE Exists(name) /\ {IndexFile, InitFile} \subseteq dirs[DirAt(name)].files
  <2> DEFINE files == dirs[DirAt(name)].files
             m == Cardinality(files)
             missing == {n \in 0..m : n \notin files}
  <2>1. files \in SUBSET Int /\ IsFiniteSet(files) /\ m \in Nat
    <3>1. files \in Files
      BY <1>2, DirAtIs, DirType
    <3> QED
      BY <3>1, FS_CardinalityType DEF Files
  <2> HIDE DEF files
  <2>2. missing # {}
    <3> SUFFICES ASSUME 0..m \subseteq files
                 PROVE  FALSE
      OBVIOUS
    <3>1. Cardinality(0..m) = m + 1
      BY <2>1, FS_Interval
    <3>2. Cardinality(0..m) <= m
      BY <2>1, FS_Subset
    <3> QED
      BY <2>1, <3>1, <3>2
  <2>3. PICK n \in missing : \A k \in missing : n <= k
    BY <2>1, <2>2, missing \in SUBSET Nat, LeastNumber
  <2>4. n \in 0..m /\ n \notin files /\ 0..(n - 1) \subseteq files
    BY <2>1, <2>3
  <2> DEFINE open == CHOOSE k \in 0..m : k \notin files /\ 0..(k - 1) \subseteq files
  <2>5. open \in 0..m /\ open \notin files
    BY <2>4
  <2>6. Openable(name) = open
    BY <1>2 DEF Openable, files
  <2> QED
    BY <2>1, <2>5, <2>6 DEF files
<1> QED
  BY <1>1, <1>2

-----------------------------------------------------------------------------
(* Steps: what they make of tasks, directories and the rest *)

\* What the others' steps leave of a task, apart from its being alone.
Kept(e) ==
    /\ task'[e].pc = task[e].pc /\ task'[e].track = task[e].track /\ task'[e].cut = task[e].cut
    /\ task'[e].tmp = task[e].tmp /\ task'[e].todo = task[e].todo
    /\ task'[e].dir = task[e].dir /\ task'[e].path = task[e].path

HolderType == holder' \in [Tracks -> Clients \cup {NoClient}]

\* The locks that others than c hold stay theirs.
OthersHold(c) == \A e \in Clients \ {c}, t \in Tracks : holder[t] = e => holder'[t] = e

TasksMove(c) ==
    /\ task' \in [Clients -> Tasks] /\ HolderType
    /\ \A e \in Clients \ {c} : Kept(e)
    /\ OthersHold(c)
    /\ TaskOK(c)' /\ LockOK(c)' /\ Written(c)' /\ Removing(c)'

\* What a step may make of a directory.
Moves(d) ==
    /\ d \in DOMAIN dirs'
    /\ dirs[d] = Gone => dirs'[d] = Gone
    /\ \/ dirs'[d] = Gone
       \/ /\ dirs[d].torn => dirs'[d].torn
          /\ dirs'[d].torn \/ dirs[d].files \subseteq dirs'[d].files
          /\ dirs'[d].name = dirs[d].name \/ \E t \in Tracks : dirs'[d].name = Final(t)

\* A directory is new to those who write, or torn.
IsNew(d) == dirs'[d].torn \/ \A e \in Clients : At(e, "write") => task[e].tmp # dirs'[d].name

DirsMove ==
    /\ dirs' \in Seq(Dirs) /\ NamesOK'
    /\ \A d \in DOMAIN dirs' : Whole(d)'
    /\ \A d \in DOMAIN dirs : Moves(d)
    /\ \A d \in DOMAIN dirs' \ DOMAIN dirs : IsNew(d)

OthersMove ==
    /\ UNCHANGED <<source, stream>>
    /\ now' \in 0..MaxClock /\ boot' \in Nat \ {0} /\ owed' \in BOOLEAN
    /\ budget' \in Nat /\ crashes' \in Nat /\ hangups' \in Nat

LEMMA OthersStayOK ==
  ASSUME Inv, NEW c \in Clients, TasksMove(c), DirsMove, OthersMove, NEW e \in Clients, e # c
  PROVE  TaskOK(e)' /\ LockOK(e)' /\ Written(e)' /\ Removing(e)'
<1>1. TaskOK(e) /\ LockOK(e) /\ Written(e) /\ Removing(e) /\ SourcesOK /\ Typed
  BY DEF Inv
<1>2. Kept(e) /\ stream' = stream
  BY DEF TasksMove, OthersMove
<1>3. TaskOK(e)'
  BY <1>1, <1>2 DEF TaskOK, Kept, Blocking
<1>4. LockOK(e)'
  <2> SUFFICES ASSUME task[e].pc \notin {"idle", "lock", "serve"}, ~task[e].cut
               PROVE  holder'[task[e].track] = e
    BY <1>2 DEF LockOK, Kept
  <2>1. holder[task[e].track] = e /\ task[e].track \in Tracks
    BY <1>1 DEF LockOK, TaskOK
  <2> QED
    BY <2>1 DEF TasksMove, OthersHold
<1>5. Written(e)'
  <2> SUFFICES ASSUME At(e, "write")
               PROVE  Written(e)'
    BY <1>2 DEF Written, At, Kept
  <2> DEFINE name == task[e].tmp
             n == SegmentCount(task[e].track)
             files == OutputFiles(task[e].track)
  <2>1. PICK k \in 1..(n + 2) :
          /\ task[e].todo = SubSeq(files, k, n + 2)
          /\ \A d \in Named(name) : dirs[d].torn \/ \A j \in 1..(k - 1) : files[j] \in dirs[d].files
    BY <1>1 DEF Written
  <2>2. name # NoName /\ name.boot # 0
    BY <1>1 DEF TaskOK, At
  <2>3. ASSUME NEW d \in DOMAIN dirs', dirs'[d].name = name
        PROVE  dirs'[d].torn \/ \A j \in 1..(k - 1) : files[j] \in dirs'[d].files
    <3>1. CASE d \in DOMAIN dirs
      <4>1. Moves(d)
        BY <3>1 DEF DirsMove
      <4>2. dirs'[d] # Gone
        BY <2>2, <2>3, GoneIs
      <4>3. \A t \in Tracks : dirs'[d].name # Final(t)
        BY <1>1, <2>2, <2>3, TheirPaths
      <4>4. d \in Named(name)
        BY <2>3, <3>1, <4>1, <4>2, <4>3 DEF Moves, Named
      <4> QED
        BY <2>1, <4>1, <4>2, <4>4 DEF Moves
    <3>2. CASE d \notin DOMAIN dirs
      BY <2>3, <3>2 DEF DirsMove, IsNew
    <3> QED
      BY <3>1, <3>2
  <2>4. /\ task'[e].tmp = name /\ SegmentCount(task[e].track)' = n
        /\ OutputFiles(task[e].track)' = files /\ task'[e].todo = task[e].todo
    BY <1>2 DEF Kept, SegmentCount, OutputFiles
  <2> HIDE DEF files, n, name
  <2>5. /\ task'[e].todo = SubSeq(files, k, n + 2)
        /\ \A d \in Named(task[e].tmp)' :
              dirs'[d].torn \/ \A j \in 1..(k - 1) : files[j] \in dirs'[d].files
    BY <2>1, <2>3, <2>4 DEF Named
  <2>6. /\ task'[e].todo = SubSeq(OutputFiles(task[e].track)', k, SegmentCount(task[e].track)' + 2)
        /\ k \in 1..(SegmentCount(task[e].track)' + 2)
        /\ \A d \in Named(task[e].tmp)' :
              \/ dirs'[d].torn
              \/ \A j \in 1..(k - 1) : OutputFiles(task[e].track)'[j] \in dirs'[d].files
    BY <2>1, <2>4, <2>5
  <2> QED
    BY <2>6 DEF Written
<1>6. Removing(e)'
  <2> SUFFICES ASSUME At(e, "remove")
               PROVE  /\ task[e].dir \in DOMAIN dirs' /\ task[e].path # NoName
                      /\ dirs'[task[e].dir].torn \/ dirs'[task[e].dir] = Gone
    BY <1>2 DEF Removing, At, Kept
  <2>1. /\ task[e].dir \in DOMAIN dirs /\ task[e].path # NoName
        /\ dirs[task[e].dir].torn \/ dirs[task[e].dir] = Gone
    BY <1>1 DEF Removing
  <2>2. Moves(task[e].dir)
    BY <2>1 DEF DirsMove
  <2> QED
    BY <2>1, <2>2 DEF Moves
<1> QED
  BY <1>3, <1>4, <1>5, <1>6

LEMMA Combined ==
  ASSUME Inv, NEW c \in Clients, TasksMove(c), DirsMove, OthersMove
  PROVE  Inv'
<1>1. SourcesOK'
  BY DEF Inv, SourcesOK, OthersMove
<1>2. Typed'
  BY DEF TasksMove, DirsMove, OthersMove, Typed, HolderType
<1>3. \A e \in Clients : TaskOK(e)' /\ LockOK(e)' /\ Written(e)' /\ Removing(e)'
  <2>1. \A e \in Clients : e # c => TaskOK(e)' /\ LockOK(e)' /\ Written(e)' /\ Removing(e)'
    BY OthersStayOK
  <2>2. TaskOK(c)' /\ LockOK(c)' /\ Written(c)' /\ Removing(c)'
    BY DEF TasksMove
  <2> QED
    BY <2>1, <2>2
<1> QED
  BY <1>1, <1>2, <1>3 DEF Inv, DirsMove

-----------------------------------------------------------------------------
(* Steps that leave the directories alone *)

LEMMA DirsStay ==
  ASSUME Inv, UNCHANGED <<dirs, stream>>
  PROVE  DirsMove
<1>1. dirs' = dirs /\ stream' = stream /\ dirs \in Seq(Dirs) /\ NamesOK
  BY DEF Inv, Typed
<1>2. NamesOK' /\ dirs' \in Seq(Dirs)
  BY <1>1 DEF NamesOK
<1>3. \A d \in DOMAIN dirs' : Whole(d)'
  BY <1>1 DEF Inv, Whole, Wanted, SegmentCount
<1>4. \A d \in DOMAIN dirs : Moves(d)
  BY <1>1 DEF Moves
<1> QED
  BY <1>1, <1>2, <1>3, <1>4 DEF DirsMove

LEMMA NoTaskType == NoTask \in Tasks
  BY CacheConstants DEF NoTask, Tasks, Steps, Names

LEMMA Updated ==
  ASSUME Typed, NEW c \in Clients, NEW x \in Tasks, task' = [task EXCEPT ![c] = x]
  PROVE  task' \in [Clients -> Tasks] /\ task'[c] = x /\ \A e \in Clients \ {c} : Kept(e)
<1>1. task \in [Clients -> Tasks]
  BY DEF Typed
<1>2. task' \in [Clients -> Tasks] /\ task'[c] = x /\ \A e \in Clients \ {c} : task'[e] = task[e]
  <2> HIDE DEF Tasks
  <2> QED
    BY <1>1
<1> QED
  BY <1>2 DEF Kept

LEMMA Released ==
  ASSUME Typed, NEW c \in Clients, Release(c)
  PROVE  HolderType /\ OthersHold(c)
<1>1. holder \in [Tracks -> Clients \cup {NoClient}]
  BY DEF Typed
<1> QED
  BY <1>1 DEF Release, HolderType, OthersHold

LEMMA HolderStays ==
  ASSUME Typed, NEW c \in Clients, UNCHANGED holder
  PROVE  HolderType /\ OthersHold(c)
  BY DEF Typed, HolderType, OthersHold

LEMMA Ended ==
  ASSUME Inv, NEW c \in Clients, task' = [task EXCEPT ![c] = NoTask],
         Release(c) \/ UNCHANGED holder
  PROVE  TasksMove(c)
<1>1. Typed
  BY DEF Inv
<1>2. task' \in [Clients -> Tasks] /\ task'[c] = NoTask /\ \A e \in Clients \ {c} : Kept(e)
  BY <1>1, NoTaskType, Updated, Zenon
<1>3. HolderType /\ OthersHold(c)
  BY <1>1, Released, HolderStays
<1>4. TaskOK(c)' /\ LockOK(c)' /\ Written(c)' /\ Removing(c)'
  BY <1>2 DEF NoTask, TaskOK, LockOK, Written, Removing, At
<1> QED
  BY <1>2, <1>3, <1>4 DEF TasksMove

LEMMA OthersStay ==
  ASSUME Typed, Goes, owed' \in BOOLEAN
  PROVE  OthersMove
  BY DEF Typed, Goes, OthersMove

LEMMA FailSteps ==
  ASSUME Inv, NEW c \in Clients, Fail(c)
  PROVE  TasksMove(c) /\ OthersMove
<1>1. TasksMove(c)
  BY Ended DEF Fail
<1>2. OthersMove
  BY OthersStay DEF Fail, Goes, Inv
<1> QED
  BY <1>1, <1>2

LEMMA VanishSteps ==
  ASSUME Inv, NEW c \in Clients, Vanishes(c), Goes
  PROVE  TasksMove(c) /\ OthersMove
<1>1. TasksMove(c)
  BY Ended DEF Vanishes
<1>2. OthersMove
  BY OthersStay DEF Vanishes, Inv
<1> QED
  BY <1>1, <1>2

LEMMA TaskType ==
  ASSUME Typed, NEW c \in Clients
  PROVE  /\ task[c] \in Tasks
         /\ task[c].pc \in Steps /\ task[c].track \in Tracks \cup {NoName}
         /\ task[c].made \in BOOLEAN /\ task[c].plan \in SUBSET Plans /\ task[c].total \in Nat
         /\ task[c].dir \in Nat /\ task[c].path \in Names /\ task[c].left \in SUBSET Int
         /\ task[c].todo \in Seq(Int) /\ task[c].tmp \in Names /\ task[c].count \in Nat
         /\ task[c].alone \in BOOLEAN /\ task[c].cut \in BOOLEAN
<1>1. task[c] \in Tasks
  BY DEF Typed
<1> QED
  BY <1>1 DEF Tasks

\* What a step leaves a task with that is not at "write" or "remove".
LEMMA Advanced ==
  ASSUME Inv, NEW c \in Clients, NEW x \in Tasks, task' = [task EXCEPT ![c] = x],
         HolderType, OthersHold(c),
         x.pc \notin {"idle", "write", "remove"}, x.track \in Tracks,
         x.cut => x.pc \in Blocking,
         x.pc \in {"remux", "replace", "rename"} =>
            x.tmp # NoName /\ x.tmp.track = x.track /\ x.tmp.boot # 0,
         x.pc \notin {"remux", "replace", "rename"} => x.tmp = NoName,
         x.pc \notin {"lock", "serve"} /\ ~x.cut => holder'[x.track] = c
  PROVE  TasksMove(c)
<1>1. task' \in [Clients -> Tasks] /\ task'[c] = x /\ \A e \in Clients \ {c} : Kept(e)
  BY Updated, Zenon DEF Inv
<1>2. TaskOK(c)'
  BY <1>1 DEF TaskOK, Blocking
<1>3. LockOK(c)' /\ Written(c)' /\ Removing(c)'
  BY <1>1 DEF LockOK, Written, Removing, At
<1> QED
  BY <1>1, <1>2, <1>3 DEF TasksMove

\* A task with one field more of its kind is a task.
LEMMA TaskWith ==
  ASSUME NEW r \in Tasks
  PROVE  /\ \A v \in Steps : [r EXCEPT !.pc = v] \in Tasks
         /\ \A v \in BOOLEAN : [r EXCEPT !.made = v] \in Tasks
         /\ \A v \in SUBSET Plans : [r EXCEPT !.plan = v] \in Tasks
         /\ \A v \in Nat : [r EXCEPT !.total = v] \in Tasks /\ [r EXCEPT !.dir = v] \in Tasks
         /\ \A v \in Names : [r EXCEPT !.path = v] \in Tasks /\ [r EXCEPT !.tmp = v] \in Tasks
         /\ \A v \in SUBSET Int : [r EXCEPT !.left = v] \in Tasks
         /\ \A v \in Seq(Int) : [r EXCEPT !.todo = v] \in Tasks
<1>1. \A v \in Steps : [r EXCEPT !.pc = v] \in Tasks
  BY DEF Tasks
<1>2. \A v \in BOOLEAN : [r EXCEPT !.made = v] \in Tasks
  BY DEF Tasks
<1>3. \A v \in SUBSET Plans : [r EXCEPT !.plan = v] \in Tasks
  BY DEF Tasks
<1>4. \A v \in Nat : [r EXCEPT !.total = v] \in Tasks
  BY DEF Tasks
<1>5. \A v \in Nat : [r EXCEPT !.dir = v] \in Tasks
  BY DEF Tasks
<1>6. \A v \in Names : [r EXCEPT !.path = v] \in Tasks
  BY DEF Tasks
<1>7. \A v \in Names : [r EXCEPT !.tmp = v] \in Tasks
  BY DEF Tasks
<1>8. \A v \in SUBSET Int : [r EXCEPT !.left = v] \in Tasks
  BY DEF Tasks
<1>9. \A v \in Seq(Int) : [r EXCEPT !.todo = v] \in Tasks
  BY DEF Tasks
<1> QED
  BY <1>1, <1>2, <1>3, <1>4, <1>5, <1>6, <1>7, <1>8, <1>9

LEMMA WithPc ==
  ASSUME Typed, NEW c \in Clients, NEW pc \in Steps
  PROVE  /\ [task[c] EXCEPT !.pc = pc] \in Tasks
         /\ [task EXCEPT ![c].pc = pc] = [task EXCEPT ![c] = [task[c] EXCEPT !.pc = pc]]
<1>1. [task[c] EXCEPT !.pc = pc] \in Tasks
  BY TaskType DEF Tasks
<1> QED
  BY <1>1

LEMMA AcquireSteps ==
  ASSUME Inv, NEW c \in Clients, Acquire(c)
  PROVE  TasksMove(c) /\ DirsMove /\ OthersMove
<1> DEFINE x == [task[c] EXCEPT !.pc = "collect"]
<1>1. Typed /\ TaskOK(c) /\ SourcesOK
  BY DEF Inv
<1>2. x \in Tasks /\ task' = [task EXCEPT ![c] = x]
  BY <1>1, WithPc DEF Acquire, To, Steps
<1>3. /\ x.pc = "collect" /\ x.track = task[c].track /\ x.tmp = task[c].tmp /\ x.cut = task[c].cut
  BY <1>1, TaskType DEF Tasks
<1>4. x.track \in Tracks /\ x.tmp = NoName /\ ~x.cut
  BY <1>1, <1>3, TaskType DEF Acquire, At, TaskOK, Blocking
<1>5. HolderType /\ OthersHold(c) /\ holder'[task[c].track] = c
  BY <1>1, <1>3, <1>4, CacheConstants DEF Typed, HolderType, OthersHold, Acquire
<1> HIDE DEF x
<1>6. TasksMove(c)
  BY <1>2, <1>3, <1>4, <1>5, Advanced
<1>7. DirsMove /\ OthersMove
  BY <1>1, DirsStay, OthersStay DEF Acquire, Goes, Typed
<1> QED
  BY <1>6, <1>7

LEMMA CollectSteps ==
  ASSUME Inv, NEW c \in Clients, Collect(c)
  PROVE  TasksMove(c) /\ DirsMove /\ OthersMove
<1> DEFINE entries == {d \in DOMAIN dirs : IndexFile \in dirs[d].files}
           plan    == {[name |-> dirs[d].name, size |-> Size(d), stamp |-> dirs[d].stamp] : d \in entries}
           total == MapThenSumSet(Size, entries)
           x == [task[c] EXCEPT !.pc = "evict", !.plan = plan, !.total = total]
<1>1. Typed /\ TaskOK(c) /\ LockOK(c) /\ NamesOK
  BY DEF Inv
<1>2. total \in Nat
  <2>1. \A d \in entries : dirs[d].name # NoName
    BY <1>1, GoneIs DEF NamesOK
  <2>2. IsFiniteSet(SegmentsOfDirs(entries)) /\ total = Cardinality(SegmentsOfDirs(entries))
    BY <1>1, <2>1, SizesAddUp
  <2> QED
    BY <2>2, FS_CardinalityType
<1>3. plan \in SUBSET Plans
  <2>1. ASSUME NEW d \in entries
        PROVE  [name |-> dirs[d].name, size |-> Size(d), stamp |-> dirs[d].stamp] \in Plans
    <3>1. dirs[d].name \in Names /\ dirs[d].stamp \in 0..MaxClock /\ Size(d) \in Nat
      BY <1>1, DirType, SizeType
    <3>2. dirs[d].name # NoName
      BY <1>1, GoneIs DEF NamesOK
    <3> QED
      BY <3>1, <3>2 DEF Plans, Paths, Names
  <2> QED
    BY <2>1
<1>4. task' = [task EXCEPT ![c].pc = "evict", ![c].plan = plan, ![c].total = total]
  BY DEF Collect
<1> HIDE DEF total, plan
<1>5. x \in Tasks
  BY <1>1, <1>2, <1>3, TaskType DEF Tasks, Steps
<1>6. task' = [task EXCEPT ![c] = x]
  BY <1>4
<1>7. /\ x.pc = "evict" /\ x.track = task[c].track /\ x.tmp = task[c].tmp /\ x.cut = task[c].cut
  BY <1>1, TaskType DEF Tasks
<1>8. x.track \in Tracks /\ x.tmp = NoName /\ (~x.cut => holder[x.track] = c)
  BY <1>1, <1>7, TaskType DEF Collect, At, TaskOK, LockOK
<1>9. HolderType /\ OthersHold(c) /\ holder' = holder
  BY <1>1, HolderStays DEF Collect
<1> HIDE DEF x
<1>10. TasksMove(c)
  BY <1>5, <1>6, <1>7, <1>8, <1>9, Advanced DEF Blocking
<1>11. DirsMove /\ OthersMove
  BY <1>1, DirsStay, OthersStay DEF Collect, Goes, Typed
<1> QED
  BY <1>10, <1>11

LEMMA CollectFailsSteps ==
  ASSUME Inv, NEW c \in Clients, CollectFails(c)
  PROVE  TasksMove(c) /\ DirsMove /\ OthersMove
<1>1. Fail(c) /\ UNCHANGED <<dirs, stream>>
  BY DEF CollectFails, Fail
<1> QED
  BY <1>1, FailSteps, DirsStay

LEMMA TrimmedSteps ==
  ASSUME Inv, NEW c \in Clients, Trimmed(c)
  PROVE  TasksMove(c) /\ DirsMove /\ OthersMove
<1>1. Typed /\ TaskOK(c) /\ LockOK(c) /\ At(c, "evict") /\ Goes /\ UNCHANGED dirs
  BY DEF Inv, Trimmed
<1>2. DirsMove
  BY <1>1, DirsStay DEF Goes
<1>3. CASE task[c].cut /\ Vanishes(c)
  BY <1>1, <1>2, <1>3, VanishSteps
<1>4. ASSUME ~task[c].cut, NEW pc \in {"serve", "open"},
             task' = [task EXCEPT ![c].pc = pc, ![c].plan = {}, ![c].total = 0],
             UNCHANGED owed,
             HolderType, OthersHold(c), pc = "open" => holder' = holder
      PROVE  TasksMove(c) /\ DirsMove /\ OthersMove
  <2> DEFINE x == [task[c] EXCEPT !.pc = pc, !.plan = {}, !.total = 0]
  <2>1. x \in Tasks
    BY <1>1, TaskType DEF Tasks, Steps
  <2>2. task' = [task EXCEPT ![c] = x]
    BY <1>4
  <2>3. /\ x.pc = pc /\ x.track = task[c].track /\ x.tmp = task[c].tmp /\ x.cut = task[c].cut
    BY <1>1, TaskType DEF Tasks
  <2>4. x.track \in Tracks /\ x.tmp = NoName /\ ~x.cut /\ holder[x.track] = c
    BY <1>1, <1>4, <2>3, TaskType DEF At, TaskOK, LockOK
  <2> HIDE DEF x
  <2>5. TasksMove(c)
    BY <1>4, <2>1, <2>2, <2>3, <2>4, Advanced
  <2>6. OthersMove
    BY <1>1, <1>4, OthersStay DEF Typed
  <2> QED
    BY <1>2, <2>5, <2>6
<1>5. CASE ~task[c].cut /\ task[c].made /\ Release(c) /\ UNCHANGED owed
           /\ task' = [task EXCEPT ![c].pc = "serve", ![c].plan = {}, ![c].total = 0]
  BY <1>1, <1>4, <1>5, Released
<1>6. CASE ~task[c].cut /\ ~task[c].made /\ UNCHANGED <<holder, owed>>
           /\ task' = [task EXCEPT ![c].pc = "open", ![c].plan = {}, ![c].total = 0]
  BY <1>1, <1>4, <1>6, HolderStays
<1> QED
  BY <1>3, <1>5, <1>6 DEF Trimmed

\* Entries taken off the plan.
LEMMA SkipSteps ==
  ASSUME Inv, NEW c \in Clients, NEW e, Skip(c, e), At(c, "evict"), e \in task[c].plan,
         UNCHANGED <<holder, owed>>, Goes
  PROVE  TasksMove(c) /\ DirsMove /\ OthersMove
<1> DEFINE total == IF e.name = Preserved(c) THEN task[c].total ELSE Minus(task[c].total, e.size)
           plan == task[c].plan \ {e}
           x == [task[c] EXCEPT !.plan = plan, !.total = total]
<1>1. Typed /\ TaskOK(c) /\ LockOK(c) /\ UNCHANGED dirs
  BY DEF Inv, Skip
<1>2. e.size \in Nat
  BY <1>1, TaskType DEF Plans
<1>3. total \in Nat /\ plan \in SUBSET Plans
  <2>1. task[c].total \in Nat /\ task[c].plan \in SUBSET Plans
    BY <1>1, TaskType
  <2>2. Minus(task[c].total, e.size) \in Nat
    BY <1>2, <2>1 DEF Minus, Greatest
  <2>3. total \in {task[c].total, Minus(task[c].total, e.size)}
    OBVIOUS
  <2>4. plan \in SUBSET Plans
    BY <2>1
  <2> QED
    BY <2>1, <2>2, <2>3, <2>4
<1>4. task' = [task EXCEPT ![c].plan = plan, ![c].total = total]
  BY DEF Skip
<1> HIDE DEF total, plan
<1>5. x \in Tasks
  BY <1>1, <1>3, TaskType DEF Tasks
<1>6. task' = [task EXCEPT ![c] = x]
  BY <1>4
<1>7. /\ x.pc = "evict" /\ x.track = task[c].track /\ x.tmp = task[c].tmp /\ x.cut = task[c].cut
  BY <1>1, TaskType DEF Tasks, At
<1>8. x.track \in Tracks /\ x.tmp = NoName /\ (~x.cut => holder[x.track] = c)
  BY <1>1, <1>7, TaskType DEF At, TaskOK, LockOK
<1>9. HolderType /\ OthersHold(c) /\ holder' = holder
  BY <1>1, HolderStays
<1> HIDE DEF x
<1>10. TasksMove(c)
  BY <1>5, <1>6, <1>7, <1>8, <1>9, Advanced DEF Blocking
<1>11. DirsMove /\ OthersMove
  BY <1>1, DirsStay, OthersStay DEF Goes, Typed
<1> QED
  BY <1>10, <1>11

LEMMA OpenSteps ==
  ASSUME Inv, NEW c \in Clients, Open(c)
  PROVE  TasksMove(c) /\ DirsMove /\ OthersMove
<1> DEFINE n == Openable(Final(task[c].track))
           x == [task[c] EXCEPT !.pc = "touch", !.count = n]
           y == [task[c] EXCEPT !.pc = "generate"]
<1>1. Typed /\ TaskOK(c) /\ LockOK(c) /\ At(c, "open") /\ UNCHANGED dirs
  BY DEF Inv, Open
<1>2. UNCHANGED stream
  BY DEF Open, Goes, Fail
<1>3. DirsMove
  BY <1>1, <1>2, DirsStay
<1>4. n \in Nat
  BY <1>1, OpenableType
<1>5. CASE task[c].cut /\ Vanishes(c) /\ Goes
  BY <1>3, <1>5, VanishSteps
<1>6. CASE /\ n > 0 /\ ~task[c].cut
           /\ task' = [task EXCEPT ![c].pc = "touch", ![c].count = n]
           /\ UNCHANGED <<holder, owed>> /\ Goes
  <2> HIDE DEF n
  <2>1. x \in Tasks
    BY <1>1, <1>4, TaskType DEF Tasks, Steps
  <2>2. task' = [task EXCEPT ![c] = x]
    BY <1>6
  <2>3. /\ x.pc = "touch" /\ x.track = task[c].track /\ x.tmp = task[c].tmp /\ x.cut = task[c].cut
    BY <1>1, TaskType DEF Tasks
  <2>4. x.track \in Tracks /\ x.tmp = NoName /\ ~x.cut /\ holder[x.track] = c
    BY <1>1, <1>6, <2>3, TaskType DEF At, TaskOK, LockOK
  <2>5. HolderType /\ OthersHold(c) /\ holder' = holder
    BY <1>1, <1>6, HolderStays
  <2> HIDE DEF x
  <2>6. TasksMove(c)
    BY <2>1, <2>2, <2>3, <2>4, <2>5, Advanced
  <2>7. OthersMove
    BY <1>1, <1>6, OthersStay DEF Typed
  <2> QED
    BY <1>3, <2>6, <2>7
<1>7. CASE /\ n = 0 /\ ~task[c].made /\ ~task[c].cut
           /\ To(c, "generate")
           /\ UNCHANGED <<holder, owed>> /\ Goes
  <2>1. y \in Tasks /\ task' = [task EXCEPT ![c] = y]
    BY <1>1, <1>7, WithPc DEF Steps, To
  <2>3. /\ y.pc = "generate" /\ y.track = task[c].track /\ y.tmp = task[c].tmp /\ y.cut = task[c].cut
    BY <1>1, TaskType DEF Tasks
  <2>4. y.track \in Tracks /\ y.tmp = NoName /\ ~y.cut /\ holder[y.track] = c
    BY <1>1, <1>7, <2>3, TaskType DEF At, TaskOK, LockOK
  <2>5. HolderType /\ OthersHold(c) /\ holder' = holder
    BY <1>1, <1>7, HolderStays
  <2> HIDE DEF y
  <2>6. TasksMove(c)
    BY <2>1, <2>3, <2>4, <2>5, Advanced
  <2>7. OthersMove
    BY <1>1, <1>7, OthersStay DEF Typed
  <2> QED
    BY <1>3, <2>6, <2>7
<1>8. CASE Fail(c)
  BY <1>3, <1>8, FailSteps
<1> QED
  BY <1>5, <1>6, <1>7, <1>8 DEF Open

LEMMA ServeSteps ==
  ASSUME Inv, NEW c \in Clients, Serve(c) \/ NotFound(c)
  PROVE  TasksMove(c) /\ DirsMove /\ OthersMove
<1>1. /\ task' = [task EXCEPT ![c] = NoTask]
      /\ UNCHANGED <<dirs, holder, owed>> /\ Goes
  BY DEF Serve, NotFound
<1>2. DirsMove /\ OthersMove
  BY <1>1, DirsStay, OthersStay DEF Goes, Typed, Inv
<1> QED
  BY <1>1, <1>2, Ended

-----------------------------------------------------------------------------
(* Steps that change directories *)

\* One directory that changes, and keeps its name or goes.
LEMMA OneMoves ==
  ASSUME Inv, UNCHANGED stream, NEW d \in DOMAIN dirs, NEW x \in Dirs,
         dirs' = [dirs EXCEPT ![d] = x],
         \/ x = Gone
         \/ /\ dirs[d] # Gone /\ x.name = dirs[d].name
            /\ dirs[d].torn => x.torn
            /\ x.torn \/ dirs[d].files \subseteq x.files
            /\ IndexFile \in x.files /\ ~x.torn => Wanted(x.name.track) \subseteq x.files
  PROVE  DirsMove
<1>1. Typed /\ NamesOK /\ dirs \in Seq(Dirs)
  BY DEF Inv, Typed
<1>2. /\ DOMAIN dirs' = DOMAIN dirs /\ dirs' \in Seq(Dirs)
      /\ dirs'[d] = x /\ \A e \in DOMAIN dirs : e # d => dirs'[e] = dirs[e]
  <2> HIDE DEF Dirs
  <2> QED
    BY <1>1
<1>3. \A e \in DOMAIN dirs : dirs'[e] = Gone \/ dirs'[e].name = dirs[e].name
  BY <1>2
<1>4. NamesOK'
  <2>1. ASSUME NEW e \in DOMAIN dirs', dirs'[e].name = NoName
        PROVE  dirs'[e] = Gone
    <3>1. CASE e = d
      <4>1. dirs[d].name = NoName => dirs[d] = Gone
        BY <1>1 DEF NamesOK
      <4> QED
        BY <2>1, <3>1, <4>1, <1>2
    <3>2. CASE e # d
      BY <2>1, <3>2, <1>1, <1>2 DEF NamesOK
    <3> QED
      BY <3>1, <3>2
  <2>2. ASSUME NEW e \in DOMAIN dirs', NEW f \in DOMAIN dirs', dirs'[e].name = dirs'[f].name,
               dirs'[e].name # NoName
        PROVE  e = f
    <3>1. dirs'[e] # Gone /\ dirs'[f] # Gone
      BY <2>2, GoneIs
    <3> QED
      BY <1>1, <1>2, <1>3, <2>2, <3>1 DEF NamesOK
  <2> QED
    BY <2>1, <2>2 DEF NamesOK
<1>5. ASSUME NEW e \in DOMAIN dirs'
      PROVE  Whole(e)'
  <2>1. \A t : Wanted(t)' = Wanted(t)
    BY DEF Wanted, SegmentCount
  <2>2. CASE e = d
    BY <2>1, <2>2, <1>2, GoneIs DEF Whole
  <2>3. CASE e # d
    <3>1. Whole(e) /\ dirs'[e] = dirs[e]
      BY <2>3, <1>2 DEF Inv
    <3> QED
      BY <2>1, <3>1 DEF Whole
  <2> QED
    BY <2>2, <2>3
<1>6. ASSUME NEW e \in DOMAIN dirs
      PROVE  Moves(e)
  <2>1. CASE e = d
    BY <2>1, <1>2 DEF Moves
  <2>2. CASE e # d
    BY <2>2, <1>2 DEF Moves
  <2> QED
    BY <2>1, <2>2
<1> QED
  BY <1>2, <1>4, <1>5, <1>6 DEF DirsMove

LEMMA NamedAreThere ==
  ASSUME Inv, NEW name \in Paths, Exists(name)
  PROVE  /\ DirAt(name) \in DOMAIN dirs /\ dirs[DirAt(name)].name = name
         /\ dirs[DirAt(name)] # Gone
         /\ \A d \in DOMAIN dirs : dirs[d].name = name => d = DirAt(name)
<1>1. name # NoName /\ NamesOK
  BY CacheConstants DEF Inv, Paths
<1> QED
  BY <1>1, DirAtIs, GoneIs DEF NamesOK

LEMMA StartRemovingSteps ==
  ASSUME Inv, NEW c \in Clients, NEW name \in Paths, NEW plan \in SUBSET Plans, NEW total \in Nat,
         Exists(name), StartRemoving(c, name, plan, total),
         task[c].pc \in {"evict", "replace"}, UNCHANGED <<holder, owed>>, Goes
  PROVE  TasksMove(c) /\ DirsMove /\ OthersMove
<1> DEFINE d == DirAt(name)
<1>1. Typed /\ TaskOK(c) /\ LockOK(c) /\ NamesOK
  BY DEF Inv
<1>2. d \in DOMAIN dirs /\ dirs[d].name = name /\ dirs[d] # Gone
  BY NamedAreThere
<1> HIDE DEF d
<1>3. PICK some \in SUBSET dirs[d].files :
        /\ dirs' = [dirs EXCEPT ![d].files = @ \ some, ![d].torn = TRUE]
        /\ task' = [task EXCEPT ![c].pc = "remove", ![c].plan = plan, ![c].total = total,
                                ![c].dir = d, ![c].path = name, ![c].left = dirs[d].files \ some]
  BY DEF StartRemoving, d
<1> DEFINE y == [dirs[d] EXCEPT !.files = @ \ some, !.torn = TRUE]
           x == [task[c] EXCEPT !.pc = "remove", !.plan = plan, !.total = total,
                                !.dir = d, !.path = name, !.left = dirs[d].files \ some]
<1>4. dirs[d] \in Dirs /\ dirs[d].files \in SUBSET Int /\ IsFiniteSet(dirs[d].files)
  BY <1>1, <1>2, DirType DEF Files
<1>5. dirs' = [dirs EXCEPT ![d] = y] /\ task' = [task EXCEPT ![c] = x]
  BY <1>3
<1>6. y \in Dirs /\ y.name = name /\ y.torn = TRUE
  <2>1. dirs[d].files \ some \in Files
    BY <1>4, FS_Subset DEF Files
  <2> HIDE DEF d
  <2> QED
    BY <1>2, <1>4, <2>1 DEF Dirs
<1>7. d \in Nat
  BY <1>1, <1>2 DEF Typed
<1>8. name \in Names /\ dirs[d].files \ some \in SUBSET Int
  BY <1>4 DEF Paths, Names
<1>9. x \in Tasks
  <2> DEFINE r1 == [task[c] EXCEPT !.pc = "remove"]
             r2 == [r1 EXCEPT !.plan = plan]
             r3 == [r2 EXCEPT !.total = total]
             r4 == [r3 EXCEPT !.dir = d]
             r5 == [r4 EXCEPT !.path = name]
             r6 == [r5 EXCEPT !.left = dirs[d].files \ some]
  <2>0. task[c] \in Tasks
    BY <1>1, TaskType
  <2>1. r1 \in Tasks
    BY <2>0, TaskWith DEF Steps
  <2>2. r2 \in Tasks
    <3> HIDE DEF r1
    <3> QED
      BY <2>1, TaskWith
  <2>3. r3 \in Tasks
    <3> HIDE DEF r2
    <3> QED
      BY <2>2, TaskWith
  <2>4. r4 \in Tasks
    <3> HIDE DEF r3
    <3> QED
      BY <2>3, TaskWith, <1>7
  <2>5. r5 \in Tasks
    <3> HIDE DEF r4
    <3> QED
      BY <2>4, TaskWith, <1>8
  <2>6. r6 \in Tasks
    <3> HIDE DEF r5
    <3> QED
      BY <2>5, TaskWith, <1>8
  <2>7. x = r6
    OBVIOUS
  <2> HIDE DEF x, r6
  <2> QED
    BY <2>6, <2>7
<1>10. /\ x.pc = "remove" /\ x.track = task[c].track /\ x.tmp = task[c].tmp /\ x.cut = task[c].cut
       /\ x.dir = d /\ x.path = name
  BY <1>1, TaskType DEF Tasks
<1> HIDE DEF x, y
<1>11. DirsMove
  BY <1>2, <1>5, <1>6, OneMoves DEF Goes
<1>12. /\ task' \in [Clients -> Tasks] /\ task'[c] = x /\ \A e \in Clients \ {c} : Kept(e)
  BY <1>1, <1>5, <1>9, Updated, Zenon
<1>13. TaskOK(c)' /\ LockOK(c)' /\ Written(c)' /\ HolderType /\ OthersHold(c)
  <2>1. TaskOK(c)'
    BY <1>1, <1>10, <1>12 DEF TaskOK, Blocking
  <2>2. LockOK(c)'
    BY <1>1, <1>10, <1>12 DEF LockOK
  <2>3. Written(c)'
    BY <1>10, <1>12 DEF Written, At
  <2>4. HolderType /\ OthersHold(c)
    BY <1>1, HolderStays
  <2> QED
    BY <2>1, <2>2, <2>3, <2>4
<1>14. Removing(c)'
  <2>1. d \in DOMAIN dirs' /\ dirs'[d] = y
    BY <1>1, <1>2, <1>5 DEF Typed
  <2>2. name # NoName
    BY CacheConstants DEF Paths
  <2> QED
    BY <2>1, <2>2, <1>6, <1>10, <1>12 DEF Removing
<1>15. OthersMove
  BY <1>1, OthersStay DEF Typed
<1> QED
  BY <1>11, <1>12, <1>13, <1>14, <1>15 DEF TasksMove

LEMMA EvictSteps ==
  ASSUME Inv, NEW c \in Clients, Evict(c)
  PROVE  TasksMove(c) /\ DirsMove /\ OthersMove
<1>1. PICK e \in Oldest(c) : Skip(c, e) \/ Remove(c, e)
  BY DEF Evict
<1>2. /\ e \in task[c].plan /\ At(c, "evict") /\ UNCHANGED <<holder, owed>> /\ Goes /\ Typed
  BY DEF Evict, Oldest, Inv
<1>3. CASE Skip(c, e)
  BY <1>2, <1>3, SkipSteps
<1>4. CASE Remove(c, e)
  <2>1. /\ task[c].plan \in SUBSET Plans /\ task[c].total \in Nat
    BY <1>2, TaskType
  <2>2. e.name \in Paths /\ e.size \in Nat
    BY <1>2, <2>1 DEF Plans
  <2>3. task[c].plan \ {e} \in SUBSET Plans
    BY <2>1
  <2>4. Minus(task[c].total, e.size) \in Nat
    BY <2>1, <2>2 DEF Minus, Greatest
  <2>5. /\ Exists(e.name) /\ task[c].pc \in {"evict", "replace"}
        /\ StartRemoving(c, e.name, task[c].plan \ {e}, Minus(task[c].total, e.size))
    BY <1>2, <1>4 DEF Remove, At
  <2> QED
    BY <1>2, <2>2, <2>3, <2>4, <2>5, StartRemovingSteps
<1> QED
  BY <1>1, <1>3, <1>4

LEMMA ReplaceSteps ==
  ASSUME Inv, NEW c \in Clients, Replace(c)
  PROVE  TasksMove(c) /\ DirsMove /\ OthersMove
<1> DEFINE old == Final(task[c].track)
           x == [task[c] EXCEPT !.pc = "rename"]
<1>1. Typed /\ TaskOK(c) /\ LockOK(c) /\ At(c, "replace") /\ UNCHANGED <<holder, owed>> /\ Goes
  BY DEF Inv, Replace
<1>2. task[c].track \in Tracks /\ old \in Paths
  BY <1>1, TheirPaths DEF TaskOK, At
<1>3. CASE Exists(old) /\ StartRemoving(c, old, {}, 0)
  BY <1>1, <1>2, <1>3, StartRemovingSteps DEF At
<1>4. CASE To(c, "rename") /\ UNCHANGED dirs
  <2>1. x \in Tasks /\ task' = [task EXCEPT ![c] = x]
    BY <1>1, <1>4, WithPc DEF Steps, To
  <2>2. /\ x.pc = "rename" /\ x.track = task[c].track /\ x.tmp = task[c].tmp /\ x.cut = task[c].cut
    BY <1>1, TaskType DEF Tasks
  <2>3. /\ x.track \in Tracks /\ x.tmp # NoName /\ x.tmp.track = x.track /\ x.tmp.boot # 0
        /\ (~x.cut => holder[x.track] = c)
    BY <1>1, <1>2, <2>2 DEF At, TaskOK, LockOK
  <2>4. HolderType /\ OthersHold(c) /\ holder' = holder
    BY <1>1, HolderStays
  <2> HIDE DEF x
  <2>5. TasksMove(c)
    BY <2>1, <2>2, <2>3, <2>4, Advanced DEF Blocking
  <2>6. DirsMove /\ OthersMove
    BY <1>1, <1>4, DirsStay, OthersStay DEF Goes, Typed
  <2> QED
    BY <2>5, <2>6
<1> QED
  BY <1>3, <1>4 DEF Replace

LEMMA GoneWithout == [Gone EXCEPT !.files = {}] = Gone
<1>1. ASSUME NEW g \in Dirs, g.files = {}
      PROVE  [g EXCEPT !.files = {}] = g
  BY <1>1 DEF Dirs
<1> QED
  BY <1>1, GoneIs

LEMMA FinishRemovingSteps ==
  ASSUME Inv, NEW c \in Clients, FinishRemoving(c)
  PROVE  TasksMove(c) /\ DirsMove /\ OthersMove
<1> DEFINE d    == task[c].dir
           rest == dirs[d].files \ task[c].left
           y == IF dirs[d].name = task[c].path /\ rest = {} THEN Gone
                ELSE [dirs[d] EXCEPT !.files = rest]
           pc == IF task[c].tmp = NoName THEN "evict" ELSE "rename"
           x == [task[c] EXCEPT !.pc = pc, !.dir = 0, !.path = NoName, !.left = {}]
<1>1. Typed /\ TaskOK(c) /\ LockOK(c) /\ NamesOK /\ At(c, "remove") /\ UNCHANGED stream
  BY DEF Inv, FinishRemoving, Fail, Goes
<1>2. d \in DOMAIN dirs /\ task[c].path # NoName /\ (dirs[d].torn \/ dirs[d] = Gone)
  BY <1>1 DEF Inv, Removing
<1>3. dirs' = [dirs EXCEPT ![d] = y]
  BY DEF FinishRemoving
<1>4. DirsMove
  <2>1. rest \in Files
    BY <1>1, <1>2, DirType, FS_Subset DEF Files
  <2>2. CASE dirs[d] = Gone
    <3>1. rest = {} /\ dirs[d].name # task[c].path
      BY <1>2, <2>2, GoneIs
    <3>2. y = Gone
      <4>1. y = [Gone EXCEPT !.files = {}]
        BY <2>2, <3>1
      <4>2. [Gone EXCEPT !.files = {}] = Gone
        BY GoneWithout
      <4> QED
        BY <4>1, <4>2, Zenon
    <3> HIDE DEF y, d
    <3> QED
      BY <1>1, <1>2, <1>3, <3>2, GoneIs, OneMoves
  <2>3. CASE dirs[d] # Gone /\ y = Gone
    <3> HIDE DEF y, d
    <3> QED
      BY <1>1, <1>2, <1>3, <2>3, GoneIs, OneMoves
  <2>4. CASE dirs[d] # Gone /\ y # Gone
    <3>1. y = [dirs[d] EXCEPT !.files = rest] /\ dirs[d].torn
      BY <1>2, <2>4
    <3>2. dirs[d] \in Dirs
      BY <1>1, <1>2, DirType
    <3> HIDE DEF y, d, rest
    <3>3. y \in Dirs /\ y.name = dirs[d].name /\ y.torn
      BY <2>1, <3>1, <3>2 DEF Dirs
    <3> QED
      BY <1>1, <1>2, <1>3, <2>4, <3>3, OneMoves
  <2> QED
    BY <2>2, <2>3, <2>4
<1>5. CASE /\ task' = [task EXCEPT ![c].pc = pc, ![c].dir = 0, ![c].path = NoName, ![c].left = {}]
           /\ UNCHANGED <<holder, owed>> /\ Goes
  <2>0. pc \in Steps /\ NoName \in Names
    BY DEF Steps, Names
  <2> HIDE DEF pc
  <2>1. x \in Tasks
    BY <1>1, <2>0, TaskType DEF Tasks
  <2>2. task' = [task EXCEPT ![c] = x]
    BY <1>5
  <2>3. /\ x.pc = pc /\ x.track = task[c].track /\ x.tmp = task[c].tmp /\ x.cut = task[c].cut
    BY <1>1, TaskType DEF Tasks
  <2>4. /\ x.track \in Tracks /\ (~x.cut => holder[x.track] = c)
        /\ x.tmp # NoName => x.tmp.track = x.track /\ x.tmp.boot # 0
    BY <1>1, <2>3, TaskType DEF At, TaskOK, LockOK
  <2>5. HolderType /\ OthersHold(c) /\ holder' = holder
    BY <1>1, <1>5, HolderStays
  <2> HIDE DEF x
  <2>6. TasksMove(c)
    BY <2>1, <2>2, <2>3, <2>4, <2>5, Advanced DEF Blocking, pc
  <2>7. OthersMove
    BY <1>1, <1>5, OthersStay DEF Typed
  <2> QED
    BY <1>4, <2>6, <2>7
<1>6. CASE Fail(c)
  BY <1>4, <1>6, FailSteps
<1> QED
  BY <1>5, <1>6 DEF FinishRemoving

LEMMA TouchSteps ==
  ASSUME Inv, NEW c \in Clients, Touch(c)
  PROVE  TasksMove(c) /\ DirsMove /\ OthersMove
<1> DEFINE name == Final(task[c].track)
           d == DirAt(name)
           y == [dirs[d] EXCEPT !.stamp = now, !.files = @ \cup {StampFile}]
<1>1. Typed /\ TaskOK(c) /\ LockOK(c) /\ At(c, "touch") /\ UNCHANGED stream
  BY DEF Inv, Touch, Fail, Goes
<1>2. task[c].track \in Tracks /\ name \in Paths /\ ~task[c].cut /\ task[c].tmp = NoName
  BY <1>1, TheirPaths, TaskType DEF TaskOK, At, Blocking
<1>3. CASE ~Exists(name) /\ Fail(c) /\ UNCHANGED dirs
  BY <1>1, <1>3, FailSteps, DirsStay
<1>4. CASE /\ Exists(name)
           /\ dirs' = [dirs EXCEPT ![d].stamp = now, ![d].files = @ \cup {StampFile}]
           /\ IF task[c].made THEN To(c, "collect") /\ UNCHANGED holder
                              ELSE To(c, "serve") /\ Release(c)
           /\ UNCHANGED owed /\ Goes
  <2>1. d \in DOMAIN dirs /\ dirs[d].name = name /\ dirs[d] # Gone
    BY <1>2, <1>4, NamedAreThere
  <2>2. dirs' = [dirs EXCEPT ![d] = y]
    BY <1>4
  <2> HIDE DEF name, d
  <2>3. dirs[d] \in Dirs /\ dirs[d].files \in SUBSET Int /\ IsFiniteSet(dirs[d].files)
    BY <1>1, <2>1, DirType DEF Files
  <2>4. dirs[d].files \cup {StampFile} \in Files
    BY <2>3, FS_AddElement DEF Files, StampFile
  <2>5. /\ y \in Dirs /\ y.name = dirs[d].name /\ y.torn = dirs[d].torn
        /\ y.files = dirs[d].files \cup {StampFile}
    BY <1>1, <2>3, <2>4 DEF Dirs, Typed
  <2>6. IndexFile \in y.files /\ ~y.torn => Wanted(y.name.track) \subseteq y.files
    <3>1. IndexFile # StampFile /\ Whole(d) /\ dirs[d].name # NoName
      BY <1>2, <2>1, CacheConstants DEF IndexFile, StampFile, Inv, Paths
    <3> QED
      BY <2>5, <3>1 DEF Whole
  <2> HIDE DEF y
  <2>7. DirsMove
    BY <1>1, <2>1, <2>2, <2>5, <2>6, OneMoves
  <2>8. ASSUME NEW pc \in {"collect", "serve"}, To(c, pc), HolderType, OthersHold(c),
               pc = "collect" => holder' = holder
        PROVE  TasksMove(c)
    <3> DEFINE x == [task[c] EXCEPT !.pc = pc]
    <3>1. x \in Tasks /\ task' = [task EXCEPT ![c] = x]
      BY <1>1, <2>8, WithPc DEF To, Steps
    <3>2. /\ x.pc = pc /\ x.track = task[c].track /\ x.tmp = task[c].tmp /\ x.cut = task[c].cut
      BY <1>1, TaskType DEF Tasks
    <3>3. x.track \in Tracks /\ x.tmp = NoName /\ ~x.cut /\ holder[x.track] = c
      BY <1>1, <1>2, <3>2 DEF At, LockOK
    <3> HIDE DEF x
    <3> QED
      BY <2>8, <3>1, <3>2, <3>3, Advanced
  <2>9. TasksMove(c)
    BY <1>1, <1>4, <2>8, Released, HolderStays
  <2>10. OthersMove
    BY <1>1, <1>4, OthersStay DEF Typed
  <2> QED
    BY <2>7, <2>9, <2>10
<1> QED
  BY <1>3, <1>4 DEF Touch

LEMMA GenerateSteps ==
  ASSUME Inv, NEW c \in Clients, Generate(c)
  PROVE  TasksMove(c) /\ DirsMove /\ OthersMove
<1> DEFINE t == task[c].track
           name == Tmp(t)
           old == Named(name)
           fresh == [name |-> name, files |-> {}, stamp |-> now, torn |-> Shared(c)]
           kept == [d \in DOMAIN dirs |-> IF d \in old THEN Gone ELSE dirs[d]]
           n == Len(dirs)
           x == [task[c] EXCEPT !.pc = "remux", !.tmp = name]
<1>1. /\ Typed /\ TaskOK(c) /\ LockOK(c) /\ NamesOK /\ At(c, "generate")
      /\ UNCHANGED <<holder, owed>> /\ Goes
  BY DEF Inv, Generate
<1>2. t \in Tracks /\ task[c].tmp = NoName
  BY <1>1, TaskType DEF TaskOK, At
<1>3. /\ name \in Paths /\ name.track = t /\ name.boot # 0 /\ name # NoName
  BY <1>1, <1>2, TheirPaths
<1>4. /\ dirs' = Append(kept, fresh)
      /\ task' = [task EXCEPT ![c].pc = "remux", ![c].tmp = name]
  BY DEF Generate
<1>5. TasksMove(c)
  <2> HIDE DEF name, t
  <2>0. name \in Names
    BY <1>3 DEF Names, Paths
  <2>1. x \in Tasks
    BY <1>1, <2>0, TaskType DEF Tasks, Steps
  <2>2. task' = [task EXCEPT ![c] = x]
    BY <1>4
  <2>3. /\ x.pc = "remux" /\ x.track = task[c].track /\ x.tmp = name /\ x.cut = task[c].cut
    BY <1>1, TaskType DEF Tasks
  <2>4. HolderType /\ OthersHold(c) /\ holder' = holder
    BY <1>1, HolderStays
  <2>5. ~x.cut => holder[x.track] = c
    BY <1>1, <2>3 DEF LockOK, At
  <2>6. x.track = t /\ x.cut => x.pc \in Blocking
    BY <2>3 DEF Blocking
  <2>7. x.track = t
    BY <2>3 DEF t
  <2> HIDE DEF x
  <2> QED
    BY <1>2, <1>3, <2>1, <2>2, <2>3, <2>4, <2>5, <2>6, <2>7, Advanced
<1>6. fresh \in Dirs
  <2>1. Shared(c) \in BOOLEAN
    BY DEF Shared
  <2>2. name \in Names /\ now \in 0..MaxClock
    BY <1>1, <1>3 DEF Names, Paths, Typed
  <2> HIDE DEF name
  <2> QED
    BY <2>1, <2>2, FS_EmptySet DEF Dirs, Files
<1>7. /\ fresh.name = name /\ fresh.files = {} /\ fresh.torn = Shared(c)
      /\ fresh # Gone
  BY <1>3, GoneIs
<1> HIDE DEF fresh, name
<1>8. /\ n \in Nat /\ DOMAIN dirs = 1..n /\ DOMAIN dirs' = 1..(n + 1) /\ dirs' \in Seq(Dirs)
      /\ dirs'[n + 1] = fresh
      /\ \A d \in 1..n : dirs'[d] = IF d \in old THEN Gone ELSE dirs[d]
  <2>1. dirs \in Seq(Dirs) /\ n \in Nat /\ DOMAIN dirs = 1..n
    BY <1>1 DEF Typed
  <2>2. kept \in Seq(Dirs) /\ Len(kept) = n
    <3>1. \A d \in 1..n : kept[d] \in Dirs
      BY <2>1, GoneIs
    <3> HIDE DEF old
    <3> QED
      BY <2>1, <3>1
  <2>3. \A d \in 1..n : kept[d] = IF d \in old THEN Gone ELSE dirs[d]
    BY <2>1
  <2> HIDE DEF kept, old, n
  <2> QED
    BY <1>4, <1>6, <2>1, <2>2, <2>3
<1>9. \A d \in 1..n : d \in old <=> dirs[d].name = name
  BY <1>8 DEF Named
<1> HIDE DEF old, kept, n
<1>10. NamesOK'
  <2>1. ASSUME NEW d \in DOMAIN dirs', dirs'[d].name = NoName
        PROVE  dirs'[d] = Gone
    BY <2>1, <1>1, <1>3, <1>7, <1>8 DEF NamesOK
  <2>2. \A d \in 1..n : dirs'[d].name # name
    BY <1>3, <1>8, <1>9, GoneIs
  <2>3. ASSUME NEW d \in 1..n, NEW e \in 1..n, dirs'[d].name = dirs'[e].name, dirs'[d].name # NoName
        PROVE  d = e
    BY <2>3, <1>1, <1>8, GoneIs DEF NamesOK
  <2>4. ASSUME NEW d \in DOMAIN dirs', NEW e \in DOMAIN dirs', dirs'[d].name = dirs'[e].name,
               dirs'[d].name # NoName
        PROVE  d = e
    <3>1. CASE d \in 1..n /\ e \in 1..n
      BY <2>3, <2>4, <3>1
    <3>2. CASE ~(d \in 1..n /\ e \in 1..n)
      <4>1. \A i \in DOMAIN dirs' : i \in 1..n \/ i = n + 1
        BY <1>8
      <4> QED
        BY <2>2, <2>4, <3>2, <4>1, <1>7, <1>8
    <3> QED
      BY <3>1, <3>2
  <2> QED
    BY <2>1, <2>4 DEF NamesOK
<1>11. ASSUME NEW d \in DOMAIN dirs'
       PROVE  Whole(d)'
  <2>1. \A u : Wanted(u)' = Wanted(u)
    BY <1>1 DEF Wanted, SegmentCount, Goes
  <2>2. CASE d = n + 1
    BY <2>2, <1>7, <1>8 DEF Whole
  <2>3. CASE d # n + 1
    <3>1. d \in 1..n /\ Whole(d)
      BY <2>3, <1>8 DEF Inv
    <3>2. dirs'[d] = Gone \/ dirs'[d] = dirs[d]
      BY <1>8, <3>1
    <3> QED
      BY <2>1, <3>1, <3>2, GoneIs DEF Whole
  <2> QED
    BY <2>2, <2>3
<1>12. ASSUME NEW d \in DOMAIN dirs
       PROVE  Moves(d)
  BY <1>8 DEF Moves
<1>13. ASSUME NEW d \in DOMAIN dirs' \ DOMAIN dirs
       PROVE  IsNew(d)
  <2>1. d = n + 1
    BY <1>8
  <2> SUFFICES ASSUME ~Shared(c), NEW e \in Clients, At(e, "write"), task[e].tmp = name
               PROVE  FALSE
    BY <2>1, <1>7, <1>8 DEF IsNew
  <2>2. e # c
    BY <1>1 DEF At
  <2>3. ~task[e].cut /\ ~task[c].cut
    BY <2>2 DEF Shared, name
  <2>4. task[e].track = t
    BY <1>3, CacheConstants DEF Inv, TaskOK, At
  <2>5. holder[t] = c
    BY <1>1, <2>3 DEF LockOK, At
  <2>6. holder[t] = e
    BY <2>3, <2>4 DEF Inv, LockOK, At
  <2> QED
    BY <2>2, <2>5, <2>6
<1>14. DirsMove
  BY <1>8, <1>10, <1>11, <1>12, <1>13 DEF DirsMove
<1>15. OthersMove
  BY <1>1, OthersStay DEF Typed
<1> QED
  BY <1>5, <1>14, <1>15

\* The files that a generation writes, from the k-th on.
LEMMA Suffixes ==
  ASSUME NEW s \in Seq(Int), NEW k \in 1..Len(s)
  PROVE  /\ Head(SubSeq(s, k, Len(s))) = s[k]
         /\ Tail(SubSeq(s, k, Len(s))) = SubSeq(s, k + 1, Len(s))
         /\ Tail(SubSeq(s, k, Len(s))) # <<>> => k + 1 \in 1..Len(s)
         /\ SubSeq(s, k, Len(s)) \in Seq(Int)
         /\ Tail(SubSeq(s, k, Len(s))) \in Seq(Int)
<1> DEFINE n == Len(s)
           u == SubSeq(s, k, n)
           v == SubSeq(s, k + 1, n)
<1>0. n \in Nat
  OBVIOUS
<1>1. u \in Seq(Int) /\ Len(u) = n - k + 1 /\ \A i \in 1..(n - k + 1) : u[i] = s[k + i - 1]
  OBVIOUS
<1>2. v \in Seq(Int) /\ Len(v) = n - k /\ \A i \in 1..(n - k) : v[i] = s[k + i]
  OBVIOUS
<1> HIDE DEF u, v, n
<1>3. Head(u) = s[k] /\ Tail(u) \in Seq(Int) /\ Len(Tail(u)) = n - k
  BY <1>0, <1>1 DEF n
<1>4. \A i \in 1..(n - k) : Tail(u)[i] = s[k + i]
  BY <1>0, <1>1 DEF n
<1>5. Tail(u) = v
  <2>1. \A i \in 1..Len(v) : Tail(u)[i] = v[i]
    BY <1>0, <1>2, <1>4
  <2>2. Len(Tail(u)) = Len(v)
    BY <1>2, <1>3
  <2> QED
    BY <1>2, <1>3, <2>1, <2>2, SeqEqual
<1>6. Tail(u) # <<>> => k + 1 \in 1..n
  BY <1>0, <1>3 DEF n
<1> QED
  BY <1>1, <1>3, <1>5, <1>6 DEF u, v, n

LEMMA RemuxSourceSteps ==
  ASSUME Inv, NEW c \in Clients, RemuxSource(c)
  PROVE  TasksMove(c) /\ DirsMove /\ OthersMove
<1> DEFINE t == task[c].track
           files == OutputFiles(t)
           n == SegmentCount(t)
           x == [task[c] EXCEPT !.pc = "write", !.todo = files]
<1>1. /\ Typed /\ TaskOK(c) /\ LockOK(c) /\ SourcesOK /\ At(c, "remux")
      /\ UNCHANGED <<dirs, stream>>
  BY DEF Inv, RemuxSource, Fail, Goes
<1>2. DirsMove
  BY <1>1, DirsStay
<1>3. CASE Fail(c)
  BY <1>2, <1>3, FailSteps
<1>4. CASE /\ stream[t].ok
           /\ task' = [task EXCEPT ![c].pc = "write", ![c].todo = files]
           /\ UNCHANGED <<holder, owed>> /\ Goes
  <2>1. t \in Tracks /\ task[c].tmp # NoName
    BY <1>1 DEF TaskOK, At
  <2>2. n \in Nat /\ files \in Seq(Int) /\ Len(files) = n + 2
    BY <1>1, <2>1, StreamType, OutputFilesAre
  <2> HIDE DEF t, files, n
  <2>4. x \in Tasks
    BY <1>1, <2>2, TaskType DEF Tasks, Steps
  <2>5. task' = [task EXCEPT ![c] = x]
    BY <1>4
  <2>6. /\ x.pc = "write" /\ x.track = task[c].track /\ x.tmp = task[c].tmp /\ x.cut = task[c].cut
        /\ x.todo = files
    BY <1>1, TaskType DEF Tasks
  <2> HIDE DEF x
  <2>7. task' \in [Clients -> Tasks] /\ task'[c] = x /\ \A e \in Clients \ {c} : Kept(e)
    BY <1>1, <2>4, <2>5, Updated, Zenon
  <2>8. HolderType /\ OthersHold(c) /\ holder' = holder
    BY <1>1, <1>4, HolderStays
  <2>9. TaskOK(c)'
    BY <1>1, <1>4, <2>6, <2>7 DEF TaskOK, At, Blocking, t
  <2>10. LockOK(c)' /\ Removing(c)'
    BY <1>1, <2>6, <2>7, <2>8 DEF LockOK, Removing, At
  <2>11. Written(c)'
    <3>1. /\ task'[c].todo = files /\ SegmentCount(task[c].track)' = n
          /\ OutputFiles(task[c].track)' = files
      BY <1>1, <2>6, <2>7 DEF SegmentCount, OutputFiles, t, n, files
    <3>2. files = SubSeq(files, 1, n + 2)
      BY <2>2
    <3>3. /\ 1 \in 1..(SegmentCount(task[c].track)' + 2)
          /\ task'[c].todo = SubSeq(OutputFiles(task[c].track)', 1, SegmentCount(task[c].track)' + 2)
          /\ \A j \in 1..(1 - 1) : FALSE
      BY <2>2, <3>1, <3>2
    <3> QED
      BY <3>3 DEF Written
  <2>12. OthersMove
    BY <1>1, <1>4, OthersStay DEF Typed
  <2> QED
    BY <1>2, <2>7, <2>8, <2>9, <2>10, <2>11, <2>12 DEF TasksMove
<1> QED
  BY <1>3, <1>4 DEF RemuxSource

LEMMA WriteSteps ==
  ASSUME Inv, NEW c \in Clients, Write(c)
  PROVE  TasksMove(c) /\ DirsMove /\ OthersMove
<1> DEFINE t == task[c].track
           name == task[c].tmp
           d == DirAt(name)
           files == OutputFiles(t)
           n == SegmentCount(t)
           f == Head(task[c].todo)
           y == [dirs[d] EXCEPT !.files = @ \cup {f}]
           pc == IF Tail(task[c].todo) = <<>> THEN "replace" ELSE task[c].pc
           x == [task[c] EXCEPT !.todo = Tail(task[c].todo), !.pc = pc]
<1>1. /\ Typed /\ TaskOK(c) /\ LockOK(c) /\ Written(c) /\ SourcesOK /\ At(c, "write")
      /\ UNCHANGED stream
  BY DEF Inv, Write, Fail, Goes
<1>2. CASE ~Exists(name) /\ Fail(c) /\ UNCHANGED dirs
  BY <1>1, <1>2, FailSteps, DirsStay
<1>3. CASE /\ Exists(name)
           /\ dirs' = [dirs EXCEPT ![d].files = @ \cup {f}]
           /\ task' = [task EXCEPT ![c].todo = Tail(@), ![c].pc = IF Tail(task[c].todo) = <<>>
                                                                  THEN "replace" ELSE @]
           /\ UNCHANGED <<holder, owed>> /\ Goes
  <2>1. /\ t \in Tracks /\ name \in Paths /\ name # NoName /\ name.track = t /\ name.boot # 0
        /\ stream[t].ok
    BY <1>1, TaskType DEF TaskOK, At, Names, Paths
  <2>2. /\ n \in Nat /\ files \in Seq(Int) /\ Len(files) = n + 2
        /\ \A j \in 1..n : files[j] = j - 1
        /\ files[n + 1] = InitFile /\ files[n + 2] = IndexFile
    BY <1>1, <2>1, StreamType, OutputFilesAre
  <2>3. PICK k \in 1..(n + 2) :
          /\ task[c].todo = SubSeq(files, k, n + 2)
          /\ \A e \in Named(name) : dirs[e].torn \/ \A j \in 1..(k - 1) : files[j] \in dirs[e].files
    BY <1>1 DEF Written
  <2>4. /\ d \in DOMAIN dirs /\ dirs[d].name = name /\ dirs[d] # Gone
        /\ \A e \in DOMAIN dirs : dirs[e].name = name => e = d
    BY <1>3, <2>1, NamedAreThere
  <2>5. dirs[d].torn \/ \A j \in 1..(k - 1) : files[j] \in dirs[d].files
    BY <2>3, <2>4 DEF Named
  <2> HIDE DEF d
  <2>6. dirs' = [dirs EXCEPT ![d] = y] /\ task' = [task EXCEPT ![c] = x]
    BY <1>3
  <2>7. Wanted(t) = {files[j] : j \in 1..(n + 2)}
    <3> HIDE DEF files, n, t
    <3>1. Wanted(t) = {IndexFile, InitFile} \cup 0..(n - 1)
      BY DEF Wanted, n, SegmentCount
    <3>2. ASSUME NEW j \in 0..(n - 1)
          PROVE  j + 1 \in 1..(n + 2) /\ files[j + 1] = j
      BY <2>2
    <3>3. ASSUME NEW j \in 1..(n + 2)
          PROVE  files[j] \in {IndexFile, InitFile} \cup 0..(n - 1)
      <4>1. j \in 1..n \/ j = n + 1 \/ j = n + 2
        BY <2>2
      <4> QED
        BY <2>2, <4>1
    <3>4. n + 1 \in 1..(n + 2) /\ n + 2 \in 1..(n + 2)
      BY <2>2
    <3> QED
      BY <2>2, <3>1, <3>2, <3>3, <3>4
  <2> HIDE DEF files, n, t, name
  <2>8. /\ f = files[k] /\ f \in Int /\ Tail(task[c].todo) \in Seq(Int)
        /\ Tail(task[c].todo) = SubSeq(files, k + 1, n + 2)
        /\ Tail(task[c].todo) # <<>> => k + 1 \in 1..(n + 2)
    <3>1. k \in 1..Len(files)
      BY <2>2
    <3>2. files[k] \in Int
      BY <2>2, <3>1
    <3> QED
      BY <2>2, <2>3, <3>1, <3>2, Suffixes
  <2> HIDE DEF f
  <2>9. dirs[d] \in Dirs /\ dirs[d].files \in SUBSET Int /\ IsFiniteSet(dirs[d].files)
    BY <1>1, <2>4, DirType DEF Files
  <2>10. dirs[d].files \cup {f} \in Files
    BY <2>8, <2>9, FS_AddElement DEF Files
  <2>11. /\ y \in Dirs /\ y.name = name /\ y.torn = dirs[d].torn
         /\ y.files = dirs[d].files \cup {f}
    BY <2>4, <2>9, <2>10 DEF Dirs
  <2>12. y.torn \/ \A j \in 1..k : files[j] \in y.files
    <3>1. \A j \in 1..k : j \in 1..(k - 1) \/ j = k
      BY <2>2
    <3> HIDE DEF y
    <3> QED
      BY <2>5, <2>8, <2>11, <3>1
  <2> HIDE DEF y
  <2>13. IndexFile \in y.files /\ ~y.torn => Wanted(y.name.track) \subseteq y.files
    <3> SUFFICES ASSUME IndexFile \in y.files, ~y.torn
                 PROVE  Wanted(t) \subseteq y.files
      BY <2>1, <2>11
    <3>1. CASE IndexFile \in dirs[d].files
      <4>1. Whole(d) /\ ~dirs[d].torn /\ dirs[d].name # NoName
        BY <2>1, <2>4, <2>11 DEF Inv
      <4> QED
        BY <2>1, <2>4, <2>11, <3>1, <4>1 DEF Whole
    <3>2. CASE IndexFile \notin dirs[d].files
      <4>1. files[k] = IndexFile
        BY <2>8, <2>11, <3>2
      <4>2. k = n + 2
        <5>1. k \in 1..n \/ k = n + 1 \/ k = n + 2
          BY <2>2
        <5> QED
          <6>1. k \in 1..n => files[k] # -1
            <7> SUFFICES ASSUME k \in 1..n
                         PROVE  files[k] # -1
              OBVIOUS
            <7>1. files[k] = k - 1 /\ k - 1 >= 0
              BY <2>2
            <7> QED
              BY <2>2, <7>1
          <6>2. k # n + 1
            BY <2>2, <4>1 DEF IndexFile, InitFile
          <6> QED
            BY <4>1, <5>1, <6>1, <6>2 DEF IndexFile
      <4> QED
        BY <2>7, <2>12, <4>2
    <3> QED
      BY <3>1, <3>2
  <2>14. DirsMove
    BY <1>1, <2>4, <2>6, <2>11, <2>13, OneMoves
  <2>15. pc \in {"write", "replace"} /\ (pc = "write" => Tail(task[c].todo) # <<>>)
    BY <1>1 DEF At
  <2> HIDE DEF pc
  <2>16. x \in Tasks
    <3> DEFINE r1 == [task[c] EXCEPT !.todo = Tail(task[c].todo)]
               r2 == [r1 EXCEPT !.pc = pc]
    <3>0. task[c] \in Tasks
      BY <1>1, TaskType
    <3>1. r1 \in Tasks
      BY <3>0, TaskWith, <2>8
    <3>2. r2 \in Tasks
      <4> HIDE DEF r1
      <4> QED
        BY <3>1, TaskWith, <2>15 DEF Steps
    <3>3. x = r2
      OBVIOUS
    <3> HIDE DEF x, r2
    <3> QED
      BY <3>2, <3>3
  <2>17. /\ x.pc = pc /\ x.track = task[c].track /\ x.tmp = task[c].tmp /\ x.cut = task[c].cut
         /\ x.todo = Tail(task[c].todo)
    BY <1>1, TaskType DEF Tasks
  <2> HIDE DEF x
  <2>18. task' \in [Clients -> Tasks] /\ task'[c] = x /\ \A e \in Clients \ {c} : Kept(e)
    BY <1>1, <2>6, <2>16, Updated, Zenon
  <2>19. HolderType /\ OthersHold(c) /\ holder' = holder
    BY <1>1, <1>3, HolderStays
  <2>20. TaskOK(c)'
    BY <1>1, <2>1, <2>15, <2>17, <2>18 DEF TaskOK, Blocking, t, name
  <2>21. LockOK(c)' /\ Removing(c)'
    BY <1>1, <2>15, <2>17, <2>18, <2>19 DEF LockOK, Removing, At
  <2>22. Written(c)'
    <3> SUFFICES ASSUME pc = "write"
                 PROVE  Written(c)'
      BY <2>17, <2>18 DEF Written, At
    <3>1. /\ task'[c].todo = Tail(task[c].todo) /\ SegmentCount(task[c].track)' = n
          /\ OutputFiles(task[c].track)' = files /\ task'[c].tmp = name
      BY <1>1, <2>17, <2>18 DEF SegmentCount, OutputFiles, t, n, files, name
    <3>2. k + 1 \in 1..(n + 2) /\ (k + 1) - 1 = k
      BY <2>8, <2>15
    <3>3. ASSUME NEW e \in DOMAIN dirs', dirs'[e].name = name
          PROVE  dirs'[e].torn \/ \A j \in 1..((k + 1) - 1) : files[j] \in dirs'[e].files
      <4>1. DOMAIN dirs' = DOMAIN dirs /\ dirs'[d] = y /\ \A i \in DOMAIN dirs : i # d => dirs'[i] = dirs[i]
        BY <1>1, <2>4, <2>6 DEF Typed
      <4>2. e = d
        BY <2>4, <3>3, <4>1
      <4> QED
        BY <2>12, <3>2, <4>1, <4>2
    <3>4. /\ k + 1 \in 1..(SegmentCount(task[c].track)' + 2)
          /\ task'[c].todo = SubSeq(OutputFiles(task[c].track)', k + 1, SegmentCount(task[c].track)' + 2)
          /\ \A e \in Named(task[c].tmp)' :
                \/ dirs'[e].torn
                \/ \A j \in 1..((k + 1) - 1) : OutputFiles(task[c].track)'[j] \in dirs'[e].files
      BY <2>8, <3>1, <3>2, <3>3 DEF Named
    <3> QED
      BY <3>4 DEF Written
  <2>23. OthersMove
    BY <1>1, <1>3, OthersStay DEF Typed
  <2> QED
    BY <2>14, <2>18, <2>19, <2>20, <2>21, <2>22, <2>23 DEF TasksMove
<1> QED
  BY <1>2, <1>3 DEF Write

LEMMA RenameSteps ==
  ASSUME Inv, NEW c \in Clients, Rename(c)
  PROVE  TasksMove(c) /\ DirsMove /\ OthersMove
<1> DEFINE t == task[c].track
           name == Final(t)
           old == Named(name)
           tmp == task[c].tmp
           d == DirAt(tmp)
           kept == [e \in DOMAIN dirs |-> IF e \in old THEN Gone ELSE dirs[e]]
           x == [task[c] EXCEPT !.pc = "open", !.tmp = NoName, !.made = TRUE]
<1>1. /\ Typed /\ TaskOK(c) /\ LockOK(c) /\ NamesOK /\ At(c, "rename") /\ UNCHANGED stream
  BY DEF Inv, Rename, Fail, Goes
<1>2. /\ t \in Tracks /\ tmp \in Paths /\ tmp # NoName /\ tmp.track = t /\ tmp.boot # 0
  BY <1>1, TaskType DEF TaskOK, At, Names, Paths
<1>3. CASE Fail(c) /\ UNCHANGED dirs
  BY <1>1, <1>3, FailSteps, DirsStay
<1>4. CASE /\ Exists(tmp)
           /\ dirs' = [kept EXCEPT ![d].name = name]
           /\ task' = [task EXCEPT ![c].pc = "open", ![c].tmp = NoName, ![c].made = TRUE]
           /\ UNCHANGED <<holder, owed>> /\ Goes
  <2>1. /\ name \in Paths /\ name.track = t /\ name.boot = 0 /\ name # NoName
    BY <1>1, <1>2, TheirPaths
  <2>2. /\ d \in DOMAIN dirs /\ dirs[d].name = tmp /\ dirs[d] # Gone
        /\ \A e \in DOMAIN dirs : dirs[e].name = tmp => e = d
    BY <1>2, <1>4, NamedAreThere
  <2>3. \A e \in DOMAIN dirs : e \in old <=> dirs[e].name = name
    BY DEF Named
  <2>4. d \notin old
    BY <1>2, <2>1, <2>2, <2>3
  <2> DEFINE y == [dirs[d] EXCEPT !.name = name]
  <2>5. dirs[d] \in Dirs
    BY <1>1, <2>2, DirType
  <2>6. name \in Names
    BY <2>1 DEF Paths, Names
  <2> HIDE DEF d, old, name, tmp, t
  <2>7. y \in Dirs /\ y.name = name /\ y.files = dirs[d].files /\ y.torn = dirs[d].torn
    BY <2>5, <2>6 DEF Dirs
  <2>8. /\ DOMAIN dirs' = DOMAIN dirs /\ dirs' \in Seq(Dirs) /\ dirs'[d] = y
        /\ \A e \in DOMAIN dirs : e # d => dirs'[e] = IF e \in old THEN Gone ELSE dirs[e]
    <3>1. dirs \in Seq(Dirs) /\ Len(dirs) \in Nat /\ DOMAIN dirs = 1..Len(dirs)
      BY <1>1 DEF Typed
    <3>2. kept \in Seq(Dirs) /\ DOMAIN kept = DOMAIN dirs /\ kept[d] = dirs[d]
      <4>1. \A e \in 1..Len(dirs) : dirs[e] \in Dirs
        BY <3>1
      <4> HIDE DEF Dirs
      <4> QED
        BY <2>2, <2>4, <3>1, <4>1, GoneIs
    <3>3. \A e \in DOMAIN dirs : kept[e] = IF e \in old THEN Gone ELSE dirs[e]
      OBVIOUS
    <3>4. dirs' = [kept EXCEPT ![d] = y]
      BY <1>4, <3>2
    <3> HIDE DEF kept, y, Dirs
    <3> QED
      BY <2>2, <2>7, <3>2, <3>3, <3>4
  <2> HIDE DEF y, kept
  <2>9. NamesOK'
    <3>1. ASSUME NEW e \in DOMAIN dirs', dirs'[e].name = NoName
          PROVE  dirs'[e] = Gone
      <4>1. e # d
        BY <2>1, <2>7, <2>8, <3>1
      <4> QED
        BY <1>1, <2>8, <3>1, <4>1 DEF NamesOK
    <3>2. ASSUME NEW e \in DOMAIN dirs, e # d
          PROVE  dirs'[e].name # name
      BY <2>1, <2>3, <2>8, <3>2, GoneIs
    <3>3. ASSUME NEW e \in DOMAIN dirs', NEW f \in DOMAIN dirs', dirs'[e].name = dirs'[f].name,
                 dirs'[e].name # NoName
          PROVE  e = f
      <4>1. CASE e = d \/ f = d
        BY <2>7, <2>8, <3>2, <3>3, <4>1
      <4>2. CASE e # d /\ f # d
        BY <1>1, <2>8, <3>3, <4>2, GoneIs DEF NamesOK
      <4> QED
        BY <4>1, <4>2
    <3> QED
      BY <3>1, <3>3 DEF NamesOK
  <2>10. ASSUME NEW e \in DOMAIN dirs'
         PROVE  Whole(e)'
    <3>1. \A u : Wanted(u)' = Wanted(u)
      BY <1>1 DEF Wanted, SegmentCount
    <3>2. CASE e = d
      <4>1. Whole(d) /\ dirs[d].name # NoName
        BY <1>2, <2>2 DEF Inv
      <4> QED
        BY <1>2, <2>1, <2>2, <2>7, <2>8, <3>1, <3>2, <4>1 DEF Whole
    <3>3. CASE e # d
      <4>1. Whole(e) /\ (dirs'[e] = Gone \/ dirs'[e] = dirs[e])
        BY <2>8, <3>3 DEF Inv
      <4> QED
        BY <3>1, <4>1, GoneIs DEF Whole
    <3> QED
      BY <3>2, <3>3
  <2>11. ASSUME NEW e \in DOMAIN dirs
         PROVE  Moves(e)
    <3>1. CASE e = d
      BY <1>2, <2>2, <2>7, <2>8, <3>1 DEF Moves, name
    <3>2. CASE e # d
      BY <2>8, <3>2 DEF Moves
    <3> QED
      BY <3>1, <3>2
  <2>12. DirsMove
    BY <2>8, <2>9, <2>10, <2>11 DEF DirsMove
  <2>13. x \in Tasks
    <3> DEFINE r1 == [task[c] EXCEPT !.pc = "open"]
               r2 == [r1 EXCEPT !.tmp = NoName]
               r3 == [r2 EXCEPT !.made = TRUE]
    <3>0. task[c] \in Tasks
      BY <1>1, TaskType
    <3>1. r1 \in Tasks
      BY <3>0, TaskWith DEF Steps
    <3>2. r2 \in Tasks
      <4> HIDE DEF r1
      <4> QED
        BY <3>1, TaskWith DEF Names
    <3>3. r3 \in Tasks
      <4> HIDE DEF r2
      <4> QED
        BY <3>2, TaskWith
    <3>4. x = r3
      OBVIOUS
    <3> HIDE DEF x, r3
    <3> QED
      BY <3>3, <3>4
  <2>14. task' = [task EXCEPT ![c] = x]
    BY <1>4
  <2>15. /\ x.pc = "open" /\ x.track = task[c].track /\ x.tmp = NoName /\ x.cut = task[c].cut
    BY <1>1, TaskType DEF Tasks
  <2>16. HolderType /\ OthersHold(c) /\ holder' = holder
    BY <1>1, <1>4, HolderStays
  <2>17. ~x.cut => holder[x.track] = c
    BY <1>1, <2>15 DEF LockOK, At
  <2>18. x.track \in Tracks
    BY <1>2, <2>15 DEF t
  <2> HIDE DEF x
  <2>19. TasksMove(c)
    BY <2>13, <2>14, <2>15, <2>16, <2>17, <2>18, Advanced DEF Blocking
  <2>20. OthersMove
    BY <1>1, <1>4, OthersStay DEF Typed
  <2> QED
    BY <2>12, <2>19, <2>20
<1> QED
  BY <1>3, <1>4 DEF Rename

-----------------------------------------------------------------------------
(* Clients, the clock and crashes *)

LEMMA RequestSteps ==
  ASSUME Inv, NEW c \in Clients, NEW t \in Tracks, Request(c, t)
  PROVE  TasksMove(c) /\ DirsMove /\ OthersMove
<1> DEFINE lone == \A e \in Clients \ {c} : At(e, "idle")
           x == [NoTask EXCEPT !.pc = "lock", !.track = t, !.alone = lone]
<1>1. /\ Typed /\ UNCHANGED <<source, stream, dirs, holder, now, boot, owed, crashes, hangups>>
      /\ budget > 0 /\ budget' = budget - 1
      /\ task' = [d \in Clients |-> IF d = c THEN x ELSE [task[d] EXCEPT !.alone = FALSE]]
  BY DEF Inv, Request
<1>2. lone \in BOOLEAN
  OBVIOUS
<1> HIDE DEF lone
<1>3. x \in Tasks
  BY <1>2, NoTaskType DEF Tasks, Steps
<1>4. x.pc = "lock" /\ x.track = t /\ x.tmp = NoName /\ x.cut = FALSE
  BY DEF NoTask
<1> HIDE DEF x
<1>5. ASSUME NEW e \in Clients
      PROVE  /\ [task[e] EXCEPT !.alone = FALSE] \in Tasks
             /\ e # c => Kept(e)
  <2>1. task[e] \in Tasks
    BY <1>1, TaskType
  <2>2. [task[e] EXCEPT !.alone = FALSE] \in Tasks
    BY <2>1 DEF Tasks
  <2>3. e # c => task'[e] = [task[e] EXCEPT !.alone = FALSE]
    BY <1>1
  <2> QED
    BY <2>1, <2>2, <2>3 DEF Tasks, Kept
<1>6. task' \in [Clients -> Tasks] /\ task'[c] = x
  <2> HIDE DEF Tasks
  <2> QED
    BY <1>1, <1>3, <1>5
<1>7. HolderType /\ OthersHold(c)
  BY <1>1, HolderStays
<1>8. TaskOK(c)' /\ LockOK(c)' /\ Written(c)' /\ Removing(c)'
  BY <1>4, <1>6 DEF TaskOK, LockOK, Written, Removing, At
<1>9. DirsMove
  BY <1>1, DirsStay
<1>10. OthersMove
  BY <1>1 DEF OthersMove, Typed
<1> QED
  BY <1>5, <1>6, <1>7, <1>8, <1>9, <1>10 DEF TasksMove

LEMMA HangUpSteps ==
  ASSUME Inv, NEW c \in Clients, HangUp(c)
  PROVE  TasksMove(c) /\ DirsMove /\ OthersMove
<1> DEFINE x == [task[c] EXCEPT !.cut = TRUE, !.alone = FALSE]
<1>1. /\ Typed /\ TaskOK(c) /\ Written(c) /\ Removing(c) /\ Release(c)
      /\ UNCHANGED <<source, stream, dirs, now, boot, budget, crashes>>
      /\ hangups > 0 /\ hangups' = hangups - 1 /\ owed' = TRUE
      /\ task' = [task EXCEPT ![c] = IF task[c].pc \in Blocking THEN x ELSE NoTask]
  BY DEF Inv, HangUp
<1>2. DirsMove
  BY <1>1, DirsStay
<1>3. OthersMove
  BY <1>1 DEF OthersMove, Typed
<1>4. CASE task[c].pc \notin Blocking
  <2>1. task' = [task EXCEPT ![c] = NoTask]
    BY <1>1, <1>4
  <2> QED
    BY <1>1, <1>2, <1>3, <2>1, Ended
<1>5. CASE task[c].pc \in Blocking
  <2>1. x \in Tasks
    BY <1>1, TaskType DEF Tasks
  <2>2. task' = [task EXCEPT ![c] = x]
    BY <1>1, <1>5
  <2>3. /\ x.pc = task[c].pc /\ x.track = task[c].track /\ x.tmp = task[c].tmp /\ x.cut = TRUE
        /\ x.todo = task[c].todo /\ x.dir = task[c].dir /\ x.path = task[c].path
    BY <1>1, TaskType DEF Tasks
  <2> HIDE DEF x
  <2>4. task' \in [Clients -> Tasks] /\ task'[c] = x /\ \A e \in Clients \ {c} : Kept(e)
    BY <1>1, <2>1, <2>2, Updated, Zenon
  <2>5. TaskOK(c)' /\ LockOK(c)'
    BY <1>1, <1>5, <2>3, <2>4 DEF TaskOK, LockOK
  <2>6. Written(c)'
    <3>1. /\ task'[c].pc = task[c].pc /\ task'[c].todo = task[c].todo /\ task'[c].tmp = task[c].tmp
          /\ SegmentCount(task[c].track)' = SegmentCount(task[c].track)
          /\ OutputFiles(task[c].track)' = OutputFiles(task[c].track)
          /\ Named(task[c].tmp)' = Named(task[c].tmp) /\ dirs' = dirs
      BY <1>1, <2>3, <2>4 DEF SegmentCount, OutputFiles, Named
    <3> QED
      BY <1>1, <3>1 DEF Written, At
  <2>7. Removing(c)'
    BY <1>1, <2>3, <2>4 DEF Removing, At
  <2>8. HolderType /\ OthersHold(c)
    BY <1>1, Released
  <2> QED
    BY <1>2, <1>3, <2>4, <2>5, <2>6, <2>7, <2>8 DEF TasksMove
<1> QED
  BY <1>4, <1>5

LEMMA UnchangedInv ==
  ASSUME Inv, UNCHANGED <<source, stream, dirs, holder, task>>,
         now' \in 0..MaxClock, boot' \in Nat \ {0}, owed' \in BOOLEAN,
         budget' \in Nat, crashes' \in Nat, hangups' \in Nat
  PROVE  Inv'
<1>1. SourcesOK' /\ Typed' /\ NamesOK'
  BY DEF Inv, SourcesOK, Typed, NamesOK
<1>2. \A c \in Clients : TaskOK(c)' /\ LockOK(c)' /\ Removing(c)'
  BY DEF Inv, TaskOK, LockOK, Removing, At
<1>3. \A c \in Clients : Written(c)'
  BY DEF Inv, Written, At, Named, OutputFiles, SegmentCount
<1>4. \A d \in DOMAIN dirs' : Whole(d)'
  BY DEF Inv, Whole, Wanted, SegmentCount
<1> QED
  BY <1>1, <1>2, <1>3, <1>4 DEF Inv

LEMMA CrashInv ==
  ASSUME Inv, Crash
  PROVE  Inv'
<1>1. /\ Typed /\ SourcesOK /\ NamesOK /\ UNCHANGED <<source, stream, dirs, now, budget, hangups>>
      /\ task' = [c \in Clients |-> NoTask] /\ holder' = [t \in Tracks |-> NoClient]
      /\ crashes > 0 /\ crashes' = crashes - 1 /\ boot' = boot + 1 /\ owed' = TRUE
  BY DEF Inv, Crash
<1>2. SourcesOK' /\ NamesOK'
  BY <1>1 DEF SourcesOK, NamesOK
<1>3. Typed'
  <2>1. task' \in [Clients -> Tasks]
    BY <1>1, NoTaskType
  <2>2. /\ now' \in 0..MaxClock /\ boot' \in Nat \ {0} /\ owed' \in BOOLEAN
        /\ budget' \in Nat /\ crashes' \in Nat /\ hangups' \in Nat
    BY <1>1 DEF Typed
  <2>3. dirs' \in Seq(Dirs) /\ holder' \in [Tracks -> Clients \cup {NoClient}]
    BY <1>1 DEF Typed
  <2> QED
    BY <2>1, <2>2, <2>3 DEF Typed
<1>4. \A c \in Clients : TaskOK(c)' /\ LockOK(c)' /\ Written(c)' /\ Removing(c)'
  BY <1>1 DEF NoTask, TaskOK, LockOK, Written, Removing, At
<1>5. \A d \in DOMAIN dirs' : Whole(d)'
  BY <1>1 DEF Inv, Whole, Wanted, SegmentCount
<1> QED
  BY <1>2, <1>3, <1>4, <1>5 DEF Inv

-----------------------------------------------------------------------------
(* The theorems *)

LEMMA InitInv ==
  ASSUME Init
  PROVE  Inv
<1>1. PICK i \in Instances : /\ source = i.source /\ budget = i.budget
                             /\ crashes = i.crashes /\ hangups = i.hangups /\ now = i.now
  BY DEF Init
<1>2. /\ stream = [t \in Tracks |-> [ok       |-> Remuxed(source[t]).ok,
                                     segments |-> Len(Segments(source[t]))]]
      /\ dirs = <<>> /\ holder = [t \in Tracks |-> NoClient]
      /\ task = [c \in Clients |-> NoTask] /\ boot = 1 /\ owed = FALSE
  BY DEF Init
<1>3. SourcesOK
  BY <1>1, <1>2, CacheConstants DEF SourcesOK
<1>4. Typed
  <2>1. task \in [Clients -> Tasks]
    BY <1>2, NoTaskType
  <2>2. /\ now \in 0..MaxClock /\ boot \in Nat \ {0} /\ owed \in BOOLEAN
        /\ budget \in Nat /\ crashes \in Nat /\ hangups \in Nat
    <3>1. {i.budget, i.crashes, i.hangups} \subseteq Nat /\ i.now \in 0..MaxClock
      BY CacheConstants
    <3> QED
      <4>1. i.budget \in Nat /\ i.crashes \in Nat /\ i.hangups \in Nat
        BY <3>1
      <4>2. boot = 1 /\ owed = FALSE
        BY <1>2
      <4>3. boot \in Nat \ {0} /\ owed \in BOOLEAN
        <5>1. 1 \in Nat \ {0} /\ FALSE \in BOOLEAN
          OBVIOUS
        <5> QED
          BY <4>2, <5>1, Zenon
      <4> QED
        BY <1>1, <3>1, <4>1, <4>3
  <2>3. dirs \in Seq(Dirs) /\ holder \in [Tracks -> Clients \cup {NoClient}]
    BY <1>2
  <2> QED
    BY <2>1, <2>2, <2>3 DEF Typed
<1>5. NamesOK /\ \A d \in DOMAIN dirs : Whole(d)
  BY <1>2 DEF NamesOK
<1>6. \A c \in Clients : TaskOK(c) /\ LockOK(c) /\ Written(c) /\ Removing(c)
  BY <1>2 DEF NoTask, TaskOK, LockOK, Written, Removing, At
<1> QED
  BY <1>3, <1>4, <1>5, <1>6 DEF Inv

LEMMA NextInv ==
  ASSUME Inv, [Next]_vars
  PROVE  Inv'
<1>1. ASSUME NEW c \in Clients, Step(c)
      PROVE  Inv'
  <2>1. TasksMove(c) /\ DirsMove /\ OthersMove
    BY <1>1, AcquireSteps, CollectSteps, CollectFailsSteps, EvictSteps, FinishRemovingSteps,
       TrimmedSteps, OpenSteps, TouchSteps, GenerateSteps, RemuxSourceSteps, WriteSteps,
       ReplaceSteps, RenameSteps, ServeSteps, Zenon DEF Step
  <2> QED
    BY <2>1, Combined
<1>2. ASSUME NEW c \in Clients, HangUp(c)
      PROVE  Inv'
  BY <1>2, HangUpSteps, Combined
<1>3. ASSUME NEW c \in Clients, NEW t \in Tracks, Request(c, t)
      PROVE  Inv'
  BY <1>3, RequestSteps, Combined
<1>4. CASE Tick
  <2>1. now' \in 0..MaxClock
    BY <1>4, CacheConstants DEF Tick, Inv, Typed
  <2> QED
    BY <1>4, <2>1, UnchangedInv DEF Tick, Inv, Typed
<1>5. CASE Crash
  BY <1>5, CrashInv
<1>6. CASE UNCHANGED vars
  BY <1>6, UnchangedInv DEF vars, Inv, Typed
<1> QED
  BY <1>1, <1>2, <1>3, <1>4, <1>5, <1>6 DEF Next

LEMMA InvHolds == Spec => []Inv
<1>1. Init => Inv
  BY InitInv
<1>2. Inv /\ [Next]_vars => Inv'
  BY NextInv
<1> QED
  BY <1>1, <1>2, PTL DEF Spec

\* Every variable keeps its type, and a path names one directory, whatever requests,
\* removals, hang-ups and crashes interleave.
THEOREM TypesHold == Spec => []TypeOK
<1>1. ASSUME Inv
      PROVE  TypeOK
  <2>1. Typed /\ NamesOK
    BY <1>1 DEF Inv
  <2>2. \A d \in DOMAIN dirs : dirs[d] \in [name : Names, files : SUBSET Int, stamp : 0..MaxClock,
                                            torn : BOOLEAN]
    BY <2>1, DirType DEF Dirs, Files
  <2>3. \A d, e \in DOMAIN dirs : dirs[d].name = dirs[e].name => d = e \/ dirs[d] = Gone
    BY <2>1 DEF NamesOK
  <2>4. DOMAIN task = Clients
    BY <2>1 DEF Typed
  <2>5. \A c \in Clients : /\ task[c].pc \in Steps /\ task[c].total \in Nat
                           /\ task[c].track \in Tracks \cup {NoName}
                           /\ task[c].tmp \in Names /\ task[c].path \in Names
    BY <2>1, TaskType
  <2>6. \A c \in Clients : At(c, "remove") => task[c].dir \in DOMAIN dirs
    BY <1>1 DEF Inv, Removing
  <2>7. /\ holder \in [Tracks -> Clients \cup {NoClient}]
        /\ now \in 0..MaxClock /\ boot \in Nat /\ owed \in BOOLEAN
        /\ {budget, crashes, hangups} \subseteq Nat
    BY <2>1 DEF Typed
  <2> QED
    BY <2>2, <2>3, <2>4, <2>5, <2>6, <2>7 DEF TypeOK
<1> QED
  BY <1>1, InvHolds, PTL

\* An entry of the cache with a playlist has every file that the playlist lists unless its
\* removal has begun, also while others generate, evict, hang up and crash: the playlist is
\* written last, under a name that no other generation has while both hold the lock.
THEOREM VisibleIsAlwaysWhole == Spec => []VisibleIsWhole
<1>1. ASSUME Inv
      PROVE  VisibleIsWhole
  <2> SUFFICES ASSUME NEW t \in Tracks, NEW d \in Named(Final(t)),
                      IndexFile \in dirs[d].files, ~dirs[d].torn
               PROVE  Wanted(t) \subseteq dirs[d].files
    BY DEF VisibleIsWhole
  <2>1. d \in DOMAIN dirs /\ dirs[d].name = Final(t)
    BY DEF Named
  <2>2. Final(t).track = t /\ Final(t) # NoName
    BY <1>1, TheirPaths DEF Inv
  <2>3. Whole(d)
    BY <1>1, <2>1 DEF Inv
  <2> QED
    BY <2>1, <2>2, <2>3 DEF Whole
<1> QED
  BY <1>1, InvHolds, PTL

\* What is written for a track is in segments that follow each other from the first sample
\* to the last, fit the target duration and have one sample entry each, for every file that
\* remux_source accepts.
THEOREM SegmentsAlwaysPartition == Spec => []SegmentsPartitionTrack
<1>1. ASSUME Inv
      PROVE  SegmentsPartitionTrack
  <2> SUFFICES ASSUME NEW c \in Clients, At(c, "write")
               PROVE  SegmentsFit(source[task[c].track])
    BY DEF SegmentsPartitionTrack, Remuxes
  <2>1. task[c].track \in Tracks /\ stream[task[c].track].ok
    BY <1>1 DEF Inv, TaskOK, At
  <2> QED
    BY <1>1, <2>1, StreamType DEF Inv
<1> QED
  BY <1>1, InvHolds, PTL

\* The file of a task whose stream was accepted.
LEMMA Accepts ==
  ASSUME SourcesOK, NEW t \in Tracks, stream[t].ok
  PROVE  IsFile(source[t]) /\ Remuxed(source[t]).ok
<1>1. /\ IsFile(source[t])
      /\ stream[t] = [ok |-> Remuxed(source[t]).ok, segments |-> Len(Segments(source[t]))]
  BY DEF SourcesOK
<1>2. Remuxed(source[t]).ok \in BOOLEAN
  BY <1>1, SegmentsOf, Zenon
<1> QED
  BY <1>1, <1>2

\* What is written for a track is all of its audio and nothing else, for every file that
\* remux_source accepts: every FLAC frame; every MPEG or AAC frame but those in another or
\* behind one that is cut off; all of the PCM data; and, in their order, the Opus packets
\* that are no headers and the MP4 samples of the audio track, each with the entry that the
\* track has reported last.
THEOREM AudioAlwaysKept == Spec => []NoAudioIsSkipped
<1>1. ASSUME Inv
      PROVE  NoAudioIsSkipped
  <2> SUFFICES ASSUME NEW c \in Clients, At(c, "write")
               PROVE  AudioIsKept(source[task[c].track])
    BY DEF NoAudioIsSkipped, Remuxes
  <2>1. task[c].track \in Tracks /\ stream[task[c].track].ok
    BY <1>1 DEF Inv, TaskOK, At
  <2>2. IsFile(source[task[c].track]) /\ Remuxed(source[task[c].track]).ok
    BY <1>1, <2>1, Accepts DEF Inv
  <2> QED
    BY <2>2, AudioKept
<1> QED
  BY <1>1, InvHolds, PTL

\* The files do not change, so what is assumed of those of the instances holds of them.
LEMMA SourcesAreWhole ==
  ASSUME \A i \in Instances, t \in Tracks : WholeBytes(i.source[t])
  PROVE  Spec => [](\A t \in Tracks : WholeBytes(source[t]))
<1> DEFINE W == \A t \in Tracks : WholeBytes(source[t])
<1>1. Init => W
  BY DEF Init
<1>2. ASSUME Inv, [Next]_vars
      PROVE  UNCHANGED source
  <2>1. ASSUME NEW c \in Clients, Step(c)
        PROVE  UNCHANGED source
    <3>1. OthersMove
      BY <1>2, <2>1, AcquireSteps, CollectSteps, CollectFailsSteps, EvictSteps, FinishRemovingSteps,
         TrimmedSteps, OpenSteps, TouchSteps, GenerateSteps, RemuxSourceSteps, WriteSteps,
         ReplaceSteps, RenameSteps, ServeSteps, Zenon DEF Step
    <3> QED
      BY <3>1 DEF OthersMove
  <2> QED
    BY <1>2, <2>1 DEF Next, HangUp, Request, Tick, Crash, vars
<1>3. Inv /\ W /\ [Next]_vars => W'
  BY <1>2
<1> QED
  BY <1>1, <1>3, InvHolds, PTL DEF Spec

\* The durations of what is written add up to those of the source, when its samples are
\* whole bytes: the durations of the FLAC frames less what the header of the file does not
\* count, and the frames of PCM data, whether they are cut into pieces or encoded.
THEOREM DurationsAlwaysMatch ==
  ASSUME \A i \in Instances, t \in Tracks : WholeBytes(i.source[t])
  PROVE  Spec => []DurationsMatchSource
<1>1. ASSUME Inv, \A t \in Tracks : WholeBytes(source[t])
      PROVE  DurationsMatchSource
  <2> SUFFICES ASSUME NEW c \in Clients, At(c, "write")
               PROVE  DurationsFit(source[task[c].track])
    BY DEF DurationsMatchSource, Remuxes
  <2>1. task[c].track \in Tracks /\ stream[task[c].track].ok
    BY <1>1 DEF Inv, TaskOK, At
  <2>2. IsFile(source[task[c].track]) /\ Remuxed(source[task[c].track]).ok
    BY <1>1, <2>1, Accepts DEF Inv
  <2> QED
    BY <1>1, <2>1, <2>2, DurationsKept
<1>2. Spec => [](\A t \in Tracks : WholeBytes(source[t]))
  BY SourcesAreWhole
<1> QED
  BY <1>1, <1>2, InvHolds, PTL

-----------------------------------------------------------------------------
(* The limit: who has still to trim the cache, and what a trim has counted *)

Entries == {d \in DOMAIN dirs : IndexFile \in dirs[d].files}

\* A request that has something to trim before it ends.
Generating(c) ==
    \/ task[c].pc \in {"generate", "remux", "write", "replace", "rename"}
    \/ task[c].pc = "remove" /\ task[c].tmp # NoName
    \/ task[c].pc \in {"open", "touch", "collect"} /\ task[c].made

\* The segments of U that are in a directory of a name.
Under(U, name) == {u \in U : u[1] = name}

\* The segments U, of which a trim counts as many as the total says, have those of every
\* entry but the one that is being removed; and every entry is to be evicted, or preserved.
Covers(c, U) ==
    /\ \A e \in task[c].plan : e.size <= Cardinality(Under(U, e.name))
    /\ \A d \in Entries :
          \/ At(c, "remove") /\ d = task[c].dir
          \/ /\ dirs[d].name = Preserved(c) \/ \E e \in task[c].plan : e.name = dirs[d].name
             /\ \A f \in dirs[d].files \cap Nat : <<dirs[d].name, f>> \in U

\* A trim that nothing has outdated.
Counts(c) ==
    /\ At(c, "evict") \/ At(c, "remove")
    /\ \A e, f \in task[c].plan : e.name = f.name => e = f
    /\ \E U \in SUBSET (Paths \X Nat) :
          IsFiniteSet(U) /\ Cardinality(U) <= task[c].total /\ Covers(c, U)

Fits == Cardinality(SegmentsOfDirs(Entries)) <= Limit \/ \A d, e \in Entries : d = e

LimitInv ==
    owed \/ (\E c \in Clients : Generating(c)) \/ (\E c \in Clients : Counts(c)) \/ Fits

\* What a step may make of the entries while nobody generates.
EntriesShrink ==
    /\ Entries' \subseteq Entries
    /\ \A d \in Entries' : dirs'[d].name = dirs[d].name /\ dirs'[d].files \cap Nat \subseteq dirs[d].files

SameTask(e) ==
    /\ task'[e].pc = task[e].pc /\ task'[e].track = task[e].track /\ task'[e].made = task[e].made
    /\ task'[e].plan = task[e].plan /\ task'[e].total = task[e].total
    /\ task'[e].dir = task[e].dir /\ task'[e].tmp = task[e].tmp

LEMMA EntriesNamed ==
  ASSUME Inv
  PROVE  /\ Typed /\ NamesOK /\ Entries \in SUBSET DOMAIN dirs
         /\ \A d \in Entries : dirs[d].name # NoName /\ dirs[d].name \in Paths
<1>1. Typed /\ NamesOK /\ Entries \in SUBSET DOMAIN dirs
  BY DEF Inv, Entries
<1>2. ASSUME NEW d \in Entries
      PROVE  dirs[d].name # NoName /\ dirs[d].name \in Paths
  <2>1. dirs[d].name # NoName
    BY <1>1, GoneIs DEF NamesOK, Entries
  <2>2. dirs[d].name \in Names
    BY <1>1, DirType
  <2> QED
    BY <2>1, <2>2 DEF Names, Paths
<1> QED
  BY <1>1, <1>2

LEMMA CoversStays ==
  ASSUME NEW c, NEW U, Covers(c, U), EntriesShrink, SameTask(c)
  PROVE  Covers(c, U)'
<1>1. Preserved(c)' = Preserved(c)
  BY DEF Preserved, SameTask, Final
<1>2. \A e \in task'[c].plan : e.size <= Cardinality(Under(U, e.name))
  BY DEF Covers, SameTask
<1>3. ASSUME NEW d \in Entries'
      PROVE  \/ At(c, "remove")' /\ d = task'[c].dir
             \/ /\ dirs'[d].name = Preserved(c)' \/ \E e \in task'[c].plan : e.name = dirs'[d].name
                /\ \A f \in dirs'[d].files \cap Nat : <<dirs'[d].name, f>> \in U
  <2>1. d \in Entries /\ dirs'[d].name = dirs[d].name /\ dirs'[d].files \cap Nat \subseteq dirs[d].files
    BY DEF EntriesShrink
  <2> QED
    BY <1>1, <2>1 DEF Covers, SameTask, At
<1> QED
  BY <1>2, <1>3 DEF Covers, Under

LEMMA CountsStay ==
  ASSUME NEW c, Counts(c), EntriesShrink, SameTask(c)
  PROVE  Counts(c)'
<1>1. PICK U \in SUBSET (Paths \X Nat) :
             IsFiniteSet(U) /\ Cardinality(U) <= task[c].total /\ Covers(c, U)
  BY DEF Counts
<1>2. Covers(c, U)' /\ task'[c].total = task[c].total
  BY <1>1, CoversStays DEF SameTask
<1>3. (At(c, "evict") \/ At(c, "remove"))' /\ \A e, f \in task'[c].plan : e.name = f.name => e = f
  BY DEF Counts, SameTask, At
<1>4. \E V \in SUBSET (Paths \X Nat) :
         IsFiniteSet(V) /\ Cardinality(V) <= task'[c].total /\ Covers(c, V)'
  BY <1>1, <1>2
<1> QED
  BY <1>3, <1>4 DEF Counts, Paths

LEMMA FitsStays ==
  ASSUME Inv, Fits, EntriesShrink
  PROVE  Fits'
<1> DEFINE A == SegmentsOfDirs(Entries)
           B == SegmentsOfDirs(Entries)'
<1>1. CASE \A d, e \in Entries : d = e
  BY <1>1 DEF Fits, EntriesShrink
<1>2. CASE Cardinality(A) <= Limit
  <2>1. IsFiniteSet(A)
    BY EntriesNamed, SizesAddUp
  <2>2. B \subseteq A
    BY DEF EntriesShrink, SegmentsOfDirs, Paths
  <2> HIDE DEF A, B
  <2>3. IsFiniteSet(B) /\ Cardinality(B) <= Cardinality(A)
    BY <2>1, <2>2, FS_Subset
  <2>4. Cardinality(B) \in Nat /\ Cardinality(A) \in Nat /\ Limit \in Nat
    BY <2>1, <2>3, FS_CardinalityType, CacheConstants
  <2>5. Cardinality(B) <= Limit
    BY <1>2, <2>3, <2>4
  <2> QED
    BY <2>5 DEF Fits, B
<1> QED
  BY <1>1, <1>2 DEF Fits

\* Steps of a request that has nothing new to trim.
LEMMA QuietStep ==
  ASSUME Inv, LimitInv, NEW c \in Clients, EntriesShrink, owed' = owed, ~Generating(c),
         \A e \in Clients \ {c} : SameTask(e),
         Counts(c) => Counts(c)' \/ Fits'
  PROVE  LimitInv'
<1>1. CASE owed
  BY <1>1 DEF LimitInv
<1>2. ASSUME NEW e \in Clients, Generating(e)
      PROVE  LimitInv'
  <2>1. Generating(e)'
    BY <1>2 DEF Generating, SameTask
  <2> QED
    BY <2>1 DEF LimitInv
<1>3. ASSUME NEW e \in Clients, Counts(e)
      PROVE  LimitInv'
  <2>1. Counts(e)' \/ Fits'
    BY <1>3, CountsStay
  <2> QED
    BY <2>1 DEF LimitInv
<1>4. CASE Fits
  BY <1>4, FitsStays DEF LimitInv
<1> QED
  BY <1>1, <1>2, <1>3, <1>4 DEF LimitInv

LEMMA DirsUnchanged ==
  ASSUME UNCHANGED dirs
  PROVE  EntriesShrink
BY DEF EntriesShrink, Entries

\* One directory loses files.
LEMMA OneShrinks ==
  ASSUME Typed, NEW d \in DOMAIN dirs, NEW y, dirs' = [dirs EXCEPT ![d] = y],
         IndexFile \in y.files => y.name = dirs[d].name /\ IndexFile \in dirs[d].files,
         y.files \cap Nat \subseteq dirs[d].files
  PROVE  EntriesShrink
<1>1. DOMAIN dirs' = DOMAIN dirs /\ dirs'[d] = y /\ \A e \in DOMAIN dirs \ {d} : dirs'[e] = dirs[e]
  BY DEF Typed
<1> QED
  BY <1>1 DEF EntriesShrink, Entries

\* What was counted, without the segments of one name.
LEMMA WithoutName ==
  ASSUME NEW U, IsFiniteSet(U), NEW name, NEW total \in Nat, Cardinality(U) <= total,
         NEW size \in Nat, size <= Cardinality(Under(U, name))
  PROVE  LET V == U \ Under(U, name)
         IN  IsFiniteSet(V) /\ Cardinality(V) <= Minus(total, size)
<1> DEFINE W == Under(U, name)
           V == U \ W
<1>1. W \in SUBSET U /\ V \in SUBSET U /\ V \cap W = {} /\ V \cup W = U
  BY DEF Under
<1> HIDE DEF W, V
<1>2. IsFiniteSet(V) /\ IsFiniteSet(W)
  BY <1>1, FS_Subset
<1>3. Cardinality(U) = Cardinality(V) + Cardinality(W) - Cardinality({})
  BY <1>1, <1>2, FS_Union
<1>4. /\ Cardinality(U) \in Nat /\ Cardinality(V) \in Nat /\ Cardinality(W) \in Nat
      /\ Cardinality({}) = 0
  BY <1>2, FS_CardinalityType, FS_EmptySet
<1>5. size <= Cardinality(W)
  BY DEF W
<1>6. Cardinality(V) <= Minus(total, size)
  BY <1>3, <1>4, <1>5 DEF Minus, Greatest
<1> QED
  BY <1>2, <1>6 DEF V, W

\* The collect counts every entry.
LEMMA CollectCounts ==
  ASSUME Inv, NEW c \in Clients, Collect(c)
  PROVE  Counts(c)'
<1> DEFINE plan == {[name |-> dirs[d].name, size |-> Size(d), stamp |-> dirs[d].stamp] : d \in Entries}
           total == MapThenSumSet(Size, Entries)
           U == SegmentsOfDirs(Entries)
<1>1. /\ task' = [task EXCEPT ![c].pc = "evict", ![c].plan = plan, ![c].total = total]
      /\ UNCHANGED dirs
  BY DEF Collect, Entries
<1>2. /\ Typed /\ NamesOK /\ Entries \in SUBSET DOMAIN dirs
      /\ \A d \in Entries : dirs[d].name # NoName /\ dirs[d].name \in Paths
  BY EntriesNamed
<1>3. IsFiniteSet(U) /\ total = Cardinality(U)
  BY <1>2, SizesAddUp
<1>4. Cardinality(U) <= total
  BY <1>3, FS_CardinalityType
<1>5. U \in SUBSET (Paths \X Nat)
  BY DEF SegmentsOfDirs
<1>6. ASSUME NEW d \in Entries
      PROVE  /\ Size(d) <= Cardinality(Under(U, dirs[d].name))
             /\ \A f \in dirs[d].files \cap Nat : <<dirs[d].name, f>> \in U
  <2>1. IsFiniteSet(SegmentsOfDirs({d})) /\ Cardinality(SegmentsOfDirs({d})) = Size(d)
    BY <1>2, SegmentsOfOne
  <2>2. SegmentsOfDirs({d}) \subseteq Under(U, dirs[d].name) /\ Under(U, dirs[d].name) \subseteq U
    BY DEF SegmentsOfDirs, Under
  <2>3. IsFiniteSet(Under(U, dirs[d].name))
    BY <1>3, <2>2, FS_Subset
  <2>4. Size(d) <= Cardinality(Under(U, dirs[d].name))
    BY <2>1, <2>2, <2>3, FS_Subset
  <2>5. \A f \in dirs[d].files \cap Nat : <<dirs[d].name, f>> \in U
    BY <1>2 DEF SegmentsOfDirs
  <2> QED
    BY <2>4, <2>5
<1>7. \A e, f \in plan : e.name = f.name => e = f
  BY <1>2 DEF NamesOK
<1>8. \A e \in plan : e.size <= Cardinality(Under(U, e.name))
  BY <1>6
<1>9. \A d \in Entries : \E e \in plan : e.name = dirs[d].name
  <2> SUFFICES ASSUME NEW d \in Entries
               PROVE  \E e \in plan : e.name = dirs[d].name
    OBVIOUS
  <2> DEFINE e == [name |-> dirs[d].name, size |-> Size(d), stamp |-> dirs[d].stamp]
  <2>1. e \in plan /\ e.name = dirs[d].name
    OBVIOUS
  <2> QED
    BY <2>1
<1> HIDE DEF plan, total, U
<1>10. task'[c].pc = "evict" /\ task'[c].plan = plan /\ task'[c].total = total
  <2>1. task[c] \in Tasks /\ DOMAIN task = Clients
    BY <1>2, TaskType DEF Typed
  <2> QED
    BY <1>1, <2>1 DEF Tasks
<1>11. Entries' = Entries /\ dirs' = dirs
  BY <1>1 DEF Entries
<1>12. PICK V : V = U
  OBVIOUS
<1>13. Covers(c, V)'
  BY <1>6, <1>8, <1>9, <1>10, <1>11, <1>12 DEF Covers, Under
<1>14. \E W \in SUBSET (Paths \X Nat) :
          IsFiniteSet(W) /\ Cardinality(W) <= task'[c].total /\ Covers(c, W)'
  BY <1>3, <1>4, <1>5, <1>10, <1>12, <1>13
<1> QED
  BY <1>7, <1>10, <1>14 DEF Counts, At, Paths

LEMMA SkipCounts ==
  ASSUME Inv, NEW c \in Clients, Counts(c), At(c, "evict"), NEW e \in task[c].plan, Skip(c, e)
  PROVE  Counts(c)'
<1> DEFINE total == IF e.name = Preserved(c) THEN task[c].total ELSE Minus(task[c].total, e.size)
           plan == task[c].plan \ {e}
<1>1. Typed /\ task[c].plan \in SUBSET Plans /\ task[c].total \in Nat /\ UNCHANGED dirs
  BY TaskType DEF Inv, Skip
<1>2. e \in Plans /\ e.size \in Nat
  BY <1>1 DEF Plans
<1>3. PICK U \in SUBSET (Paths \X Nat) :
             IsFiniteSet(U) /\ Cardinality(U) <= task[c].total /\ Covers(c, U)
  BY DEF Counts
<1>4. /\ task'[c].pc = "evict" /\ task'[c].plan = plan /\ task'[c].total = total
      /\ task'[c].track = task[c].track /\ task'[c].made = task[c].made
  <2>1. task[c] \in Tasks /\ DOMAIN task = Clients /\ task[c].pc = "evict"
    BY <1>1, TaskType DEF Typed, At
  <2> HIDE DEF total, plan
  <2>2. task' = [task EXCEPT ![c].plan = plan, ![c].total = total]
    BY DEF Skip, total, plan
  <2> QED
    BY <2>1, <2>2 DEF Tasks
<1>5. Entries' = Entries /\ dirs' = dirs /\ Preserved(c)' = Preserved(c)
  BY <1>1, <1>4 DEF Entries, Preserved, Final
<1>6. \A f, g \in plan : f.name = g.name => f = g
  BY DEF Counts
<1>7. \A f \in plan : f.name # e.name
  BY DEF Counts
<1>8. ASSUME NEW V \in SUBSET (Paths \X Nat), IsFiniteSet(V), Cardinality(V) <= total,
             \A f \in plan : f.size <= Cardinality(Under(V, f.name)),
             \A d \in Entries : /\ dirs[d].name = Preserved(c) \/ \E f \in plan : f.name = dirs[d].name
                                /\ \A f \in dirs[d].files \cap Nat : <<dirs[d].name, f>> \in V
      PROVE  Counts(c)'
  <2> HIDE DEF plan, total
  <2>1. Covers(c, V)'
    BY <1>4, <1>5, <1>8 DEF Covers, Under, At
  <2>2. \E W \in SUBSET (Paths \X Nat) :
           IsFiniteSet(W) /\ Cardinality(W) <= task'[c].total /\ Covers(c, W)'
    BY <1>4, <1>8, <2>1
  <2> QED
    BY <1>4, <1>6, <2>2 DEF Counts, At, Paths
<1>9. CASE e.name = Preserved(c)
  <2>1. \A d \in Entries : /\ dirs[d].name = Preserved(c) \/ \E f \in plan : f.name = dirs[d].name
                           /\ \A f \in dirs[d].files \cap Nat : <<dirs[d].name, f>> \in U
    BY <1>3, <1>9 DEF Covers, At
  <2>2. \A f \in plan : f.size <= Cardinality(Under(U, f.name))
    BY <1>3 DEF Covers
  <2> QED
    BY <1>3, <1>8, <1>9, <2>1, <2>2
<1>10. CASE e.name # Preserved(c)
  <2> DEFINE V == U \ Under(U, e.name)
  <2>1. ~Exists(e.name)
    BY <1>10 DEF Skip
  <2>2. \A d \in Entries : dirs[d].name # e.name
    BY <2>1 DEF Exists, Named, Entries
  <2>3. \A f \in plan : Under(V, f.name) = Under(U, f.name)
    BY <1>7 DEF Under
  <2>4. IsFiniteSet(V) /\ Cardinality(V) <= total
    <3>1. e.size <= Cardinality(Under(U, e.name))
      BY <1>3 DEF Covers
    <3> QED
      BY <1>1, <1>2, <1>3, <1>10, <3>1, WithoutName
  <2>5. \A f \in plan : f.size <= Cardinality(Under(V, f.name))
    BY <1>3, <2>3 DEF Covers
  <2>6. \A d \in Entries : /\ dirs[d].name = Preserved(c) \/ \E f \in plan : f.name = dirs[d].name
                           /\ \A f \in dirs[d].files \cap Nat : <<dirs[d].name, f>> \in V
    <3> SUFFICES ASSUME NEW d \in Entries
                 PROVE  /\ dirs[d].name = Preserved(c) \/ \E f \in plan : f.name = dirs[d].name
                        /\ \A f \in dirs[d].files \cap Nat : <<dirs[d].name, f>> \in V
      OBVIOUS
    <3>1. dirs[d].name # e.name
      BY <2>2
    <3> QED
      BY <1>3, <3>1 DEF Covers, At, Under
  <2>7. V \in SUBSET (Paths \X Nat)
    OBVIOUS
  <2> HIDE DEF V, plan, total
  <2> QED
    BY <1>8, <2>4, <2>5, <2>6, <2>7
<1> QED
  BY <1>9, <1>10

LEMMA RemoveCounts ==
  ASSUME Inv, NEW c \in Clients, At(c, "evict"), NEW e \in task[c].plan, Remove(c, e)
  PROVE  /\ EntriesShrink
         /\ Counts(c) => Counts(c)'
<1> DEFINE total == Minus(task[c].total, e.size)
           plan == task[c].plan \ {e}
           d == DirAt(e.name)
<1>1. Typed /\ NamesOK /\ task[c].plan \in SUBSET Plans /\ task[c].total \in Nat
  BY TaskType DEF Inv
<1>2. e.name \in Paths /\ e.size \in Nat /\ Exists(e.name)
  BY <1>1 DEF Plans, Remove
<1>3. d \in DOMAIN dirs /\ dirs[d].name = e.name
  BY <1>2, DirAtIs
<1>4. PICK some \in SUBSET dirs[d].files :
        /\ dirs' = [dirs EXCEPT ![d].files = @ \ some, ![d].torn = TRUE]
        /\ task' = [task EXCEPT ![c].pc = "remove", ![c].plan = plan, ![c].total = total,
                                ![c].dir = d, ![c].path = e.name, ![c].left = dirs[d].files \ some]
  BY DEF Remove, StartRemoving
<1> HIDE DEF d, plan, total
<1>5. EntriesShrink
  <2> DEFINE y == [dirs[d] EXCEPT !.files = @ \ some, !.torn = TRUE]
  <2>1. dirs[d] \in Dirs
    BY <1>1, <1>3, DirType
  <2>2. y.files = dirs[d].files \ some /\ y.name = dirs[d].name
    BY <2>1 DEF Dirs
  <2>3. dirs' = [dirs EXCEPT ![d] = y]
    BY <1>4
  <2> HIDE DEF y
  <2> QED
    BY <1>1, <1>3, <2>2, <2>3, OneShrinks
<1>6. /\ task'[c].pc = "remove" /\ task'[c].plan = plan /\ task'[c].total = total /\ task'[c].dir = d
      /\ task'[c].track = task[c].track /\ task'[c].made = task[c].made
  <2>1. task[c] \in Tasks /\ DOMAIN task = Clients
    BY <1>1, TaskType DEF Typed
  <2> QED
    BY <1>4, <2>1 DEF Tasks
<1>7. ASSUME Counts(c)
      PROVE  Counts(c)'
  <2>1. PICK U \in SUBSET (Paths \X Nat) :
               IsFiniteSet(U) /\ Cardinality(U) <= task[c].total /\ Covers(c, U)
    BY <1>7 DEF Counts
  <2>2. PICK V : V = U \ Under(U, e.name)
    OBVIOUS
  <2>3. IsFiniteSet(V) /\ Cardinality(V) <= total /\ V \in SUBSET (Paths \X Nat)
    <3>1. e.size <= Cardinality(Under(U, e.name))
      BY <2>1 DEF Covers
    <3> QED
      BY <1>1, <1>2, <2>1, <2>2, <3>1, WithoutName DEF total
  <2>4. \A f, g \in task[c].plan : f.name = g.name => f = g
    BY <1>7 DEF Counts
  <2>5. \A f \in plan : f.size <= Cardinality(Under(V, f.name))
    <3> SUFFICES ASSUME NEW f \in plan
                 PROVE  f.size <= Cardinality(Under(V, f.name))
      OBVIOUS
    <3>1. f \in task[c].plan /\ f.name # e.name
      BY <2>4 DEF plan
    <3>2. Under(V, f.name) = Under(U, f.name)
      BY <2>2, <3>1 DEF Under
    <3> QED
      BY <2>1, <3>1, <3>2 DEF Covers
  <2>6. Preserved(c)' = Preserved(c)
    BY <1>6 DEF Preserved, Final
  <2>7. ASSUME NEW k \in Entries', k # d
        PROVE  /\ dirs'[k].name = Preserved(c)' \/ \E f \in plan : f.name = dirs'[k].name
               /\ \A f \in dirs'[k].files \cap Nat : <<dirs'[k].name, f>> \in V
    <3>1. k \in Entries /\ dirs'[k].name = dirs[k].name /\ dirs'[k].files \cap Nat \subseteq dirs[k].files
      BY <1>5 DEF EntriesShrink
    <3>2. dirs[k].name # e.name
      BY <1>1, <1>2, <1>3, <2>7, <3>1, CacheConstants DEF NamesOK, Entries, Paths
    <3>3. /\ dirs[k].name = Preserved(c) \/ \E f \in task[c].plan : f.name = dirs[k].name
          /\ \A f \in dirs[k].files \cap Nat : <<dirs[k].name, f>> \in U
      BY <2>1, <3>1 DEF Covers, At
    <3>4. dirs[k].name = Preserved(c) \/ \E f \in plan : f.name = dirs[k].name
      BY <3>2, <3>3 DEF plan
    <3>5. \A f \in dirs[k].files \cap Nat : <<dirs[k].name, f>> \in V
      BY <2>2, <3>2, <3>3 DEF Under
    <3> QED
      BY <2>6, <3>1, <3>4, <3>5
  <2>8. Covers(c, V)'
    BY <1>6, <2>5, <2>7 DEF Covers, Under, At
  <2>9. \E W \in SUBSET (Paths \X Nat) :
           IsFiniteSet(W) /\ Cardinality(W) <= task'[c].total /\ Covers(c, W)'
    BY <1>6, <2>3, <2>8
  <2>10. \A f, g \in plan : f.name = g.name => f = g
    BY <2>4 DEF plan
  <2> QED
    BY <1>6, <2>9, <2>10 DEF Counts, At, Paths
<1> QED
  BY <1>5, <1>7

\* A removal that comes to its end leaves no entry.
LEMMA FinishRemovingCounts ==
  ASSUME Inv, NEW c \in Clients, FinishRemoving(c)
  PROVE  /\ EntriesShrink
         /\ Counts(c) /\ task[c].tmp = NoName => Counts(c)' \/ owed'
<1> DEFINE d    == task[c].dir
           rest == dirs[d].files \ task[c].left
           y == IF dirs[d].name = task[c].path /\ rest = {} THEN Gone
                ELSE [dirs[d] EXCEPT !.files = rest]
<1>1. Typed /\ At(c, "remove") /\ d \in DOMAIN dirs
  BY DEF Inv, FinishRemoving, Removing
<1>2. dirs' = [dirs EXCEPT ![d] = y]
  BY DEF FinishRemoving
<1>3. y.files = rest /\ (y # Gone => y.name = dirs[d].name)
  <2>1. dirs[d] \in Dirs
    BY <1>1, DirType
  <2> HIDE DEF d
  <2> QED
    BY <2>1, GoneIs DEF Dirs
<1> HIDE DEF y
<1>4. EntriesShrink
  <2>1. IndexFile \in y.files => y.name = dirs[d].name /\ IndexFile \in dirs[d].files
    BY <1>3, GoneIs
  <2>2. y.files \cap Nat \subseteq dirs[d].files
    BY <1>3
  <2> HIDE DEF d, rest
  <2> QED
    BY <1>1, <1>2, <2>1, <2>2, OneShrinks
<1>5. ASSUME Counts(c), task[c].tmp = NoName, rest = {},
             task' = [task EXCEPT ![c].pc = IF task[c].tmp = NoName THEN "evict" ELSE "rename",
                                  ![c].dir = 0, ![c].path = NoName, ![c].left = {}]
      PROVE  Counts(c)'
  <2>1. PICK U \in SUBSET (Paths \X Nat) :
               IsFiniteSet(U) /\ Cardinality(U) <= task[c].total /\ Covers(c, U)
    BY <1>5 DEF Counts
  <2>2. /\ task'[c].pc = "evict" /\ task'[c].plan = task[c].plan /\ task'[c].total = task[c].total
        /\ task'[c].track = task[c].track /\ task'[c].made = task[c].made
    <3>1. task[c] \in Tasks /\ DOMAIN task = Clients
      BY <1>1, TaskType DEF Typed
    <3> QED
      BY <1>5, <3>1 DEF Tasks
  <2>3. Preserved(c)' = Preserved(c)
    BY <2>2 DEF Preserved, Final
  <2>4. d \notin Entries'
    <3>1. dirs'[d] = y
      BY <1>1, <1>2 DEF Typed
    <3>2. dirs'[d].files = {}
      BY <1>3, <1>5, <3>1
    <3> QED
      BY <3>2 DEF Entries
  <2>5. ASSUME NEW k \in Entries'
        PROVE  /\ dirs'[k].name = Preserved(c)' \/ \E f \in task[c].plan : f.name = dirs'[k].name
               /\ \A f \in dirs'[k].files \cap Nat : <<dirs'[k].name, f>> \in U
    <3>1. /\ k \in Entries /\ dirs'[k].name = dirs[k].name
          /\ dirs'[k].files \cap Nat \subseteq dirs[k].files /\ k # d
      BY <1>4, <2>4 DEF EntriesShrink
    <3> QED
      BY <2>1, <2>3, <3>1 DEF Covers
  <2>6. Covers(c, U)'
    <3>1. \A f \in task[c].plan : f.size <= Cardinality(Under(U, f.name))
      BY <2>1 DEF Covers
    <3> QED
      BY <2>2, <2>5, <3>1 DEF Covers, Under
  <2>7. \E W \in SUBSET (Paths \X Nat) :
           IsFiniteSet(W) /\ Cardinality(W) <= task'[c].total /\ Covers(c, W)'
    BY <2>1, <2>2, <2>6
  <2>8. \A f, g \in task[c].plan : f.name = g.name => f = g
    BY <1>5 DEF Counts
  <2> QED
    BY <2>2, <2>7, <2>8 DEF Counts, At, Paths
<1>6. CASE Fail(c)
  BY <1>4, <1>6 DEF Fail
<1>7. CASE rest = {} /\ task' = [task EXCEPT ![c].pc = IF task[c].tmp = NoName THEN "evict" ELSE "rename",
                                             ![c].dir = 0, ![c].path = NoName, ![c].left = {}]
  BY <1>4, <1>5, <1>7
<1> QED
  BY <1>6, <1>7 DEF FinishRemoving

\* A trim that ends has the entries within the limit, or has nothing more to evict.
LEMMA TrimmedFits ==
  ASSUME Inv, NEW c \in Clients, Counts(c), At(c, "evict"),
         task[c].total <= Limit \/ task[c].plan = {}
  PROVE  Fits
<1>1. PICK U \in SUBSET (Paths \X Nat) :
             IsFiniteSet(U) /\ Cardinality(U) <= task[c].total /\ Covers(c, U)
  BY DEF Counts
<1>2. \A d \in Entries : /\ dirs[d].name = Preserved(c) \/ \E e \in task[c].plan : e.name = dirs[d].name
                         /\ \A f \in dirs[d].files \cap Nat : <<dirs[d].name, f>> \in U
  BY <1>1 DEF Covers, At
<1>3. CASE task[c].total <= Limit
  <2>1. SegmentsOfDirs(Entries) \subseteq U
    BY <1>2 DEF SegmentsOfDirs
  <2>2. IsFiniteSet(SegmentsOfDirs(Entries)) /\ Cardinality(SegmentsOfDirs(Entries)) <= Cardinality(U)
    BY <1>1, <2>1, FS_Subset
  <2>3. /\ Cardinality(SegmentsOfDirs(Entries)) \in Nat /\ Cardinality(U) \in Nat
        /\ task[c].total \in Nat /\ Limit \in Nat
    BY <1>1, <2>2, FS_CardinalityType, TaskType, CacheConstants DEF Inv
  <2>4. Cardinality(SegmentsOfDirs(Entries)) <= Limit
    BY <1>1, <1>3, <2>2, <2>3
  <2> QED
    BY <2>4 DEF Fits
<1>4. CASE task[c].plan = {}
  <2>1. \A d \in Entries : dirs[d].name = Preserved(c)
    BY <1>2, <1>4
  <2>2. \A d, e \in Entries : d = e
    BY <2>1, EntriesNamed DEF NamesOK
  <2> QED
    BY <2>2 DEF Fits
<1> QED
  BY <1>3, <1>4

\* A step that owes a trim, or leaves somebody with one to do.
LEMMA StillOwed ==
  ASSUME NEW c \in Clients, owed' \/ Generating(c)' \/ Counts(c)'
  PROVE  LimitInv'
BY DEF LimitInv

LEMMA FieldsOf ==
  ASSUME Inv, NEW c \in Clients, NEW x, task' = [task EXCEPT ![c] = x]
  PROVE  task'[c] = x /\ \A e \in Clients \ {c} : SameTask(e)
BY DEF Inv, Typed, SameTask

\* A request that goes on as it was, but for its place.
LEMMA WithNewPc ==
  ASSUME Inv, NEW c \in Clients, NEW pc, To(c, pc)
  PROVE  /\ task'[c].pc = pc /\ task'[c].made = task[c].made /\ task'[c].tmp = task[c].tmp
         /\ \A e \in Clients \ {c} : SameTask(e)
<1>1. task[c] \in Tasks /\ DOMAIN task = Clients
  BY TaskType DEF Inv, Typed
<1>2. task' = [task EXCEPT ![c] = [task[c] EXCEPT !.pc = pc]]
  BY DEF To
<1>3. task'[c] = [task[c] EXCEPT !.pc = pc]
  BY <1>1, <1>2
<1>4. task'[c].pc = pc /\ task'[c].made = task[c].made /\ task'[c].tmp = task[c].tmp
  BY <1>1, <1>3 DEF Tasks
<1> QED
  BY <1>2, <1>4, FieldsOf

LEMMA EvictLimit ==
  ASSUME Inv, LimitInv, NEW c \in Clients, Evict(c)
  PROVE  LimitInv'
<1>1. PICK e \in Oldest(c) : Skip(c, e) \/ Remove(c, e)
  BY DEF Evict
<1>2. e \in task[c].plan /\ At(c, "evict") /\ owed' = owed
  BY DEF Evict, Oldest
<1>3. ~Generating(c)
  BY <1>2 DEF Generating, At
<1>4. EntriesShrink /\ (Counts(c) => Counts(c)')
  <2>1. CASE Skip(c, e)
    BY <1>2, <2>1, SkipCounts, DirsUnchanged DEF Skip
  <2>2. CASE Remove(c, e)
    BY <1>2, <2>2, RemoveCounts
  <2> QED
    BY <1>1, <2>1, <2>2
<1>5. \A k \in Clients \ {c} : SameTask(k)
  <2>1. \E x : task' = [task EXCEPT ![c] = x]
    BY <1>1 DEF Skip, Remove, StartRemoving
  <2> QED
    BY <2>1, FieldsOf
<1> QED
  BY <1>2, <1>3, <1>4, <1>5, QuietStep

LEMMA FinishRemovingLimit ==
  ASSUME Inv, LimitInv, NEW c \in Clients, FinishRemoving(c)
  PROVE  LimitInv'
<1>1. EntriesShrink /\ At(c, "remove")
  BY FinishRemovingCounts DEF FinishRemoving
<1>2. CASE Fail(c)
  BY <1>2, StillOwed DEF Fail
<1>3. CASE /\ task' = [task EXCEPT ![c].pc = IF task[c].tmp = NoName THEN "evict" ELSE "rename",
                                   ![c].dir = 0, ![c].path = NoName, ![c].left = {}]
           /\ owed' = owed
  <2> DEFINE x == [task[c] EXCEPT !.pc = IF task[c].tmp = NoName THEN "evict" ELSE "rename",
                                  !.dir = 0, !.path = NoName, !.left = {}]
  <2>1. task' = [task EXCEPT ![c] = x]
    BY <1>3
  <2>2. x.pc = IF task[c].tmp = NoName THEN "evict" ELSE "rename"
    BY TaskType DEF Inv, Tasks
  <2> HIDE DEF x
  <2>3. task'[c].pc = (IF task[c].tmp = NoName THEN "evict" ELSE "rename")
        /\ \A e \in Clients \ {c} : SameTask(e)
    BY <2>1, <2>2, FieldsOf
  <2>4. CASE task[c].tmp # NoName
    <3>1. Generating(c)'
      BY <2>3, <2>4 DEF Generating
    <3> QED
      BY <3>1, StillOwed
  <2>5. CASE task[c].tmp = NoName
    <3>1. ~Generating(c)
      BY <1>1, <2>5 DEF Generating, At
    <3>2. CASE owed'
      BY <3>2, StillOwed
    <3>3. CASE ~owed'
      BY <1>1, <1>3, <2>3, <2>5, <3>1, <3>3, FinishRemovingCounts, QuietStep
    <3> QED
      BY <3>2, <3>3
  <2> QED
    BY <2>4, <2>5
<1> QED
  BY <1>2, <1>3 DEF FinishRemoving

LEMMA TrimmedLimit ==
  ASSUME Inv, LimitInv, NEW c \in Clients, Trimmed(c)
  PROVE  LimitInv'
<1>1. /\ At(c, "evict") /\ UNCHANGED dirs /\ EntriesShrink /\ ~Generating(c)
      /\ task[c].total <= Limit \/ task[c].plan = {}
  BY DirsUnchanged DEF Trimmed, Generating, At
<1>2. CASE Vanishes(c)
  BY <1>2, StillOwed DEF Vanishes
<1>3. CASE owed' = owed /\ \E x : task' = [task EXCEPT ![c] = x]
  <2>1. Counts(c) => Fits'
    BY <1>1, TrimmedFits, FitsStays
  <2>2. \A e \in Clients \ {c} : SameTask(e)
    BY <1>3, FieldsOf
  <2> QED
    BY <1>1, <1>3, <2>1, <2>2, QuietStep
<1> QED
  BY <1>2, <1>3 DEF Trimmed

LEMMA OpenLimit ==
  ASSUME Inv, LimitInv, NEW c \in Clients, Open(c)
  PROVE  LimitInv'
<1> DEFINE n == Openable(Final(task[c].track))
<1>1. At(c, "open") /\ EntriesShrink
  BY DirsUnchanged DEF Open
<1>2. CASE Vanishes(c)
  BY <1>2, StillOwed DEF Vanishes
<1>3. CASE task' = [task EXCEPT ![c].pc = "touch", ![c].count = n] /\ owed' = owed
  <2> HIDE DEF n
  <2> DEFINE x == [task[c] EXCEPT !.pc = "touch", !.count = n]
  <2>1. task' = [task EXCEPT ![c] = x]
    BY <1>3
  <2>2. x.pc = "touch" /\ x.made = task[c].made
    BY TaskType DEF Inv, Tasks
  <2> HIDE DEF x
  <2>3. task'[c] = x /\ \A e \in Clients \ {c} : SameTask(e)
    BY <2>1, FieldsOf
  <2>4. CASE task[c].made
    <3>1. Generating(c)'
      BY <2>2, <2>3, <2>4 DEF Generating
    <3> QED
      BY <3>1, StillOwed
  <2>5. CASE ~task[c].made
    <3>1. ~Generating(c) /\ ~Counts(c)
      BY <1>1, <2>5 DEF Generating, Counts, At
    <3> QED
      BY <1>1, <1>3, <2>3, <3>1, QuietStep
  <2> QED
    BY <2>4, <2>5
<1>4. CASE To(c, "generate")
  <2>1. Generating(c)'
    BY <1>4, WithNewPc DEF Generating
  <2> QED
    BY <2>1, StillOwed
<1>5. CASE Fail(c)
  BY <1>5, StillOwed DEF Fail
<1> QED
  BY <1>2, <1>3, <1>4, <1>5 DEF Open

LEMMA TouchLimit ==
  ASSUME Inv, LimitInv, NEW c \in Clients, Touch(c)
  PROVE  LimitInv'
<1> DEFINE name == Final(task[c].track)
           d == DirAt(name)
<1>1. At(c, "touch") /\ Typed
  BY DEF Touch, Inv
<1>2. CASE Fail(c)
  BY <1>2, StillOwed DEF Fail
<1>3. CASE task[c].made /\ To(c, "collect")
  <2>1. Generating(c)'
    BY <1>3, WithNewPc DEF Generating
  <2> QED
    BY <2>1, StillOwed
<1>4. CASE /\ Exists(name) /\ ~task[c].made /\ To(c, "serve") /\ owed' = owed
           /\ dirs' = [dirs EXCEPT ![d].stamp = now, ![d].files = @ \cup {StampFile}]
  <2> DEFINE y == [dirs[d] EXCEPT !.stamp = now, !.files = @ \cup {StampFile}]
  <2>1. d \in DOMAIN dirs
    BY <1>4, DirAtIs
  <2>2. dirs' = [dirs EXCEPT ![d] = y]
    BY <1>4
  <2> HIDE DEF d
  <2>3. y.name = dirs[d].name /\ y.files = dirs[d].files \cup {StampFile}
    BY <1>1, <2>1, DirType DEF Dirs
  <2> HIDE DEF y
  <2>4. IndexFile \in y.files => IndexFile \in dirs[d].files
    BY <2>3 DEF IndexFile, StampFile
  <2>5. y.files \cap Nat \subseteq dirs[d].files
    BY <2>3 DEF StampFile
  <2>6. EntriesShrink
    BY <1>1, <2>1, <2>2, <2>3, <2>4, <2>5, OneShrinks
  <2>7. \A e \in Clients \ {c} : SameTask(e)
    BY <1>4, WithNewPc
  <2>8. ~Generating(c) /\ ~Counts(c)
    BY <1>1, <1>4 DEF Generating, Counts, At
  <2> QED
    BY <1>4, <2>6, <2>7, <2>8, QuietStep
<1> QED
  BY <1>2, <1>3, <1>4 DEF Touch

\* The steps of a generation leave it with a trim to do.
LEMMA GenerationLimit ==
  ASSUME Inv, NEW c \in Clients,
         Generate(c) \/ RemuxSource(c) \/ Write(c) \/ Replace(c) \/ Rename(c)
  PROVE  LimitInv'
<1>1. Typed /\ TaskOK(c) /\ task[c] \in Tasks /\ DOMAIN task = Clients
  BY TaskType DEF Inv, Typed
<1>2. CASE Fail(c)
  BY <1>2, StillOwed DEF Fail
<1>3. ASSUME Generating(c)'
      PROVE  LimitInv'
  BY <1>3, StillOwed
<1>4. CASE Generate(c)
  <2>1. task'[c].pc = "remux"
    BY <1>1, <1>4 DEF Generate, Tasks
  <2> QED
    BY <1>3, <2>1 DEF Generating
<1>5. CASE RemuxSource(c) /\ ~Fail(c)
  <2>1. task'[c].pc = "write"
    BY <1>1, <1>5 DEF RemuxSource, Tasks
  <2> QED
    BY <1>3, <2>1 DEF Generating
<1>6. CASE Write(c) /\ ~Fail(c)
  <2>1. At(c, "write")
    BY <1>6 DEF Write
  <2>2. task'[c].pc \in {"write", "replace"}
    BY <1>1, <1>6, <2>1 DEF Write, Tasks, At
  <2> QED
    BY <1>3, <2>2 DEF Generating
<1>7. CASE Replace(c)
  <2>1. task[c].tmp # NoName
    BY <1>1, <1>7 DEF Replace, TaskOK, At
  <2>2. CASE To(c, "rename")
    BY <1>3, <2>2, WithNewPc DEF Generating
  <2>3. CASE StartRemoving(c, Final(task[c].track), {}, 0)
    <3>1. task'[c].pc = "remove" /\ task'[c].tmp = task[c].tmp
      BY <1>1, <2>3 DEF StartRemoving, Tasks
    <3> QED
      BY <1>3, <2>1, <3>1 DEF Generating
  <2> QED
    BY <1>7, <2>2, <2>3 DEF Replace
<1>8. CASE Rename(c) /\ ~Fail(c)
  <2>1. task'[c].pc = "open" /\ task'[c].made
    BY <1>1, <1>8 DEF Rename, Tasks
  <2> QED
    BY <1>3, <2>1 DEF Generating
<1> QED
  BY <1>2, <1>4, <1>5, <1>6, <1>7, <1>8

LEMMA StepLimit ==
  ASSUME Inv, LimitInv, NEW c \in Clients, Step(c)
  PROVE  LimitInv'
<1>1. CASE Acquire(c)
  <2>1. EntriesShrink /\ owed' = owed /\ ~Generating(c) /\ ~Counts(c)
    BY <1>1, DirsUnchanged DEF Acquire, Generating, Counts, At
  <2>2. \A e \in Clients \ {c} : SameTask(e)
    BY <1>1, WithNewPc DEF Acquire
  <2> QED
    BY <2>1, <2>2, QuietStep
<1>2. CASE Collect(c)
  BY <1>2, CollectCounts, StillOwed
<1>3. CASE CollectFails(c)
  BY <1>3, StillOwed DEF CollectFails, Fail
<1>4. CASE Serve(c) \/ NotFound(c)
  <2>1. /\ At(c, "serve") /\ UNCHANGED <<dirs, owed>> /\ task' = [task EXCEPT ![c] = NoTask]
    BY <1>4 DEF Serve, NotFound
  <2>2. ~Generating(c) /\ ~Counts(c) /\ EntriesShrink
    BY <2>1, DirsUnchanged DEF Generating, Counts, At
  <2> QED
    BY <2>1, <2>2, FieldsOf, QuietStep
<1>5. CASE Generate(c) \/ RemuxSource(c) \/ Write(c) \/ Replace(c) \/ Rename(c)
  BY <1>5, GenerationLimit
<1> QED
  BY <1>1, <1>2, <1>3, <1>4, <1>5, EvictLimit, FinishRemovingLimit, TrimmedLimit, OpenLimit,
     TouchLimit DEF Step

LEMMA RequestLimit ==
  ASSUME Inv, LimitInv, NEW c \in Clients, NEW t \in Tracks, Request(c, t)
  PROVE  LimitInv'
<1>1. /\ At(c, "idle") /\ UNCHANGED <<dirs, owed>>
      /\ \A e \in Clients \ {c} : task'[e] = [task[e] EXCEPT !.alone = FALSE]
  BY DEF Request
<1>2. \A e \in Clients \ {c} : SameTask(e)
  <2> SUFFICES ASSUME NEW e \in Clients \ {c}
               PROVE  SameTask(e)
    OBVIOUS
  <2>1. task[e] \in Tasks
    BY TaskType DEF Inv
  <2> QED
    BY <1>1, <2>1 DEF SameTask, Tasks
<1>3. ~Generating(c) /\ ~Counts(c) /\ EntriesShrink
  BY <1>1, DirsUnchanged DEF Generating, Counts, At
<1> QED
  BY <1>1, <1>2, <1>3, QuietStep

LEMMA NothingMoves ==
  ASSUME Inv, LimitInv, UNCHANGED <<dirs, task, owed>>
  PROVE  LimitInv'
<1>1. EntriesShrink /\ \A c \in Clients : SameTask(c)
  BY DirsUnchanged DEF SameTask
<1>2. \A c \in Clients : Counts(c) => Counts(c)'
  BY <1>1, CountsStay
<1>3. \A c \in Clients : Generating(c) => Generating(c)'
  BY DEF Generating
<1>4. Fits => Fits'
  BY <1>1, FitsStays
<1> QED
  BY <1>2, <1>3, <1>4 DEF LimitInv

LEMMA LimitInvHolds == Spec => []LimitInv
<1>1. Init => LimitInv
  <2> SUFFICES ASSUME Init
               PROVE  Fits
    BY DEF LimitInv
  <2>1. Entries = {}
    BY DEF Init, Entries
  <2> QED
    BY <2>1 DEF Fits
<1>2. Inv /\ LimitInv /\ [Next]_vars => LimitInv'
  <2> SUFFICES ASSUME Inv, LimitInv, [Next]_vars
               PROVE  LimitInv'
    OBVIOUS
  <2>1. ASSUME NEW c \in Clients, HangUp(c)
        PROVE  LimitInv'
    BY <2>1, StillOwed DEF HangUp
  <2>2. CASE Crash
    BY <2>2 DEF Crash, LimitInv
  <2>3. CASE Tick \/ UNCHANGED vars
    BY <2>3, NothingMoves DEF Tick, vars
  <2> QED
    BY <2>1, <2>2, <2>3, StepLimit, RequestLimit DEF Next
<1> QED
  BY <1>1, <1>2, InvHolds, PTL DEF Spec

\* When no request is under way, and none has failed, was dropped or was cut off by the end
\* of the process since the last trim began, the entries fit the limit or there is one:
\* for any number of requests that generate and evict at the same time.
THEOREM LimitAlwaysHolds == Spec => []LimitHolds
<1>1. ASSUME Inv, LimitInv
      PROVE  LimitHolds
  <2> SUFFICES ASSUME \A c \in Clients : At(c, "idle") \/ At(c, "serve"), ~owed
               PROVE  MapThenSumSet(Size, Entries) <= Limit \/ Cardinality(Entries) = 1
    BY DEF LimitHolds, Entries
  <2>1. Fits
    BY <1>1 DEF LimitInv, Generating, Counts, At
  <2>2. IsFiniteSet(Entries)
    <3>1. DOMAIN dirs = 1..Len(dirs) /\ Len(dirs) \in Nat /\ Entries \in SUBSET DOMAIN dirs
      BY <1>1, EntriesNamed DEF Typed
    <3>2. IsFiniteSet(DOMAIN dirs)
      BY <3>1, FS_Interval
    <3> QED
      BY <3>1, <3>2, FS_Subset
  <2>3. MapThenSumSet(Size, Entries) = Cardinality(SegmentsOfDirs(Entries))
    BY <1>1, EntriesNamed, SizesAddUp
  <2>4. CASE Entries = {}
    <3>1. SegmentsOfDirs(Entries) = {}
      BY <2>4 DEF SegmentsOfDirs
    <3> QED
      BY <2>3, <3>1, FS_EmptySet, CacheConstants
  <2>5. CASE Entries # {} /\ \A d, e \in Entries : d = e
    <3>1. \E d : Entries = {d}
      BY <2>5
    <3> QED
      BY <2>2, <3>1, FS_Singleton
  <2> QED
    BY <2>1, <2>3, <2>4, <2>5 DEF Fits
<1> QED
  BY <1>1, InvHolds, LimitInvHolds, PTL

-----------------------------------------------------------------------------
(* Requests that no other is beside *)

\* A request that no other has been beside.
Lone(c) == task[c].alone /\ ~At(c, "idle")

\* A directory with a playlist that is not being removed: Whole says that it has the rest.
Ready(d) == IndexFile \in dirs[d].files /\ ~dirs[d].torn

\* A generation has a directory of its own, which becomes the entry.
LoneMaking(c) ==
    /\ task[c].pc \in {"remux", "write"} => \E d \in Named(task[c].tmp) : ~dirs[d].torn
    /\ task[c].pc \in {"replace", "rename"} \/ (At(c, "remove") /\ task[c].tmp # NoName) =>
          \E d \in Named(task[c].tmp) : Ready(d)
    /\ At(c, "rename") => ~Exists(Final(task[c].track))

\* A removal finds what it has listed.
LoneRemoving(c) ==
    At(c, "remove") =>
       /\ dirs[task[c].dir].name = task[c].path /\ dirs[task[c].dir].files = task[c].left
       /\ task[c].tmp # NoName => task[c].path = Final(task[c].track)
       /\ task[c].made => task[c].path # Final(task[c].track)

\* What was generated, or opened, is there, with the segments that were counted.
LoneServing(c) ==
    /\ task[c].made => /\ task[c].pc \in {"open", "touch", "collect", "evict", "remove", "serve"}
                       /\ task[c].tmp = NoName
                       /\ \E d \in Named(Final(task[c].track)) : Ready(d)
    /\ At(c, "touch") \/ At(c, "serve") \/ (task[c].made /\ ~At(c, "open")) =>
          \E d \in Named(Final(task[c].track)) :
             dirs[d].torn \/ (IndexFile \in dirs[d].files /\ SegmentCount(task[c].track) <= task[c].count)

LoneOK(c) ==
    Lone(c) => /\ ~task[c].cut /\ \A e \in Clients \ {c} : At(e, "idle")
               /\ LoneMaking(c) /\ LoneRemoving(c) /\ LoneServing(c)

\* A step of a lone request: it goes on as it was, or ends as it should.
GoesOn(c) == ~At(c, "idle")' /\ ~task'[c].cut /\ LoneMaking(c)' /\ LoneRemoving(c)' /\ LoneServing(c)'

Ends(c) == \/ ~stream[task[c].track].ok
           \/ \E d \in Named(Final(task[c].track)) : dirs[d].torn
           \/ At(c, "serve") /\ \A f \in Wanted(task[c].track) : HasFile(c, f)

LoneSteps(c) == GoesOn(c) \/ (At(c, "idle")' /\ Ends(c))

LEMMA LoneIs ==
  ASSUME Inv, NEW c \in Clients, Lone(c), LoneOK(c)
  PROVE  /\ Typed /\ NamesOK /\ TaskOK(c) /\ SourcesOK
         /\ LoneMaking(c) /\ LoneRemoving(c) /\ LoneServing(c)
         /\ ~task[c].cut /\ \A e \in Clients \ {c} : At(e, "idle")
         /\ task[c].track \in Tracks /\ Final(task[c].track) \in Paths
         /\ Final(task[c].track) # NoName /\ Final(task[c].track).track = task[c].track
         /\ task[c] \in Tasks /\ DOMAIN task = Clients
<1>1. Typed /\ NamesOK /\ TaskOK(c) /\ SourcesOK
  BY DEF Inv
<1>2. /\ LoneMaking(c) /\ LoneRemoving(c) /\ LoneServing(c)
      /\ ~task[c].cut /\ \A e \in Clients \ {c} : At(e, "idle")
  BY DEF LoneOK
<1>3. task[c].track \in Tracks
  BY <1>1 DEF TaskOK, Lone, At
<1>4. task[c] \in Tasks /\ DOMAIN task = Clients
  BY <1>1, TaskType DEF Typed
<1> QED
  BY <1>1, <1>2, <1>3, <1>4, TheirPaths

\* The one directory of a name.
LEMMA TheDir ==
  ASSUME Typed, NamesOK, NEW name, name # NoName, NEW d \in Named(name)
  PROVE  /\ Exists(name) /\ DirAt(name) = d /\ d \in DOMAIN dirs /\ dirs[d].name = name
         /\ \A e \in DOMAIN dirs : dirs[e].name = name => e = d
<1>1. Exists(name) /\ d \in DOMAIN dirs /\ dirs[d].name = name
  BY DEF Exists, Named
<1>2. \A e \in DOMAIN dirs : dirs[e].name = name => e = d
  BY <1>1 DEF NamesOK
<1> QED
  BY <1>1, <1>2, DirAtIs

LEMMA AcquireLone ==
  ASSUME Inv, NEW c \in Clients, Lone(c), LoneOK(c), Acquire(c)
  PROVE  LoneSteps(c)
<1>1. task[c] \in Tasks /\ DOMAIN task = Clients /\ LoneServing(c) /\ ~task[c].cut
  BY LoneIs
<1>2. /\ At(c, "lock") /\ task' = [task EXCEPT ![c].pc = "collect"] /\ dirs' = dirs
  BY DEF Acquire, To
<1>3. /\ task'[c].pc = "collect" /\ task'[c].made = task[c].made /\ task'[c].cut = task[c].cut
  BY <1>1, <1>2 DEF Tasks
<1>4. ~task[c].made
  BY <1>1, <1>2 DEF LoneServing, At
<1> QED
  BY <1>1, <1>3, <1>4 DEF LoneSteps, GoesOn, LoneMaking, LoneRemoving, LoneServing, At

\* A step that leaves the directories, and does not begin a part of the request.
LEMMA StaysLone ==
  ASSUME Inv, NEW c \in Clients, Lone(c), LoneOK(c), dirs' = dirs, stream' = stream,
         task'[c].pc \in {"collect", "evict", "open", "generate", "serve"}, task'[c].made = task[c].made,
         task'[c].track = task[c].track, task'[c].tmp = task[c].tmp, task'[c].cut = task[c].cut,
         task'[c].count = task[c].count,
         task'[c].made => task'[c].pc # "generate",
         task'[c].made /\ task[c].pc = "open" => task'[c].pc = "open",
         task'[c].pc = "serve" => task[c].made \/ task[c].pc = "touch"
  PROVE  LoneSteps(c)
<1>1. LoneServing(c) /\ ~task[c].cut
  BY LoneIs
<1>2. LoneMaking(c)' /\ LoneRemoving(c)'
  BY DEF LoneMaking, LoneRemoving, At
<1>3. LoneServing(c)'
  <2>1. Final(task[c].track)' = Final(task[c].track) /\ Named(Final(task[c].track))' = Named(Final(task[c].track))
    BY DEF Final, Named
  <2>2. task'[c].made => \E d \in Named(Final(task[c].track)) : Ready(d)'
    BY <1>1 DEF LoneServing, Ready
  <2>3. SegmentCount(task[c].track)' = SegmentCount(task[c].track)
    BY DEF SegmentCount
  <2>4. At(c, "serve")' \/ (task'[c].made /\ ~At(c, "open")') =>
          \E d \in Named(Final(task[c].track)) :
             dirs[d].torn \/ (IndexFile \in dirs[d].files /\ SegmentCount(task[c].track) <= task[c].count)
    BY <1>1 DEF LoneServing, At
  <2> QED
    BY <1>1, <2>1, <2>2, <2>3, <2>4 DEF LoneServing, At
<1> QED
  BY <1>1, <1>2, <1>3 DEF LoneSteps, GoesOn, At

LEMMA CollectLone ==
  ASSUME Inv, NEW c \in Clients, Lone(c), LoneOK(c), Collect(c)
  PROVE  LoneSteps(c)
<1> DEFINE entries == {d \in DOMAIN dirs : IndexFile \in dirs[d].files}
           plan == {[name |-> dirs[d].name, size |-> Size(d), stamp |-> dirs[d].stamp] : d \in entries}
           total == MapThenSumSet(Size, entries)
<1>1. task[c] \in Tasks /\ DOMAIN task = Clients
  BY LoneIs
<1>2. /\ At(c, "collect") /\ dirs' = dirs /\ stream' = stream
      /\ task' = [task EXCEPT ![c].pc = "evict", ![c].plan = plan, ![c].total = total]
  BY DEF Collect, Goes
<1> HIDE DEF plan, total
<1>3. /\ task'[c].pc = "evict" /\ task'[c].made = task[c].made /\ task'[c].cut = task[c].cut
      /\ task'[c].track = task[c].track /\ task'[c].tmp = task[c].tmp /\ task'[c].count = task[c].count
  BY <1>1, <1>2 DEF Tasks
<1> QED
  BY <1>2, <1>3, StaysLone DEF At

LEMMA CollectFailsLone ==
  ASSUME Inv, NEW c \in Clients, Lone(c), LoneOK(c), CollectFails(c)
  PROVE  LoneSteps(c)
BY LoneIs DEF CollectFails, At

LEMMA TrimmedLone ==
  ASSUME Inv, NEW c \in Clients, Lone(c), LoneOK(c), Trimmed(c)
  PROVE  LoneSteps(c)
<1>1. task[c] \in Tasks /\ DOMAIN task = Clients /\ ~task[c].cut
  BY LoneIs
<1>2. At(c, "evict") /\ dirs' = dirs /\ stream' = stream
  BY DEF Trimmed, Goes
<1>3. PICK pc \in {"serve", "open"} :
         /\ task' = [task EXCEPT ![c].pc = pc, ![c].plan = {}, ![c].total = 0]
         /\ pc = "serve" <=> task[c].made
  BY <1>1 DEF Trimmed
<1>4. /\ task'[c].pc = pc /\ task'[c].made = task[c].made /\ task'[c].cut = task[c].cut
      /\ task'[c].track = task[c].track /\ task'[c].tmp = task[c].tmp /\ task'[c].count = task[c].count
  BY <1>1, <1>3 DEF Tasks
<1> QED
  BY <1>2, <1>3, <1>4, StaysLone DEF At

LEMMA EvictLone ==
  ASSUME Inv, NEW c \in Clients, Lone(c), LoneOK(c), Evict(c)
  PROVE  LoneSteps(c)
<1>1. /\ task[c] \in Tasks /\ DOMAIN task = Clients /\ ~task[c].cut
      /\ Typed /\ NamesOK /\ TaskOK(c) /\ LoneServing(c)
      /\ task[c].track \in Tracks /\ Final(task[c].track) # NoName
  BY LoneIs
<1>2. PICK e \in Oldest(c) : Skip(c, e) \/ Remove(c, e)
  BY DEF Evict
<1>3. e \in task[c].plan /\ At(c, "evict") /\ stream' = stream
  BY DEF Evict, Oldest, Goes
<1>4. CASE Skip(c, e)
  <2> DEFINE plan == task[c].plan \ {e}
             total == IF e.name = Preserved(c) THEN task[c].total ELSE Minus(task[c].total, e.size)
  <2>1. dirs' = dirs /\ task' = [task EXCEPT ![c].plan = plan, ![c].total = total]
    BY <1>4 DEF Skip
  <2> HIDE DEF plan, total
  <2>2. /\ task'[c].pc = task[c].pc /\ task'[c].made = task[c].made /\ task'[c].cut = task[c].cut
        /\ task'[c].track = task[c].track /\ task'[c].tmp = task[c].tmp /\ task'[c].count = task[c].count
    BY <1>1, <2>1 DEF Tasks
  <2> QED
    BY <1>3, <2>1, <2>2, StaysLone DEF At
<1>5. CASE Remove(c, e)
  <2> DEFINE total == Minus(task[c].total, e.size)
             plan == task[c].plan \ {e}
             d == DirAt(e.name)
  <2>1. d \in DOMAIN dirs /\ dirs[d].name = e.name /\ e.name # Preserved(c)
    BY <1>5, DirAtIs DEF Remove
  <2>2. PICK some \in SUBSET dirs[d].files :
          /\ dirs' = [dirs EXCEPT ![d].files = @ \ some, ![d].torn = TRUE]
          /\ task' = [task EXCEPT ![c].pc = "remove", ![c].plan = plan, ![c].total = total,
                                  ![c].dir = d, ![c].path = e.name, ![c].left = dirs[d].files \ some]
    BY <1>5 DEF Remove, StartRemoving
  <2> HIDE DEF d, plan, total
  <2>3. /\ task'[c].pc = "remove" /\ task'[c].dir = d /\ task'[c].path = e.name
        /\ task'[c].left = dirs[d].files \ some
        /\ task'[c].made = task[c].made /\ task'[c].cut = task[c].cut
        /\ task'[c].track = task[c].track /\ task'[c].tmp = task[c].tmp /\ task'[c].count = task[c].count
    BY <1>1, <2>2 DEF Tasks
  <2>4. dirs[d] \in Dirs
    BY <1>1, <2>1, DirType
  <2>5. /\ DOMAIN dirs' = DOMAIN dirs /\ \A f \in DOMAIN dirs : f # d => dirs'[f] = dirs[f]
        /\ dirs'[d].name = e.name /\ dirs'[d].files = dirs[d].files \ some
    BY <2>1, <2>2, <2>4 DEF Dirs
  <2>6. task[c].tmp = NoName
    BY <1>1, <1>3 DEF TaskOK, At
  <2>7. LoneMaking(c)'
    BY <2>3, <2>6 DEF LoneMaking, At
  <2>8. LoneRemoving(c)'
    <3>1. task[c].made => e.name # Final(task[c].track)
      BY <2>1 DEF Preserved
    <3>2. Final(task[c].track)' = Final(task[c].track)
      BY <2>3 DEF Final
    <3> QED
      BY <2>3, <2>5, <2>6, <3>1, <3>2 DEF LoneRemoving
  <2>9. LoneServing(c)'
    <3>1. Final(task[c].track)' = Final(task[c].track) /\ SegmentCount(task[c].track)' = SegmentCount(task[c].track)
      BY <2>3, <1>3 DEF Final, SegmentCount
    <3>2. CASE task[c].made
      <4>1. \A f \in Named(Final(task[c].track)) : f # d
        BY <2>1, <3>2 DEF Preserved, Named
      <4>2. \A f \in Named(Final(task[c].track)) :
               f \in Named(Final(task[c].track))' /\ dirs'[f] = dirs[f]
        BY <2>5, <3>1, <4>1 DEF Named
      <4>3. /\ \E f \in Named(Final(task[c].track)) : Ready(f)
            /\ \E f \in Named(Final(task[c].track)) :
                  dirs[f].torn \/ (IndexFile \in dirs[f].files /\ SegmentCount(task[c].track) <= task[c].count)
        BY <1>1, <1>3, <3>2 DEF LoneServing, At
      <4> QED
        BY <2>3, <2>6, <3>1, <4>2, <4>3 DEF LoneServing, Ready, At
    <3>3. CASE ~task[c].made
      BY <2>3, <3>3 DEF LoneServing, At
    <3> QED
      BY <3>2, <3>3
  <2> QED
    BY <1>1, <2>3, <2>7, <2>8, <2>9 DEF LoneSteps, GoesOn, At
<1> QED
  BY <1>2, <1>4, <1>5

LEMMA FinishRemovingLone ==
  ASSUME Inv, NEW c \in Clients, Lone(c), LoneOK(c), FinishRemoving(c)
  PROVE  LoneSteps(c)
<1> DEFINE d == task[c].dir
           t == task[c].track
           pc == IF task[c].tmp = NoName THEN "evict" ELSE "rename"
<1>1. /\ task[c] \in Tasks /\ DOMAIN task = Clients /\ ~task[c].cut
      /\ Typed /\ NamesOK /\ TaskOK(c) /\ LoneMaking(c) /\ LoneRemoving(c) /\ LoneServing(c)
      /\ t \in Tracks /\ Final(t) # NoName /\ Final(t) \in Paths
  BY LoneIs
<1>2. At(c, "remove") /\ d \in DOMAIN dirs /\ task[c].path # NoName
  BY DEF FinishRemoving, Inv, Removing
<1>3. /\ dirs[d].name = task[c].path /\ dirs[d].files = task[c].left
      /\ task[c].tmp # NoName => task[c].path = Final(t)
      /\ task[c].made => task[c].path # Final(t)
  BY <1>1, <1>2 DEF LoneRemoving
<1>4. /\ dirs' = [dirs EXCEPT ![d] = Gone] /\ stream' = stream
      /\ task' = [task EXCEPT ![c].pc = pc, ![c].dir = 0, ![c].path = NoName, ![c].left = {}]
  <2>1. dirs[d].files \ task[c].left = {} /\ task[c].left \subseteq dirs[d].files
    BY <1>3
  <2> QED
    BY <1>3, <2>1 DEF FinishRemoving, Goes
<1>5. pc \in {"evict", "rename"} /\ (pc = "rename" <=> task[c].tmp # NoName)
  OBVIOUS
<1> HIDE DEF pc
<1>6. /\ task'[c].pc = pc
      /\ task'[c].made = task[c].made /\ task'[c].cut = task[c].cut
      /\ task'[c].track = t /\ task'[c].tmp = task[c].tmp /\ task'[c].count = task[c].count
  BY <1>1, <1>4 DEF Tasks
<1>7. /\ DOMAIN dirs' = DOMAIN dirs /\ \A e \in DOMAIN dirs : e # d => dirs'[e] = dirs[e]
      /\ dirs'[d].name = NoName
  BY <1>2, <1>4, GoneIs
<1>8. Final(t)' = Final(t) /\ SegmentCount(t)' = SegmentCount(t)
  BY <1>4, <1>6 DEF Final, SegmentCount
<1>9. \A name : name # NoName /\ name # task[c].path =>
         \A e \in Named(name) : e \in Named(name)' /\ dirs'[e] = dirs[e]
  BY <1>3, <1>7 DEF Named
<1>10. LoneMaking(c)'
  <2> SUFFICES ASSUME task[c].tmp # NoName
               PROVE  (\E e \in Named(task[c].tmp)' : Ready(e)') /\ ~Exists(Final(t))'
    BY <1>5, <1>6, <1>8 DEF LoneMaking, Named, Exists, At
  <2>1. task[c].tmp # Final(t)
    BY <1>1, TheirPaths DEF TaskOK
  <2>2. PICK e \in Named(task[c].tmp) : Ready(e)
    BY <1>1, <1>2 DEF LoneMaking
  <2>3. task[c].tmp # task[c].path
    BY <1>3, <2>1
  <2>4. e \in Named(task[c].tmp)' /\ Ready(e)'
    BY <1>6, <1>9, <2>2, <2>3 DEF Ready, Named
  <2>5. \A f \in DOMAIN dirs : dirs[f].name = Final(t) => f = d
    BY <1>1, <1>2, <1>3 DEF NamesOK
  <2>6. \A f \in DOMAIN dirs' : dirs'[f].name # Final(t)
    BY <1>1, <1>7, <2>5
  <2> QED
    BY <1>6, <1>8, <2>4, <2>6 DEF Exists, Named
<1>11. LoneRemoving(c)'
  BY <1>5, <1>6 DEF LoneRemoving, At
<1>12. LoneServing(c)'
  <2>1. CASE task[c].made
    <3>1. /\ task[c].tmp = NoName
          /\ \E e \in Named(Final(t)) : Ready(e)
          /\ \E e \in Named(Final(t)) :
                dirs[e].torn \/ (IndexFile \in dirs[e].files /\ SegmentCount(t) <= task[c].count)
      BY <1>1, <1>2, <2>1 DEF LoneServing, At
    <3>2. \A e \in Named(Final(t)) : e \in Named(Final(t))' /\ dirs'[e] = dirs[e]
      BY <1>1, <1>3, <1>8, <1>9, <2>1 DEF Named
    <3> QED
      BY <1>5, <1>6, <1>8, <3>1, <3>2 DEF LoneServing, Ready, At
  <2>2. CASE ~task[c].made
    BY <1>5, <1>6, <2>2 DEF LoneServing, At
  <2> QED
    BY <2>1, <2>2
<1> QED
  BY <1>1, <1>5, <1>6, <1>10, <1>11, <1>12 DEF LoneSteps, GoesOn, At

\* An accepted file has segments.
LEMMA SomeSegments ==
  ASSUME SourcesOK, NEW t \in Tracks, stream[t].ok
  PROVE  SegmentCount(t) \in Nat \ {0}
<1>1. SegmentCount(t) = Len(Segments(source[t])) /\ Segments(source[t]) \in Seq(Pieces)
  <2>1. /\ IsFile(source[t])
        /\ stream[t] = [ok |-> Remuxed(source[t]).ok, segments |-> Len(Segments(source[t]))]
    BY DEF SourcesOK
  <2>2. Segments(source[t]) \in Seq(Pieces)
    BY <2>1, SegmentsOf, Zenon
  <2> QED
    BY <2>1, <2>2 DEF SegmentCount
<1>2. Segments(source[t]) # <<>>
  BY StreamType DEF SegmentsFit, SegmentsCover
<1> QED
  BY <1>1, <1>2

\* What is counted in a directory with everything that its playlist lists.
LEMMA CountsAll ==
  ASSUME Inv, NEW t \in Tracks, NEW d \in Named(Final(t)), Ready(d)
  PROVE  /\ SegmentCount(t) <= Openable(Final(t))
         /\ stream[t].ok => Openable(Final(t)) # 0
<1> DEFINE n == Openable(Final(t))
<1>1. Typed /\ NamesOK /\ SourcesOK /\ Final(t) # NoName /\ Final(t).track = t
  BY TheirPaths DEF Inv
<1>2. Exists(Final(t)) /\ DirAt(Final(t)) = d /\ d \in DOMAIN dirs /\ dirs[d].name = Final(t)
  BY <1>1, TheDir
<1>3. Wanted(t) \subseteq dirs[d].files
  BY <1>1, <1>2 DEF Inv, Whole, Ready
<1>4. n \in Nat /\ n \notin dirs[d].files
  BY <1>1, <1>2, <1>3, OpenableType DEF Wanted
<1>5. n \notin 0..(SegmentCount(t) - 1) /\ SegmentCount(t) \in Nat
  BY <1>1, <1>3, <1>4, StreamType DEF Wanted
<1>6. stream[t].ok => SegmentCount(t) \in Nat \ {0}
  BY <1>1, SomeSegments
<1> HIDE DEF n
<1>7. SegmentCount(t) <= n
  BY <1>4, <1>5
<1> QED
  BY <1>4, <1>6, <1>7 DEF n

LEMMA OpenLone ==
  ASSUME Inv, NEW c \in Clients, Lone(c), LoneOK(c), Open(c)
  PROVE  LoneSteps(c)
<1> DEFINE t == task[c].track
           n == Openable(Final(t))
<1>1. /\ task[c] \in Tasks /\ DOMAIN task = Clients /\ ~task[c].cut
      /\ Typed /\ NamesOK /\ TaskOK(c) /\ SourcesOK /\ LoneServing(c)
      /\ t \in Tracks /\ Final(t) # NoName /\ Final(t) \in Paths
  BY LoneIs
<1>2. At(c, "open") /\ dirs' = dirs /\ stream' = stream
  BY DEF Open, Goes, Fail
<1>3. CASE n > 0 /\ task' = [task EXCEPT ![c].pc = "touch", ![c].count = n]
  <2> HIDE DEF n
  <2>1. /\ task'[c].pc = "touch" /\ task'[c].count = n
        /\ task'[c].made = task[c].made /\ task'[c].cut = task[c].cut
        /\ task'[c].track = t /\ task'[c].tmp = task[c].tmp
    BY <1>1, <1>3 DEF Tasks
  <2>2. Exists(Final(t)) /\ IndexFile \in dirs[DirAt(Final(t))].files
    BY <1>3 DEF Openable, n
  <2>3. PICK d \in Named(Final(t)) : IndexFile \in dirs[d].files
    BY <2>2, DirAtIs DEF Named
  <2>4. ~dirs[d].torn => SegmentCount(t) <= n
    BY <1>1, <2>3, CountsAll DEF Ready, n
  <2>5. Final(t)' = Final(t) /\ Named(Final(t))' = Named(Final(t)) /\ SegmentCount(t)' = SegmentCount(t)
    BY <1>2, <2>1 DEF Final, Named, SegmentCount
  <2>6. LoneServing(c)'
    <3>1. task'[c].made => task'[c].tmp = NoName /\ \E e \in Named(Final(t)) : Ready(e)'
      BY <1>1, <1>2, <2>1 DEF LoneServing, Ready
    <3>2. \E e \in Named(Final(t)) :
             dirs'[e].torn \/ (IndexFile \in dirs'[e].files /\ SegmentCount(t) <= task'[c].count)
      BY <1>2, <2>1, <2>3, <2>4
    <3> QED
      BY <2>1, <2>5, <3>1, <3>2 DEF LoneServing, At
  <2> QED
    BY <1>1, <2>1, <2>6 DEF LoneSteps, GoesOn, LoneMaking, LoneRemoving, At
<1>4. CASE n = 0 /\ ~task[c].made /\ To(c, "generate")
  <2>1. /\ task'[c].pc = "generate" /\ task'[c].count = task[c].count
        /\ task'[c].made = task[c].made /\ task'[c].cut = task[c].cut
        /\ task'[c].track = t /\ task'[c].tmp = task[c].tmp
    BY <1>1, <1>4 DEF Tasks, To
  <2> QED
    BY <1>2, <1>4, <2>1, StaysLone DEF At
<1>5. CASE n = 0 /\ task[c].made /\ Fail(c)
  <2>1. PICK d \in Named(Final(t)) : Ready(d)
    BY <1>1, <1>5 DEF LoneServing
  <2>2. ~stream[t].ok
    BY <1>1, <1>5, <2>1, CountsAll
  <2>3. task'[c].pc = "idle"
    BY <1>1, <1>5 DEF Fail, NoTask
  <2> QED
    BY <2>2, <2>3 DEF LoneSteps, Ends, At
<1> QED
  BY <1>1, <1>3, <1>4, <1>5 DEF Open

LEMMA TouchLone ==
  ASSUME Inv, NEW c \in Clients, Lone(c), LoneOK(c), Touch(c)
  PROVE  LoneSteps(c)
<1> DEFINE t == task[c].track
<1>1. /\ task[c] \in Tasks /\ DOMAIN task = Clients /\ ~task[c].cut
      /\ Typed /\ NamesOK /\ TaskOK(c) /\ LoneServing(c)
      /\ t \in Tracks /\ Final(t) # NoName /\ Final(t) \in Paths
  BY LoneIs
<1>2. PICK d \in Named(Final(t)) :
         dirs[d].torn \/ (IndexFile \in dirs[d].files /\ SegmentCount(t) <= task[c].count)
  BY <1>1 DEF LoneServing, Touch
<1>3. Exists(Final(t)) /\ DirAt(Final(t)) = d /\ d \in DOMAIN dirs /\ dirs[d].name = Final(t)
      /\ \A f \in DOMAIN dirs : dirs[f].name = Final(t) => f = d
  BY <1>1, <1>2, TheDir
<1>4. /\ At(c, "touch") /\ stream' = stream
      /\ dirs' = [dirs EXCEPT ![d].stamp = now, ![d].files = @ \cup {StampFile}]
      /\ IF task[c].made THEN To(c, "collect") ELSE To(c, "serve")
  BY <1>3 DEF Touch, Goes
<1>5. PICK pc \in {"collect", "serve"} : task' = [task EXCEPT ![c].pc = pc]
  BY <1>4 DEF To
<1>6. /\ task'[c].pc = pc /\ task'[c].count = task[c].count
      /\ task'[c].made = task[c].made /\ task'[c].cut = task[c].cut
      /\ task'[c].track = t /\ task'[c].tmp = task[c].tmp
  BY <1>1, <1>5 DEF Tasks
<1>7. /\ d \in DOMAIN dirs' /\ dirs'[d].name = Final(t) /\ dirs'[d].torn = dirs[d].torn
      /\ dirs'[d].files = dirs[d].files \cup {StampFile}
  <2>1. dirs[d] \in Dirs
    BY <1>1, <1>3, DirType
  <2> QED
    BY <1>3, <1>4, <2>1 DEF Dirs
<1>8. Final(t)' = Final(t) /\ SegmentCount(t)' = SegmentCount(t)
  BY <1>4, <1>6 DEF Final, SegmentCount
<1>9. LoneServing(c)'
  <2>1. task[c].made => task[c].tmp = NoName /\ Ready(d)
    BY <1>1, <1>3 DEF LoneServing, Named
  <2>2. task'[c].made => Ready(d)'
    BY <1>6, <1>7, <2>1 DEF Ready
  <2>3. d \in Named(Final(t))'
    BY <1>7, <1>8 DEF Named
  <2>4. dirs'[d].torn \/ (IndexFile \in dirs'[d].files /\ SegmentCount(t) <= task'[c].count)
    BY <1>2, <1>3, <1>6, <1>7
  <2> QED
    BY <1>5, <1>6, <1>8, <2>1, <2>2, <2>3, <2>4 DEF LoneServing, At
<1> QED
  BY <1>1, <1>5, <1>6, <1>9 DEF LoneSteps, GoesOn, LoneMaking, LoneRemoving, At

LEMMA GenerateLone ==
  ASSUME Inv, NEW c \in Clients, Lone(c), LoneOK(c), Generate(c)
  PROVE  LoneSteps(c)
<1> DEFINE t == task[c].track
           old == Named(Tmp(t))
           kept == [d \in DOMAIN dirs |-> IF d \in old THEN Gone ELSE dirs[d]]
           new == [name |-> Tmp(t), files |-> {}, stamp |-> now, torn |-> Shared(c)]
           k == Len(dirs) + 1
<1>1. /\ task[c] \in Tasks /\ DOMAIN task = Clients /\ ~task[c].cut
      /\ Typed /\ LoneServing(c) /\ t \in Tracks /\ \A e \in Clients \ {c} : At(e, "idle")
  BY LoneIs
<1>2. /\ At(c, "generate") /\ dirs' = Append(kept, new)
      /\ task' = [task EXCEPT ![c].pc = "remux", ![c].tmp = Tmp(t)]
  BY DEF Generate
<1>3. ~Shared(c)
  <2>1. \A e \in Clients \ {c} : task[e].tmp = NoName
    <3>1. \A e \in Clients : TaskOK(e)
      BY DEF Inv
    <3> QED
      BY <1>1, <3>1 DEF TaskOK, At
  <2>2. Tmp(t) # NoName
    BY <1>1, TheirPaths
  <2> QED
    BY <2>1, <2>2 DEF Shared
<1>4. /\ k \in DOMAIN dirs' /\ dirs'[k] = new
  <2>1. DOMAIN dirs = 1..Len(dirs) /\ Len(dirs) \in Nat
    BY <1>1 DEF Typed
  <2>2. kept \in Seq({kept[d] : d \in DOMAIN dirs}) /\ Len(kept) = Len(dirs)
    BY <2>1
  <2> HIDE DEF kept, new
  <2> QED
    BY <1>2, <2>1, <2>2
<1>5. dirs'[k].name = Tmp(t) /\ ~dirs'[k].torn
  <2> HIDE DEF k, t
  <2> QED
    BY <1>3, <1>4
<1>6. PICK e : e \in DOMAIN dirs' /\ dirs'[e].name = Tmp(t) /\ ~dirs'[e].torn
  BY <1>4, <1>5, Zenon
<1>7. /\ task'[c].pc = "remux" /\ task'[c].tmp = Tmp(t)
      /\ task'[c].made = task[c].made /\ task'[c].cut = task[c].cut
  <2>1. PICK tmp : tmp = Tmp(t)
    OBVIOUS
  <2>2. task' = [task EXCEPT ![c].pc = "remux", ![c].tmp = tmp]
    BY <1>2, <2>1
  <2> QED
    BY <1>1, <2>1, <2>2 DEF Tasks
<1>8. ~task[c].made
  BY <1>1, <1>2 DEF LoneServing, At
<1>9. \E f \in Named(task[c].tmp)' : ~dirs'[f].torn
  BY <1>6, <1>7 DEF Named
<1>10. LoneMaking(c)'
  BY <1>7, <1>9 DEF LoneMaking, At
<1> QED
  BY <1>1, <1>7, <1>8, <1>10 DEF LoneSteps, GoesOn, LoneRemoving, LoneServing, At

LEMMA RemuxSourceLone ==
  ASSUME Inv, NEW c \in Clients, Lone(c), LoneOK(c), RemuxSource(c)
  PROVE  LoneSteps(c)
<1> DEFINE t == task[c].track
<1>1. /\ task[c] \in Tasks /\ DOMAIN task = Clients /\ ~task[c].cut
      /\ LoneMaking(c) /\ LoneServing(c)
  BY LoneIs
<1>2. At(c, "remux") /\ dirs' = dirs
  BY DEF RemuxSource
<1>3. CASE stream[t].ok
  <2> DEFINE files == OutputFiles(t)
  <2>1. task' = [task EXCEPT ![c].pc = "write", ![c].todo = files]
    BY <1>3 DEF RemuxSource
  <2> HIDE DEF files
  <2>2. /\ task'[c].pc = "write" /\ task'[c].made = task[c].made /\ task'[c].cut = task[c].cut
        /\ task'[c].tmp = task[c].tmp
    BY <1>1, <2>1 DEF Tasks
  <2>3. ~task[c].made
    BY <1>1, <1>2 DEF LoneServing, At
  <2>4. \E d \in Named(task[c].tmp) : ~dirs[d].torn
    BY <1>1, <1>2 DEF LoneMaking, At
  <2>5. LoneMaking(c)'
    BY <1>2, <2>2, <2>4 DEF LoneMaking, Named, At
  <2> QED
    BY <1>1, <2>2, <2>3, <2>5 DEF LoneSteps, GoesOn, LoneRemoving, LoneServing, At
<1>4. CASE ~stream[t].ok /\ Fail(c)
  <2>1. task'[c].pc = "idle"
    BY <1>1, <1>4 DEF Fail, NoTask
  <2> QED
    BY <1>4, <2>1 DEF LoneSteps, Ends, At
<1> QED
  BY <1>3, <1>4 DEF RemuxSource

\* The last one of a sequence.
LEMMA OneLeft ==
  ASSUME NEW s \in Seq(Int), Len(s) >= 1, Tail(s) = <<>>
  PROVE  Len(s) = 1
<1>1. Len(Tail(s)) = Len(s) - 1
  OBVIOUS
<1>2. Len(Tail(s)) = 0
  <2>1. Len(<<>>) = 0
    OBVIOUS
  <2> QED
    BY <2>1, Zenon
<1> QED
  BY <1>1, <1>2

LEMMA WriteLone ==
  ASSUME Inv, NEW c \in Clients, Lone(c), LoneOK(c), Write(c)
  PROVE  LoneSteps(c)
<1> DEFINE t == task[c].track
           tmp == task[c].tmp
           f == Head(task[c].todo)
           rest == Tail(task[c].todo)
           files == OutputFiles(t)
           n == SegmentCount(t)
<1>1. /\ task[c] \in Tasks /\ DOMAIN task = Clients /\ ~task[c].cut
      /\ Typed /\ NamesOK /\ SourcesOK /\ TaskOK(c) /\ LoneMaking(c) /\ LoneServing(c) /\ t \in Tracks
  BY LoneIs
<1>2. At(c, "write") /\ tmp # NoName
  BY <1>1 DEF Write, TaskOK, At
<1>3. PICK d \in Named(tmp) : ~dirs[d].torn
  BY <1>1, <1>2 DEF LoneMaking, At
<1>4. Exists(tmp) /\ DirAt(tmp) = d /\ d \in DOMAIN dirs /\ dirs[d].name = tmp
  BY <1>1, <1>2, <1>3, TheDir
<1>5. PICK pc \in {"replace", "write"} :
         /\ dirs' = [dirs EXCEPT ![d].files = @ \cup {f}]
         /\ task' = [task EXCEPT ![c].todo = rest, ![c].pc = pc]
         /\ pc = "replace" => rest = <<>>
  <2>1. /\ dirs' = [dirs EXCEPT ![DirAt(tmp)].files = @ \cup {f}]
        /\ task' = [task EXCEPT ![c].todo = Tail(@),
                                ![c].pc = IF Tail(task[c].todo) = <<>> THEN "replace" ELSE @]
    BY <1>4 DEF Write
  <2>2. task' = [task EXCEPT ![c].todo = rest, ![c].pc = IF rest = <<>> THEN "replace" ELSE "write"]
    BY <1>2, <2>1 DEF At
  <2> HIDE DEF rest, f
  <2>3. CASE rest = <<>>
    BY <1>4, <2>1, <2>2, <2>3
  <2>4. CASE rest # <<>>
    BY <1>4, <2>1, <2>2, <2>4
  <2> QED
    BY <2>3, <2>4
<1>6. pc = "replace" => f = IndexFile
  <2> SUFFICES ASSUME rest = <<>>
               PROVE  f = IndexFile
    BY <1>5
  <2>1. /\ n \in Nat /\ files \in Seq(Int) /\ Len(files) = n + 2 /\ files[n + 2] = IndexFile
    BY <1>1, StreamType, OutputFilesAre
  <2>2. PICK k \in 1..(n + 2) : task[c].todo = SubSeq(files, k, n + 2)
    BY <1>2 DEF Inv, Written
  <2> HIDE DEF files, n
  <2>3. Len(SubSeq(files, k, n + 2)) = n + 3 - k /\ SubSeq(files, k, n + 2) \in Seq(Int)
    BY <2>1, <2>2
  <2>4. k = n + 2
    <3>1. PICK s \in Seq(Int) : s = task[c].todo /\ Len(s) = n + 3 - k /\ Tail(s) = <<>>
      BY <2>2, <2>3 DEF rest
    <3>2. Len(s) >= 1
      BY <2>1, <2>2, <3>1
    <3>3. Len(s) = 1
      BY <3>1, <3>2, OneLeft
    <3> QED
      BY <2>1, <2>2, <3>1, <3>3
  <2> QED
    BY <2>1, <2>2, <2>4
<1> HIDE DEF rest, f
<1>7. /\ task'[c].pc = pc /\ task'[c].made = task[c].made /\ task'[c].cut = task[c].cut
      /\ task'[c].tmp = tmp
  BY <1>1, <1>5 DEF Tasks
<1>8. /\ d \in DOMAIN dirs' /\ dirs'[d].name = tmp /\ dirs'[d].torn = dirs[d].torn
      /\ dirs'[d].files = dirs[d].files \cup {f}
  <2>1. dirs[d] \in Dirs
    BY <1>1, <1>4, DirType
  <2> QED
    BY <1>4, <1>5, <2>1 DEF Dirs
<1>9. ~task[c].made
  BY <1>1, <1>2 DEF LoneServing, At
<1>10. LoneMaking(c)'
  <2>1. d \in Named(task[c].tmp)'
    BY <1>7, <1>8 DEF Named
  <2>2. ~dirs'[d].torn /\ (pc = "replace" => Ready(d)')
    BY <1>3, <1>6, <1>8 DEF Ready
  <2> QED
    BY <1>7, <2>1, <2>2 DEF LoneMaking, At
<1> QED
  BY <1>1, <1>7, <1>9, <1>10 DEF LoneSteps, GoesOn, LoneRemoving, LoneServing, At

LEMMA ReplaceLone ==
  ASSUME Inv, NEW c \in Clients, Lone(c), LoneOK(c), Replace(c)
  PROVE  LoneSteps(c)
<1> DEFINE t == task[c].track
           tmp == task[c].tmp
<1>1. /\ task[c] \in Tasks /\ DOMAIN task = Clients /\ ~task[c].cut
      /\ Typed /\ NamesOK /\ TaskOK(c) /\ LoneMaking(c) /\ LoneServing(c)
      /\ t \in Tracks /\ Final(t) # NoName
  BY LoneIs
<1>2. At(c, "replace") /\ tmp # NoName /\ tmp # Final(t) /\ stream' = stream
  BY <1>1, TheirPaths DEF Replace, Goes, TaskOK, At
<1>3. PICK e \in Named(tmp) : Ready(e)
  BY <1>1, <1>2 DEF LoneMaking, At
<1>4. e \in DOMAIN dirs /\ dirs[e].name = tmp
  BY <1>3 DEF Named
<1>5. ~task[c].made
  BY <1>1, <1>2 DEF LoneServing, At
<1>6. CASE ~Exists(Final(t)) /\ To(c, "rename") /\ dirs' = dirs
  <2>1. /\ task'[c].pc = "rename" /\ task'[c].made = task[c].made /\ task'[c].cut = task[c].cut
        /\ task'[c].tmp = tmp /\ task'[c].track = t
    BY <1>1, <1>6 DEF Tasks, To
  <2>2. LoneMaking(c)'
    <3>1. Final(t)' = Final(t) /\ e \in Named(task[c].tmp)' /\ Ready(e)'
      BY <1>3, <1>4, <1>6, <2>1 DEF Final, Named, Ready
    <3>2. ~Exists(Final(t))'
      BY <1>6, <3>1 DEF Exists, Named
    <3> QED
      BY <2>1, <3>1, <3>2 DEF LoneMaking, At
  <2> QED
    BY <1>1, <1>5, <2>1, <2>2 DEF LoneSteps, GoesOn, LoneRemoving, LoneServing, At
<1>7. CASE Exists(Final(t)) /\ StartRemoving(c, Final(t), {}, 0)
  <2>1. PICK d \in DOMAIN dirs : d = DirAt(Final(t)) /\ dirs[d].name = Final(t)
    BY <1>7, DirAtIs
  <2>2. PICK some \in SUBSET dirs[d].files :
          /\ dirs' = [dirs EXCEPT ![d].files = @ \ some, ![d].torn = TRUE]
          /\ task' = [task EXCEPT ![c].pc = "remove", ![c].plan = {}, ![c].total = 0,
                                  ![c].dir = d, ![c].path = Final(t), ![c].left = dirs[d].files \ some]
    BY <1>7, <2>1 DEF StartRemoving
  <2>3. /\ task'[c].pc = "remove" /\ task'[c].dir = d /\ task'[c].path = Final(t)
        /\ task'[c].left = dirs[d].files \ some
        /\ task'[c].made = task[c].made /\ task'[c].cut = task[c].cut
        /\ task'[c].track = t /\ task'[c].tmp = tmp
    BY <1>1, <2>2 DEF Tasks
  <2>4. dirs[d] \in Dirs
    BY <1>1, <2>1, DirType
  <2>5. /\ DOMAIN dirs' = DOMAIN dirs /\ \A f \in DOMAIN dirs : f # d => dirs'[f] = dirs[f]
        /\ dirs'[d].name = Final(t) /\ dirs'[d].files = dirs[d].files \ some
    BY <2>1, <2>2, <2>4 DEF Dirs
  <2>6. Final(t)' = Final(t)
    BY <2>3 DEF Final
  <2>7. LoneMaking(c)'
    <3>1. e # d
      BY <1>2, <1>4, <2>1
    <3>2. e \in Named(task[c].tmp)' /\ Ready(e)'
      BY <1>3, <1>4, <2>3, <2>5, <3>1 DEF Named, Ready
    <3> QED
      BY <2>3, <3>2 DEF LoneMaking, At
  <2>8. LoneRemoving(c)'
    BY <1>5, <2>3, <2>5, <2>6 DEF LoneRemoving
  <2> QED
    BY <1>1, <1>5, <2>3, <2>7, <2>8 DEF LoneSteps, GoesOn, LoneServing, At
<1> QED
  BY <1>6, <1>7 DEF Replace

LEMMA RenameLone ==
  ASSUME Inv, NEW c \in Clients, Lone(c), LoneOK(c), Rename(c)
  PROVE  LoneSteps(c)
<1> DEFINE t == task[c].track
           tmp == task[c].tmp
           kept == [e \in DOMAIN dirs |-> IF e \in Named(Final(t)) THEN Gone ELSE dirs[e]]
<1>1. /\ task[c] \in Tasks /\ DOMAIN task = Clients /\ ~task[c].cut
      /\ Typed /\ NamesOK /\ TaskOK(c) /\ LoneMaking(c) /\ t \in Tracks
  BY LoneIs
<1>2. At(c, "rename") /\ tmp # NoName
  BY <1>1 DEF Rename, TaskOK, At
<1>3. Named(Final(t)) = {}
  BY <1>1, <1>2 DEF LoneMaking, Exists
<1>4. PICK d \in Named(tmp) : Ready(d)
  BY <1>1, <1>2 DEF LoneMaking, At
<1>5. Exists(tmp) /\ DirAt(tmp) = d /\ d \in DOMAIN dirs
  BY <1>1, <1>2, <1>4, TheDir
<1>6. /\ dirs' = [kept EXCEPT ![d].name = Final(t)]
      /\ task' = [task EXCEPT ![c].pc = "open", ![c].tmp = NoName, ![c].made = TRUE]
  BY <1>3, <1>5 DEF Rename
<1>7. kept[d] = dirs[d] /\ DOMAIN kept = DOMAIN dirs
  BY <1>3, <1>5
<1> HIDE DEF kept
<1>8. /\ d \in DOMAIN dirs' /\ dirs'[d].name = Final(t) /\ dirs'[d].torn = dirs[d].torn
      /\ dirs'[d].files = dirs[d].files
  <2>1. dirs[d] \in Dirs
    BY <1>1, <1>5, DirType
  <2>2. PICK name : name = Final(t)
    OBVIOUS
  <2>3. dirs' = [kept EXCEPT ![d].name = name]
    BY <1>6, <2>2
  <2> QED
    BY <1>5, <1>7, <2>1, <2>2, <2>3 DEF Dirs
<1>9. /\ task'[c].pc = "open" /\ task'[c].tmp = NoName /\ task'[c].track = t
      /\ task'[c].cut = task[c].cut
  BY <1>1, <1>6 DEF Tasks
<1>10. LoneServing(c)'
  <2>1. Final(t)' = Final(t)
    BY <1>9 DEF Final
  <2>2. d \in Named(Final(t))' /\ Ready(d)'
    BY <1>4, <1>8, <2>1 DEF Named, Ready
  <2> QED
    BY <1>9, <2>2 DEF LoneServing, At
<1> QED
  BY <1>1, <1>9, <1>10 DEF LoneSteps, GoesOn, LoneMaking, LoneRemoving, At

LEMMA ServeLone ==
  ASSUME Inv, NEW c \in Clients, Lone(c), LoneOK(c), Serve(c) \/ NotFound(c)
  PROVE  LoneSteps(c)
<1> DEFINE t == task[c].track
<1>1. /\ task[c] \in Tasks /\ DOMAIN task = Clients
      /\ Typed /\ NamesOK /\ SourcesOK /\ LoneServing(c) /\ t \in Tracks
      /\ Final(t) # NoName /\ Final(t).track = t
  BY LoneIs
<1>2. At(c, "serve") /\ task'[c].pc = "idle"
  BY <1>1 DEF Serve, NotFound, NoTask
<1>3. PICK d \in Named(Final(t)) :
         dirs[d].torn \/ (IndexFile \in dirs[d].files /\ SegmentCount(t) <= task[c].count)
  BY <1>1, <1>2 DEF LoneServing
<1>4. CASE dirs[d].torn
  BY <1>2, <1>4 DEF LoneSteps, Ends, At
<1>5. CASE ~dirs[d].torn
  <2>1. Exists(Final(t)) /\ DirAt(Final(t)) = d /\ d \in DOMAIN dirs /\ dirs[d].name = Final(t)
    BY <1>1, TheDir
  <2>2. Wanted(t) \subseteq dirs[d].files
    BY <1>1, <1>3, <1>5, <2>1 DEF Inv, Whole
  <2>3. \A f \in Wanted(t) : f < task[c].count
    <3>1. SegmentCount(t) \in Nat /\ task[c].count \in Nat
      BY <1>1, StreamType, TaskType
    <3>2. SegmentCount(t) <= task[c].count
      BY <1>3, <1>5
    <3>3. \A f \in Wanted(t) : f = -1 \/ f = -2 \/ f \in 0..(SegmentCount(t) - 1)
      BY DEF Wanted, IndexFile, InitFile
    <3> HIDE DEF t
    <3> QED
      BY <3>1, <3>2, <3>3
  <2> QED
    BY <1>2, <2>1, <2>2, <2>3 DEF LoneSteps, Ends, HasFile, At
<1> QED
  BY <1>4, <1>5

\* A lone request goes on alone.
LEMMA LoneGoesOn ==
  ASSUME Inv, NEW c \in Clients, LoneOK(c), Lone(c), Step(c)
  PROVE  LoneSteps(c)
BY AcquireLone, CollectLone, CollectFailsLone, EvictLone, FinishRemovingLone, TrimmedLone,
   OpenLone, TouchLone, GenerateLone, RemuxSourceLone, WriteLone, ReplaceLone, RenameLone,
   ServeLone, Zenon DEF Step

\* Only a new request is alone that was not.
LEMMA AloneStays ==
  ASSUME Inv, NEW c \in Clients, Step(c)
  PROVE  /\ ~At(c, "idle") /\ (task'[c].alone => task[c].alone)
         /\ \A e \in Clients \ {c} : task'[e] = task[e]
<1>1. task[c] \in Tasks /\ DOMAIN task = Clients /\ task \in [Clients -> Tasks]
  BY TaskType DEF Inv, Typed
<1> DEFINE Fine == /\ ~At(c, "idle") /\ (task'[c].alone => task[c].alone)
                   /\ \A e \in Clients \ {c} : task'[e] = task[e]
<1>2. task' = [task EXCEPT ![c] = NoTask] => ~task'[c].alone /\ \A e \in Clients \ {c} : task'[e] = task[e]
  BY <1>1 DEF NoTask
<1>3. \A pc : To(c, pc) => task'[c].alone = task[c].alone /\ \A e \in Clients \ {c} : task'[e] = task[e]
  BY <1>1 DEF To, Tasks
<1>18. \A name, plan, total : StartRemoving(c, name, plan, total) =>
         task'[c].alone = task[c].alone /\ \A e \in Clients \ {c} : task'[e] = task[e]
  <2> SUFFICES ASSUME NEW name, NEW plan, NEW total, StartRemoving(c, name, plan, total)
               PROVE  task'[c].alone = task[c].alone /\ \A e \in Clients \ {c} : task'[e] = task[e]
    OBVIOUS
  <2>1. PICK d, left :
           task' = [task EXCEPT ![c].pc = "remove", ![c].plan = plan, ![c].total = total,
                                ![c].dir = d, ![c].path = name, ![c].left = left]
    BY DEF StartRemoving
  <2> QED
    BY <1>1, <2>1 DEF Tasks
<1>4. ASSUME Fail(c) \/ Vanishes(c)
      PROVE  ~task'[c].alone /\ \A e \in Clients \ {c} : task'[e] = task[e]
  BY <1>2, <1>4 DEF Fail, Vanishes
<1>5. Acquire(c) => Fine
  BY <1>3 DEF Acquire, At
<1>6. Collect(c) => Fine
  <2> SUFFICES ASSUME Collect(c) PROVE Fine
    OBVIOUS
  <2> DEFINE entries == {d \in DOMAIN dirs : IndexFile \in dirs[d].files}
             plan == {[name |-> dirs[d].name, size |-> Size(d), stamp |-> dirs[d].stamp] : d \in entries}
             total == MapThenSumSet(Size, entries)
  <2>1. At(c, "collect") /\ task' = [task EXCEPT ![c].pc = "evict", ![c].plan = plan, ![c].total = total]
    BY DEF Collect
  <2> HIDE DEF plan, total
  <2> QED
    BY <1>1, <2>1 DEF Tasks, At
<1>7. CollectFails(c) \/ Serve(c) \/ NotFound(c) => Fine
  BY <1>2, <1>4 DEF CollectFails, Serve, NotFound, At
<1>8. Evict(c) => Fine
  <2> SUFFICES ASSUME Evict(c) PROVE Fine
    OBVIOUS
  <2>1. PICK e : At(c, "evict") /\ (Skip(c, e) \/ Remove(c, e))
    BY DEF Evict
  <2>2. CASE Skip(c, e)
    <3> DEFINE total == IF e.name = Preserved(c) THEN task[c].total ELSE Minus(task[c].total, e.size)
    <3>1. task' = [task EXCEPT ![c].plan = task[c].plan \ {e}, ![c].total = total]
      BY <1>1, <2>2 DEF Skip
    <3> HIDE DEF total
    <3> QED
      BY <1>1, <2>1, <3>1 DEF Tasks, At
  <2>3. CASE Remove(c, e)
    BY <1>18, <2>1, <2>3, Zenon DEF Remove, At
  <2> QED
    BY <2>1, <2>2, <2>3
<1>9. FinishRemoving(c) => Fine
  <2> SUFFICES ASSUME FinishRemoving(c) PROVE Fine
    OBVIOUS
  <2> DEFINE pc == IF task[c].tmp = NoName THEN "evict" ELSE "rename"
  <2>1. At(c, "remove") /\ (Fail(c) \/ task' = [task EXCEPT ![c].pc = pc, ![c].dir = 0, ![c].path = NoName,
                                                          ![c].left = {}])
    BY DEF FinishRemoving
  <2> HIDE DEF pc
  <2>2. CASE Fail(c)
    BY <1>4, <2>1, <2>2 DEF At
  <2>3. ASSUME task' = [task EXCEPT ![c].pc = pc, ![c].dir = 0, ![c].path = NoName, ![c].left = {}]
        PROVE  task'[c].alone = task[c].alone /\ \A e \in Clients \ {c} : task'[e] = task[e]
    BY <1>1, <2>3 DEF Tasks
  <2> QED
    BY <2>1, <2>2, <2>3 DEF At
<1>10. Trimmed(c) => Fine
  BY <1>1, <1>4 DEF Trimmed, Tasks, At
<1>11. Open(c) => Fine
  BY <1>1, <1>3, <1>4 DEF Open, Tasks, At
<1>12. Touch(c) => Fine
  BY <1>3, <1>4 DEF Touch, At
<1>13. Generate(c) => Fine
  BY <1>1 DEF Generate, Tasks, At
<1>14. RemuxSource(c) => Fine
  BY <1>1, <1>4 DEF RemuxSource, Tasks, At
<1>15. Write(c) => Fine
  <2> SUFFICES ASSUME Write(c) PROVE Fine
    OBVIOUS
  <2> DEFINE rest == Tail(task[c].todo)
             pc == IF rest = <<>> THEN "replace" ELSE task[c].pc
  <2>1. At(c, "write") /\ (Fail(c) \/ task' = [task EXCEPT ![c].todo = rest, ![c].pc = pc])
    BY <1>1 DEF Write
  <2> HIDE DEF rest, pc
  <2> QED
    BY <1>1, <1>4, <2>1 DEF Tasks, At
<1>16. Replace(c) => Fine
  BY <1>3, <1>18, Zenon DEF Replace, At
<1>17. Rename(c) => Fine
  <2>1. At(c, "rename") /\ Fail(c) => Fine
    BY <1>4 DEF At
  <2>2. At(c, "rename") /\ task' = [task EXCEPT ![c].pc = "open", ![c].tmp = NoName, ![c].made = TRUE] => Fine
    BY <1>1 DEF Tasks, At
  <2> HIDE DEF Fine
  <2> QED
    BY <2>1, <2>2 DEF Rename
<1> QED
  BY <1>5, <1>6, <1>7, <1>8, <1>9, <1>10, <1>11, <1>12, <1>13, <1>14, <1>15, <1>16, <1>17, Zenon DEF Step

LoneInv == \A c \in Clients : LoneOK(c)

LEMMA LoneNext ==
  ASSUME Inv, LoneInv, [Next]_vars
  PROVE  LoneInv'
<1>0. Typed /\ task \in [Clients -> Tasks]
  BY DEF Inv, Typed
<1>1. ASSUME NEW c \in Clients, Step(c)
      PROVE  LoneInv'
  <2>1. /\ ~At(c, "idle") /\ (task'[c].alone => task[c].alone)
        /\ \A e \in Clients \ {c} : task'[e] = task[e]
    BY <1>1, AloneStays
  <2>2. \A e \in Clients \ {c} : ~Lone(e)'
    BY <2>1 DEF LoneInv, LoneOK, Lone, At
  <2>3. ASSUME Lone(c)'
        PROVE  LoneOK(c)'
    <3>1. Lone(c) /\ LoneOK(c)
      BY <2>1, <2>3 DEF Lone, LoneInv
    <3>2. GoesOn(c)
      BY <1>1, <2>3, <3>1, LoneGoesOn DEF LoneSteps, Lone
    <3>3. \A e \in Clients \ {c} : At(e, "idle")'
      BY <2>1, <3>1 DEF LoneOK, At
    <3> QED
      BY <3>2, <3>3 DEF GoesOn, LoneOK
  <2> QED
    BY <2>2, <2>3 DEF LoneInv, LoneOK
<1>2. ASSUME NEW c \in Clients, HangUp(c)
      PROVE  LoneInv'
  <2>1. \A e \in Clients \ {c} : task'[e] = task[e]
    BY <1>0, <1>2 DEF HangUp
  <2>2. ~task'[c].alone
    BY <1>0, <1>2 DEF HangUp, NoTask, Tasks
  <2>3. \A e \in Clients \ {c} : ~Lone(e)
    BY <1>2 DEF LoneInv, LoneOK, HangUp, At
  <2> QED
    BY <2>1, <2>2, <2>3 DEF LoneInv, LoneOK, Lone, At
<1>3. ASSUME NEW c \in Clients, NEW t \in Tracks, Request(c, t)
      PROVE  LoneInv'
  <2> DEFINE lone == \A e \in Clients \ {c} : At(e, "idle")
             x == [NoTask EXCEPT !.pc = "lock", !.track = t, !.alone = lone]
  <2>1. task' = [d \in Clients |-> IF d = c THEN x ELSE [task[d] EXCEPT !.alone = FALSE]]
    BY <1>3 DEF Request
  <2>2. x.pc = "lock" /\ x.alone = lone /\ ~x.cut /\ ~x.made
    BY DEF NoTask
  <2> HIDE DEF x, lone
  <2>3. \A e \in Clients \ {c} : ~task'[e].alone /\ task'[e].pc = task[e].pc
    BY <1>0, <2>1 DEF Tasks
  <2>4. task'[c] = x
    BY <2>1
  <2>5. Lone(c)' => \A e \in Clients \ {c} : At(e, "idle")'
    BY <2>2, <2>3, <2>4 DEF Lone, At, lone
  <2>6. ~task'[c].cut /\ LoneMaking(c)' /\ LoneRemoving(c)' /\ LoneServing(c)'
    BY <2>2, <2>4 DEF LoneMaking, LoneRemoving, LoneServing, At
  <2> QED
    BY <2>3, <2>5, <2>6 DEF LoneInv, LoneOK, Lone
<1>4. CASE Crash
  BY <1>4 DEF Crash, NoTask, LoneInv, LoneOK, Lone, At
<1>5. CASE UNCHANGED <<dirs, task, stream>>
  BY <1>5 DEF LoneInv, LoneOK, Lone, LoneMaking, LoneRemoving, LoneServing, Ready, Named, Exists,
              Final, SegmentCount, At
<1>6. Tick \/ UNCHANGED vars => UNCHANGED <<dirs, task, stream>>
  BY DEF Tick, vars
<1> QED
  BY <1>1, <1>2, <1>3, <1>4, <1>5, <1>6 DEF Next

LEMMA LoneInvHolds == Spec => []LoneInv
<1>1. Init => LoneInv
  BY DEF Init, NoTask, LoneInv, LoneOK, Lone, At
<1>2. Inv /\ LoneInv /\ [Next]_vars => LoneInv'
  BY LoneNext
<1> QED
  BY <1>1, <1>2, InvHolds, PTL DEF Spec

\* A request that no other is beside, from its start to its end, is answered with the file
\* it asks for, whatever earlier requests, hang-ups and crashes have left in the cache and
\* whatever it evicts itself: every step finds what the steps before have left.
THEOREM LoneRequestsAlwaysSucceed == Spec => LoneRequestsSucceed
<1> DEFINE Succeeds ==
      \A c \in Clients :
          /\ task[c].alone /\ ~At(c, "idle") /\ task'[c].pc = "idle" /\ boot' = boot /\ hangups' = hangups
          => \/ ~stream[task[c].track].ok
             \/ \E d \in Named(Final(task[c].track)) : dirs[d].torn
             \/ At(c, "serve") /\ \A f \in Wanted(task[c].track) : HasFile(c, f)
<1>1. ASSUME Inv, LoneInv, [Next]_vars
      PROVE  Succeeds
  <2> SUFFICES ASSUME NEW c \in Clients, Lone(c), task'[c].pc = "idle", boot' = boot, hangups' = hangups
               PROVE  Ends(c)
    BY DEF Lone, Ends
  <2>0. LoneOK(c) /\ Typed /\ task \in [Clients -> Tasks] /\ ~At(c, "idle")
    BY <1>1 DEF LoneInv, Lone, Inv, Typed
  <2>1. ASSUME NEW e \in Clients, Step(e)
        PROVE  Ends(c)
    <3>1. e = c
      <4>1. ~At(e, "idle")
        BY <1>1, <2>1, AloneStays
      <4> QED
        BY <2>0, <4>1 DEF LoneOK
    <3>2. LoneSteps(c)
      BY <1>1, <2>0, <2>1, <3>1, LoneGoesOn
    <3> QED
      BY <3>2 DEF LoneSteps, GoesOn, At
  <2>2. ASSUME NEW e \in Clients, HangUp(e)
        PROVE  FALSE
    BY <1>1, <2>2 DEF HangUp, Inv, Typed
  <2>3. ASSUME NEW e \in Clients, NEW t \in Tracks, Request(e, t)
        PROVE  FALSE
    <3>1. e # c
      BY <2>0, <2>3 DEF Request
    <3>2. task'[c] = [task[c] EXCEPT !.alone = FALSE]
      BY <2>3, <3>1 DEF Request
    <3> QED
      BY <2>0, <3>2 DEF Tasks, At
  <2>4. ~Crash
    BY <1>1 DEF Crash, Inv, Typed
  <2>5. ~(Tick \/ UNCHANGED vars)
    BY <2>0 DEF Tick, vars, At
  <2> QED
    BY <1>1, <2>1, <2>2, <2>3, <2>4, <2>5 DEF Next
<1> QED
  BY <1>1, InvHolds, LoneInvHolds, PTL DEF Spec, LoneRequestsSucceed
==============================================================================
