------------------------------- MODULE MCHls -------------------------------
(* HlsCache on small instances: two tracks whose requests of two clients   *)
(* interleave, and one request for each of many files of every format,     *)
(* with headers of two and three bytes.                                    *)
EXTENDS HlsCache, TLC

CONSTANTS t1, t2

ShortHeaders == [mp3 |-> 2, adts |-> 2, wav |-> 2, aiff |-> 2, opus |-> 3]

\* A file of n frames of a segment's length each.
Frames(n) == [format |-> "mp3", tag |-> 0, rate |-> 1, len |-> 2 * n,
              at |-> [o \in 0..(2 * n) |-> IF o % 2 = 0 /\ o < 2 * n
                                           THEN [length |-> 2, dur |-> SegmentSecs] ELSE NoFrame]]

Unsupported == [format |-> "other", rate |-> 1]

Flacs ==
    {[format |-> "flac", blocks |-> b, bytes |-> s, crc |-> crc, block |-> k, maxBlock |-> 2,
      total |-> total, rate |-> 1] :
        b \in {<<[type |-> "streaminfo", last |-> TRUE, len |-> 1]>>,
               <<[type |-> "streaminfo", last |-> FALSE, len |-> 1]>>,
               <<[type |-> "padding", last |-> FALSE, len |-> 1],
                 [type |-> "streaminfo", last |-> TRUE, len |-> 1]>>},
        s \in {<<"x", "ff", "f8", "ff", "f8", "ff", "f8">>, <<"x", "x", "ff", "f8", "ff", "ff", "f8">>,
               <<"ff", "f8", "ff", "f8", "x", "ff", "f8", "ff">>},
        crc \in {{}, {2}, {1, 3}, {1, 5}, {2, 5}, {3, 5}},
        k \in {[o \in {1, 2, 3, 5} |-> IF o = 3 THEN n ELSE 1] : n \in {0, 1, 3}}, total \in {0, 1, 4}}

FrameSizes == {NoFrame} \cup {[length |-> l, dur |-> 1] : l \in 2..3}
Mp3s ==
    {[format |-> "mp3", tag |-> tag, rate |-> 1, len |-> len, at |-> at] :
        tag \in 0..1, len \in {5}, at \in [0..4 -> FrameSizes]}

AdtsFrames == {NoFrame} \cup {[length |-> 3, dur |-> 1, header |-> 2, key |-> k] : k \in 1..2}
                        \cup {[length |-> 2, dur |-> 1, header |-> 2, key |-> 1]}
Adtses ==
    {[format |-> "adts", rate |-> 1, len |-> 9, at |-> at @@ [o \in 4..9 |-> IF o = 6 THEN f ELSE NoFrame]] :
        at \in [0..3 -> AdtsFrames], f \in {NoFrame, [length |-> 3, dur |-> 1, header |-> 2, key |-> 1]}}

Pcms ==
    {[format |-> f, rate |-> 1, len |-> len, channels |-> 1, depth |-> d, highRate |-> (d = 20),
      chunks |-> <<[id |-> "fmt", size |-> fmt, skip |-> 0], [id |-> a, size |-> n, skip |-> 0],
                   [id |-> "data", size |-> m, skip |-> k]>>] :
        f \in {"wav", "aiff"}, len \in {12, 22}, d \in {16, 20}, fmt \in 1..2,
        a \in {"data", "list"}, n \in {1, 3}, m \in {4, 5, 6, 9}, k \in 0..1}

Opuses ==
    {[format |-> "opus", rate |-> 1, packetDur |-> 1, len |-> len, kinds |-> kinds,
      pages |-> <<a, b>>] :
        len \in {9, 14, 17}, kinds \in {<<"head">>, <<"head", "tags">>, <<"tags">>},
        a, b \in {<<1>>, <<1, 2>>, <<3>>, <<1, 3, 1>>, <<2, 3, 0>>}}

Mp4s ==
    {[format |-> "mp4", rate |-> 1, len |-> 4, demuxed |-> s] :
        s \in [1..3 -> [track : {"audio", "video"}, reports : BOOLEAN, offset : {1, 4},
                        size : {1}, dur : {1}]]}

OnTrack1(files) == {[source |-> [t \in Tracks |-> IF t = t1 THEN f ELSE Unsupported],
                     budget |-> 1, crashes |-> 0, hangups |-> 0, now |-> MaxClock] : f \in files}

ManyFiles == UNION {OnTrack1(f) : f \in {Flacs, Mp3s, Adtses, Pcms, Opuses, Mp4s}}

Tracks2(a, b, n, k, h, sec) ==
    [source |-> [t \in Tracks |-> IF t = t1 THEN a ELSE b], budget |-> n, crashes |-> k,
     hangups |-> h, now |-> sec]

\* A crash between any two steps; an entry over the limit; three requests; an error;
\* clients that hang up.
Concurrent == {Tracks2(Frames(1), Frames(2), 2, 1, 0, 0), Tracks2(Frames(1), Frames(3), 2, 0, 0, 1),
               Tracks2(Frames(1), Frames(2), 3, 0, 0, 1), Tracks2(Frames(2), Unsupported, 2, 0, 0, 0),
               Tracks2(Frames(1), Frames(1), 2, 0, 1, 1), Tracks2(Frames(2), Unsupported, 2, 0, 1, 0),
               Tracks2(Frames(2), Unsupported, 3, 0, 1, 1)}

All == Concurrent \cup ManyFiles
=============================================================================
