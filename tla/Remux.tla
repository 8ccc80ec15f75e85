------------------------------- MODULE Remux -------------------------------
(* How a music file becomes the segments of an HLS stream                  *)
(* (kanade-adapter-ws/src/hls.rs, remux_source to split_into_segments).    *)
(*                                                                         *)
(* A file is what its parser sees. Offsets and lengths are in bytes, with  *)
(* headers of the lengths given as constants; header fields that decide no *)
(* length, duration or sample entry are left out, and so are the encoders. *)
(*   flac       blocks: metadata blocks; bytes "ff", "f8" (the two bytes   *)
(*              of a sync code) or "x"; crc: offsets where a header check- *)
(*              sum fits; block: block size of a frame, 0 if not parsed    *)
(*   mp3, adts  at[o]: the frame that parses at o, or NoFrame              *)
(*   wav, aiff  chunks as the headers declare them, in a file of length len*)
(*   opus       pages with their lacing values; kinds of the packets       *)
(*   mp4        demuxed: the samples of all tracks                         *)
EXTENDS Integers, Sequences, FiniteSets

CONSTANTS
    NoFrame,        \* no frame header at an offset
    HeaderLen,      \* least bytes of a frame, page or chunk header, by format
    SsndHeader,     \* bytes before the samples of an AIFF sound chunk (8)
    FmtLen,         \* least length of a chunk with the sample format (16, 18)
    FullLace,       \* lacing value of a packet that goes on (255)
    SegmentSecs,    \* DEFAULT_SEGMENT_DURATION_SECS (6)
    PacketFrames    \* PCM frames of an ALAC packet (4096)

ASSUME RemuxConstants ==
    /\ HeaderLen \in [{"mp3", "adts", "wav", "aiff", "opus"} -> Nat \ {0}]
    /\ {SsndHeader, FmtLen, FullLace, SegmentSecs, PacketFrames} \subseteq Nat \ {0}

\* What the parsers can see of a file. An MPEG frame is never empty: its length is
\* computed from a bit rate and a sample rate of the tables.
IsFile(file) ==
    /\ file.rate \in Nat
    /\ file.format = "flac" =>
          /\ file.blocks \in Seq([type : STRING, last : BOOLEAN, len : Nat])
          /\ file.bytes \in Seq({"ff", "f8", "x"})
          /\ file.crc \subseteq Nat /\ \A o \in file.crc : file.block[o] \in Nat
          /\ file.maxBlock \in Nat /\ file.total \in Nat
    /\ file.format = "mp3" =>
          /\ file.tag \in Nat /\ file.len \in Nat
          /\ \A o \in 0..(file.len - HeaderLen["mp3"]) :
                file.at[o] # NoFrame => file.at[o] \in [length : Nat \ {0}, dur : Nat]
    /\ file.format = "adts" =>
          /\ file.len \in Nat
          /\ \A o \in 0..(file.len - HeaderLen["adts"]) :
                file.at[o] # NoFrame =>
                   /\ file.at[o].length \in Nat /\ file.at[o].header \in Nat /\ file.at[o].dur \in Nat
    /\ file.format \in {"wav", "aiff"} =>
          /\ file.chunks \in Seq([id : STRING, size : Nat, skip : Nat])
          /\ {file.len, file.channels, file.depth} \subseteq Nat
    /\ file.format = "opus" =>
          /\ file.pages \in Seq(Seq(Nat))
          /\ file.len \in Nat /\ file.packetDur \in Nat
    /\ file.format = "mp4" =>
          /\ file.demuxed \in Seq([track : STRING, reports : BOOLEAN, offset : Nat, size : Nat, dur : Nat])
          /\ file.len \in Nat

Least(a, b)    == IF a < b THEN a ELSE b
Greatest(a, b) == IF a > b THEN a ELSE b
Minus(a, b)    == Greatest(a - b, 0)      \* saturating_sub

\* The sum of the first n numbers of a sequence.
SumTo(s, n) == LET sum[i \in 0..n] == IF i = 0 THEN 0 ELSE sum[i - 1] + s[i]
               IN  sum[n]
SumAll(s)   == SumTo(s, Len(s))

\* RemuxSampleRef: bytes from..to-1 of the source, its duration in units of the
\* timescale, and which of the track's sample entries describes it.
Sample(from, to, dur, entry) == [from |-> from, to |-> to, dur |-> dur, entry |-> entry]

Durations(samples) == [i \in DOMAIN samples |-> samples[i].dur]

\* RemuxedTrack, or an error. A track without samples is an error of every
\* format, for PCM one that write_hls_output finds.
Track(samples) == [ok |-> samples # <<>>, samples |-> samples]
RemuxError     == [ok |-> FALSE, samples |-> <<>>]

\* For each position of keys, the first position of the run of equal keys that
\* it is in: entries are compared by pointer, and made at the start of a run.
RunStarts(keys) ==
    LET start[i \in 0..Len(keys)] ==
          IF i <= 1 THEN i ELSE IF keys[i] = keys[i - 1] THEN start[i - 1] ELSE i
    IN  start

-----------------------------------------------------------------------------
(* FLAC *)

\* parse_flac_metadata: blocks up to the one marked as last; the length of all
\* of them, or -1 when the file ends first or none is a STREAMINFO.
FlacAudioOffset(file) ==
    LET b     == file.blocks
        lasts == {i \in DOMAIN b : b[i].last}
        last  == CHOOSE i \in lasts : \A j \in lasts : i <= j
        read  == [i \in DOMAIN b |-> b[i].len]
    IN  IF lasts = {} \/ (\A i \in 1..last : b[i].type # "streaminfo")
                      \/ SumTo(read, last) > Len(file.bytes)
        THEN -1 ELSE SumTo(read, last)

IsSync(file, o) == /\ o + 1 < Len(file.bytes)
                   /\ file.bytes[o + 1] = "ff"
                   /\ file.bytes[o + 2] = "f8"

\* Mutant: a sync code without a fitting checksum ends the search.
FirstFrameStarts(file, from) ==
    LET starts[o \in Nat] ==
          IF o + 1 >= Len(file.bytes) THEN <<>>
          ELSE IF ~IsSync(file, o) THEN starts[o + 1]
          ELSE IF o \in file.crc THEN <<o>> \o starts[o + 2] ELSE <<>>
    IN  starts[from]

\* flac_frame_starts: offsets from o on of sync codes whose header has a fitting
\* checksum; the search goes on behind a sync code, whatever its checksum.
FlacFrameStarts(file, from) ==
    LET starts[o \in Nat] ==
          IF o + 1 >= Len(file.bytes) THEN <<>>
          ELSE IF ~IsSync(file, o) THEN starts[o + 1]
          ELSE (IF o \in file.crc THEN <<o>> ELSE <<>>) \o starts[o + 2]
    IN  starts[from]

\* parse_flac_frame_block_size: the header of a frame says how long it is (block), or
\* not (0): then it has the length that the STREAMINFO gives as the greatest.
FlacBlockSize(file, o) == IF file.block[o] = 0 THEN file.maxBlock ELSE file.block[o]

\* Mutant: the excess is taken off without leaving each frame a duration.
TrimToNothing(durs, total) ==
    LET n    == Len(durs)
        over == IF total > 0 THEN Minus(SumAll(durs), total) ELSE 0
    IN  [k \in 1..n |-> durs[k] - Least(durs[k], Minus(over, SumAll(durs) - SumTo(durs, k)))]

\* The end of remux_flac: what the frames' durations exceed total_samples by is
\* taken off from the last frame on, and each keeps a duration of at least 1.
TrimDurations(durs, total) ==
    LET n       == Len(durs)
        left[i \in 0..n] ==      \* excess when the last i frames are done
          IF i = 0 THEN IF total > 0 THEN Minus(SumAll(durs), total) ELSE 0
          ELSE left[i - 1] - Least(durs[n + 1 - i] - 1, left[i - 1])
    IN  [k \in 1..n |-> durs[k] - (left[n - k] - left[n + 1 - k])]

RemuxFlac(file) ==
    LET audio  == FlacAudioOffset(file)
        starts == FlacFrameStarts(file, audio)
        n      == Len(starts)
        durs   == [i \in 1..n |-> Greatest(1, FlacBlockSize(file, starts[i]))]
        trim   == TrimDurations(durs, file.total)
        end(i) == IF i < n THEN starts[i + 1] ELSE Len(file.bytes)
    IN  IF audio = -1 THEN RemuxError
        ELSE Track([i \in 1..n |-> Sample(starts[i], end(i), trim[i], 0)])

-----------------------------------------------------------------------------
(* MPEG and AAC frames *)

\* remux_mp3: frames one behind the other; a byte that starts none is skipped, a
\* frame that the file does not hold to its end stops the search.
RemuxMp3(file) ==
    LET scan[o \in Nat] ==
          LET f == file.at[o] IN
          IF o + HeaderLen["mp3"] > file.len THEN <<>>
          ELSE IF f = NoFrame THEN scan[o + 1]
          ELSE IF o + f.length > file.len THEN <<>>
          ELSE <<Sample(o, o + f.length, f.dur, 0)>> \o scan[o + f.length]
    IN  Track(scan[file.tag])

\* remux_aac_adts: likewise, without the frame's header, and with a new sample
\* entry where the parameters (the key) of the frames change. A frame that is no
\* longer than its header also stops the search.
RemuxAdts(file) ==
    LET scan[o \in Nat] ==
          LET f == file.at[o] IN
          IF o + HeaderLen["adts"] > file.len THEN <<>>
          ELSE IF f = NoFrame THEN scan[o + 1]
          ELSE IF o + f.length > file.len \/ f.length <= f.header THEN <<>>
          ELSE <<[from |-> o + f.header, to |-> o + f.length, dur |-> f.dur, key |-> f.key]>>
                   \o scan[o + f.length]
        frames  == scan[0]
        entries == RunStarts([i \in DOMAIN frames |-> frames[i].key])
    IN  Track([i \in DOMAIN frames |->
                 Sample(frames[i].from, frames[i].to, frames[i].dur, entries[i])])

-----------------------------------------------------------------------------
(* PCM: WAV and AIFF *)

\* parse_wav_pcm, parse_aiff_pcm: the chunks in the file, padded to even lengths;
\* one that is declared longer than the file ends the walk. The last format and
\* the last data chunk count.
WalkChunks(file) ==
    LET extra == IF file.format = "aiff" THEN SsndHeader ELSE 0
        walk[i \in 0..Len(file.chunks)] ==
          IF i = 0 THEN [offset |-> 0, fmt |-> FALSE, from |-> -1, len |-> 0, stop |-> FALSE]
          ELSE LET w    == walk[i - 1]
                   c    == file.chunks[i]
                   body == w.offset + HeaderLen[file.format]
                   end  == body + c.size
                   skip == IF file.format = "aiff" THEN c.skip ELSE 0
                   data == c.id = "data" /\ c.size >= extra
               IN  IF w.stop \/ end > file.len THEN [w EXCEPT !.stop = TRUE]
                   ELSE [offset |-> end + (c.size % 2),
                         fmt    |-> w.fmt \/ (c.id = "fmt" /\ c.size >= FmtLen),
                         from   |-> IF data THEN body + extra + skip ELSE w.from,
                         len    |-> IF data THEN Minus(c.size, extra + skip) ELSE w.len,
                         stop   |-> FALSE]
    IN  walk[Len(file.chunks)]

\* pcm_bytes_per_sample: 20 bits take three bytes; 0 stands for its error.
PcmBytesPerSample(depth) == CASE depth = 16 -> 2 [] depth \in {20, 24} -> 3
                              [] depth = 32 -> 4 [] OTHER -> 0

\* pcm_chunks: pieces of a segment's length, cut between frames; what is left
\* when no whole frame is, is the last piece.
PcmChunks(from, to, frame, rate) ==
    LET size == Greatest(rate * SegmentSecs * frame, frame)
        cut[o \in Nat] ==
          LET next    == Least(o + size, to)
              aligned == next - ((next - o) % frame)
              end     == IF aligned = o THEN to ELSE aligned
          IN  IF o >= to THEN <<>>
              ELSE <<Sample(o, end, Greatest((end - o) \div frame, 1), 0)>> \o cut[end]
    IN  cut[from]

\* remux_pcm_as_alac: packets of PacketFrames frames; a payload that is not whole
\* frames is an error. A sample's range is the PCM that its packet encodes.
AlacPackets(from, to, frame) ==
    LET size == PacketFrames * frame
        n    == (to - from + size - 1) \div size
        start(i) == from + (i - 1) * size
        end(i)   == Least(start(i) + size, to)
    IN  [i \in 1..n |-> Sample(start(i), end(i), (end(i) - start(i)) \div frame, 0)]

\* remux_wav, remux_aiff: samples at high rates do not fit the MP4 sample entry and
\* are encoded; others are packed as they are.
RemuxPcm(file) ==
    LET w     == WalkChunks(file)
        lpcm  == Greatest((file.channels * file.depth) \div 8, 1)
        alac  == file.channels * PcmBytesPerSample(file.depth)
    IN  IF w.from = -1 \/ ~w.fmt THEN RemuxError
        ELSE IF ~file.highRate THEN Track(PcmChunks(w.from, w.from + w.len, lpcm, file.rate))
        ELSE IF alac = 0 \/ w.len % Greatest(alac, 1) # 0 THEN RemuxError
        ELSE Track(AlacPackets(w.from, w.from + w.len, alac))

-----------------------------------------------------------------------------
(* Opus in Ogg, MP4 *)

\* parse_ogg_opus_packets: lengths of the packets. Pages follow each other; a page
\* that the file does not hold is an error (-1), a rest shorter than a page header
\* is ignored. A packet ends at a lacing value below FullLace, or with the file.
OggPackets(file) ==
    LET page(i)  == HeaderLen["opus"] + Len(file.pages[i]) + SumAll(file.pages[i])
        n        == Len(file.pages)
        ends     == [k \in 1..n |-> SumTo([i \in 1..n |-> page(i)], k)]
        \* pages whose header is in the file
        read     == {k \in 1..n : ends[k] - page(k) + HeaderLen["opus"] <= file.len}
        laces[k \in 0..n] == IF k = 0 THEN <<>>
                             ELSE laces[k - 1] \o (IF k \in read THEN file.pages[k] ELSE <<>>)
        all      == laces[n]
        packet[k \in 0..Len(all)] ==
          IF k = 0 THEN [done |-> <<>>, open |-> 0]
          ELSE LET p == packet[k - 1]
                   l == p.open + all[k]
               IN  IF all[k] < FullLace THEN [done |-> Append(p.done, l), open |-> 0]
                   ELSE [done |-> p.done, open |-> l]
        last     == packet[Len(all)]
    IN  IF \E k \in read : ends[k] > file.len THEN <<-1>>
        ELSE IF last.open > 0 THEN Append(last.done, last.open) ELSE last.done

\* remux_opus: the audio packets one behind the other; header packets are left out,
\* and without an identification header the file is refused.
RemuxOpus(file) ==
    LET packets == OggPackets(file)
        kind(k) == IF k \in DOMAIN file.kinds THEN file.kinds[k] ELSE "audio"
        lens[k \in 0..Len(packets)] ==
          IF k = 0 THEN <<>>
          ELSE IF kind(k) = "audio" THEN Append(lens[k - 1], packets[k]) ELSE lens[k - 1]
        audio   == lens[Len(packets)]
    IN  IF packets = <<-1>> \/ (\A k \in DOMAIN packets : kind(k) # "head") THEN RemuxError
        ELSE Track([k \in DOMAIN audio |->
                      Sample(SumTo(audio, k - 1), SumTo(audio, k), file.packetDur, 0)])

\* The samples of the audio track.
AudioOf(demuxed) ==
    LET upTo[i \in 0..Len(demuxed)] ==
          IF i = 0 THEN <<>>
          ELSE IF demuxed[i].track = "audio" THEN Append(upTo[i - 1], demuxed[i]) ELSE upTo[i - 1]
    IN  upTo[Len(demuxed)]

\* remux_mp4: the samples of the audio track in the order of the demuxer. An entry
\* holds until the next is reported, of any track that is audio; a sample before the
\* first, or one outside the file, is an error.
RemuxMp4(file) ==
    LET audio == AudioOf(file.demuxed)
        entry[i \in 0..Len(audio)] ==
          IF i = 0 THEN 0 ELSE IF audio[i].reports THEN i ELSE entry[i - 1]
        bad(i)  == entry[i] = 0 \/ audio[i].offset + audio[i].size > file.len
    IN  IF \E i \in DOMAIN audio : bad(i) THEN RemuxError
        ELSE Track([i \in DOMAIN audio |->
                      Sample(audio[i].offset, audio[i].offset + audio[i].size,
                             audio[i].dur, entry[i])])

-----------------------------------------------------------------------------
\* remux_source.
Remuxed(file) ==
    CASE file.format = "flac"           -> RemuxFlac(file)
      [] file.format = "mp3"            -> RemuxMp3(file)
      [] file.format = "adts"           -> RemuxAdts(file)
      [] file.format \in {"wav", "aiff"} -> RemuxPcm(file)
      [] file.format = "opus"           -> RemuxOpus(file)
      [] file.format = "mp4"            -> RemuxMp4(file)
      [] OTHER                          -> RemuxError

\* Mutant: a new sample entry does not start a segment.
SplitByDuration(samples, target) ==
    LET n == Len(samples)
        upTo[i \in 0..n] ==
          IF i = 0 THEN [closed |-> <<>>, first |-> 1, dur |-> 0]
          ELSE LET p == upTo[i - 1]
                   d == samples[i].dur
               IN  IF i > p.first /\ p.dur > 0 /\ p.dur + d > target
                   THEN [closed |-> Append(p.closed, [first |-> p.first, last |-> i - 1, dur |-> p.dur]),
                         first  |-> i, dur |-> d]
                   ELSE [p EXCEPT !.dur = p.dur + d]
    IN  Append(upTo[n].closed, [first |-> upTo[n].first, last |-> n, dur |-> upTo[n].dur])

\* split_into_segments: a segment ends before the sample that would take it beyond
\* the target duration, and where the sample entry changes.
SplitIntoSegments(samples, target) ==
    LET n == Len(samples)
        upTo[i \in 0..n] ==
          IF i = 0 THEN [closed |-> <<>>, first |-> 1, dur |-> 0]
          ELSE LET p       == upTo[i - 1]
                   s       == samples[i]
                   exceeds == p.dur > 0 /\ p.dur + s.dur > target
                   changed == i > p.first /\ samples[i - 1].entry # s.entry
               IN  IF i > p.first /\ (exceeds \/ changed)
                   THEN [closed |-> Append(p.closed, [first |-> p.first, last |-> i - 1, dur |-> p.dur]),
                         first  |-> i, dur |-> s.dur]
                   ELSE [p EXCEPT !.dur = p.dur + s.dur]
        end == upTo[n]
    IN  IF n = 0 THEN <<>>
        ELSE Append(end.closed, [first |-> end.first, last |-> n, dur |-> end.dur])

\* The segments that write_hls_output writes.
Segments(file) == SplitIntoSegments(Remuxed(file).samples, Greatest(file.rate * SegmentSecs, 1))

-----------------------------------------------------------------------------
(* What the samples and segments of a file that is accepted ought to be, said   *)
(* of the file as a whole. HlsCache states it of what it writes.                *)

Tile(samples, from, to) ==
    LET n == Len(samples) IN
    IF n = 0 THEN from = to
    ELSE /\ samples[1].from = from /\ samples[n].to = to
         /\ \A i \in 1..(n - 1) : samples[i].to = samples[i + 1].from

\* Frames of a stream (MPEG, AAC): the samples are frames in their order, and a frame
\* that is in none of them lies in one, or behind them and one that cannot be used: the
\* file does not hold it, or it says that it is no longer than its header.
FramesAreKept(file, samples, from) ==
    LET frames    == {o \in from..(file.len - HeaderLen[file.format]) : file.at[o] # NoFrame}
        end(o)    == o + file.at[o].length
        of(i)     == {o \in frames : o <= samples[i].from /\ end(o) = samples[i].to}
        unfit(o)  == \/ end(o) > file.len
                     \/ file.format = "adts" /\ file.at[o].length <= file.at[o].header
    IN  /\ \A i \in DOMAIN samples : of(i) # {}
        /\ \A i, j \in DOMAIN samples : i < j => samples[i].to <= samples[j].from
        /\ \A o \in frames :
              \/ \E i \in DOMAIN samples : \E p \in of(i) : p = o \/ (p < o /\ o < end(p))
              \/ \E p \in frames : /\ p <= o /\ unfit(p)
                                   /\ \A i \in DOMAIN samples : samples[i].to <= p

\* The place of k in a set of numbers.
Place(set, k) == Cardinality({j \in set : j <= k})

\* All of a file's audio is in the samples, and nothing else.
Keeps(file, samples) ==
    LET n == Len(samples)
    IN  CASE file.format = "flac" ->
               /\ {samples[i].from : i \in 1..n}
                    = {o \in FlacAudioOffset(file)..Len(file.bytes) : IsSync(file, o) /\ o \in file.crc}
               /\ Tile(samples, samples[1].from, Len(file.bytes))
          [] file.format = "mp3"  -> FramesAreKept(file, samples, file.tag)
          [] file.format = "adts" -> FramesAreKept(file, samples, 0)
          [] file.format \in {"wav", "aiff"} ->
               \E w \in {WalkChunks(file)} :
                  w.from + w.len <= file.len /\ Tile(samples, w.from, w.from + w.len)
          [] file.format = "opus" ->
               \E packets \in {OggPackets(file)} :
                  LET audio   == {k \in DOMAIN packets : k \in DOMAIN file.kinds => file.kinds[k] = "audio"}
                      lengths == [k \in DOMAIN packets |-> IF k \in audio THEN packets[k] ELSE 0]
                  IN  /\ n = Cardinality(audio)
                      /\ \A k \in audio : /\ samples[Place(audio, k)].from = SumTo(lengths, k - 1)
                                          /\ samples[Place(audio, k)].to = SumTo(lengths, k)
          [] file.format = "mp4"  ->
               LET d     == file.demuxed
                   audio == {k \in DOMAIN d : d[k].track = "audio"}
               IN  /\ n = Cardinality(audio)
                   /\ \A k \in audio :
                         LET s == samples[Place(audio, k)]
                         IN  /\ s.from = d[k].offset /\ s.to = d[k].offset + d[k].size
                             /\ s.to <= file.len
                             /\ \E e \in audio : /\ s.entry = Place(audio, e) /\ d[e].reports /\ e <= k
                                                 /\ \A j \in audio : e < j /\ j <= k => ~d[j].reports
          [] OTHER -> TRUE

AudioIsKept(file) == Keeps(file, Remuxed(file).samples)

\* Segment s is made of samples that one sample entry describes, and is no longer than
\* the target unless it is one sample; next is the number of the sample it could have
\* had as well, but for the target or another entry.
SegmentFits(samples, s, target, next) ==
    LET length(a, b) == SumTo(Durations(samples), b) - SumTo(Durations(samples), a - 1)
    IN  /\ s.first <= s.last /\ s.dur = length(s.first, s.last)
        /\ s.dur <= target \/ length(s.first, s.last - 1) = 0
        /\ \A i \in s.first..s.last : samples[i].entry = samples[s.first].entry
        /\ next = s.last + 1
        /\ next \in DOMAIN samples =>
              \/ s.dur + samples[next].dur > target
              \/ samples[next].entry # samples[s.last].entry

\* Segments partition the samples, in their order.
SegmentsCover(samples, segs, target) ==
    /\ segs # <<>> /\ segs[1].first = 1
    /\ \A k \in DOMAIN segs :
          SegmentFits(samples, segs[k], target,
                      IF k < Len(segs) THEN segs[k + 1].first ELSE Len(samples) + 1)

SegmentsFit(file) == SegmentsCover(Remuxed(file).samples, Segments(file), Greatest(file.rate * SegmentSecs, 1))

\* The durations add up to the audio of the source: the samples that the header of a FLAC
\* file counts (never less than one per frame), the frames of a PCM payload and a rest.
AddUp(file, samples) ==
    LET total   == SumAll(Durations(samples))
        coded   == SumAll([i \in DOMAIN samples |-> Greatest(FlacBlockSize(file, samples[i].from), 1)])
        bytes   == file.channels * ((file.depth + 7) \div 8)
        len     == WalkChunks(file).len
    IN  CASE file.format = "flac" ->
               total = IF file.total = 0 \/ coded <= file.total THEN coded
                       ELSE Greatest(file.total, Len(samples))
          [] file.format \in {"wav", "aiff"} -> total = (len + bytes - 1) \div bytes
          [] OTHER -> TRUE

DurationsFit(file) == AddUp(file, Remuxed(file).samples)
=============================================================================
