------------------------------ MODULE HlsCache ------------------------------
(* The cache of generated HLS streams (kanade-adapter-ws/src/hls.rs) under  *)
(* the requests of the playlist, init and segment handlers                  *)
(* (server.rs).  A track has one variant here: the variant is only a part   *)
(* of the keys.                                                             *)
(*                                                                          *)
(* Directories are inodes: they keep their identity when they are renamed,  *)
(* and remove_dir_all goes on in the one it has opened.  Files are opened   *)
(* by name.  The size of a directory is its number of segments.  The        *)
(* process may stop at any step and start again on what the disk holds.  A  *)
(* client may hang up: its handler is dropped, and the lock with it, but    *)
(* what runs on a blocking thread goes on.                                  *)
EXTENDS Remux, FiniteSetsExt

CONSTANTS
    Tracks, Clients,
    Limit,          \* max_size_bytes, in segments
    MaxClock,       \* bound: seconds that pass
    Instances,      \* bound: what a behaviour starts with: source, budget, crashes, hangups, now
    NoClient, NoName

ASSUME CacheConstants ==
    /\ Limit \in Nat /\ MaxClock \in Nat
    /\ NoClient \notin Clients
    /\ NoName \notin [track : Tracks, boot : Nat, sec : 0..MaxClock]
    /\ \A i \in Instances : /\ {i.budget, i.crashes, i.hangups} \subseteq Nat
                            /\ i.now \in 0..MaxClock
                            /\ \A t \in Tracks : IsFile(i.source[t])

VARIABLES
    source,     \* the music file of each track, which does not change
    stream,     \* what remux_source and split_into_segments make of it
    dirs,       \* directories made so far: name, files, last access, torn
    holder,     \* the client that holds the lock of a track's variant
    task,       \* what each client's request is at
    now,        \* current_unix_secs
    boot,       \* number of the process (its id)
    owed,       \* a request failed or was dropped, or the process stopped, since the last trim began
    budget, crashes, hangups

vars == <<source, stream, dirs, holder, task, now, boot, owed, budget, crashes, hangups>>

-----------------------------------------------------------------------------
(* Directories *)

IndexFile == -1     \* index.m3u8
InitFile  == -2     \* init.mp4
StampFile == -3     \* .last_access; the other files are segments, from 0 on

Final(t) == [track |-> t, boot |-> 0, sec |-> 0]
Tmp(t)   == [track |-> t, boot |-> boot, sec |-> now]

Gone == [name |-> NoName, files |-> {}, stamp |-> 0, torn |-> FALSE]

Named(name)  == {d \in DOMAIN dirs : dirs[d].name = name}
Exists(name) == Named(name) # {}
DirAt(name)  == CHOOSE d \in Named(name) : TRUE

Size(d) == Cardinality({f \in dirs[d].files : f >= 0})

SegmentCount(t) == stream[t].segments

\* write_hls_output's files, in their order.
OutputFiles(t) == [i \in 1..SegmentCount(t) |-> i - 1] \o <<InitFile, IndexFile>>

\* HlsSegments::open: the number of consecutive segments, 0 for its errors.
Openable(name) ==
    IF ~Exists(name) \/ ~({IndexFile, InitFile} \subseteq dirs[DirAt(name)].files) THEN 0
    ELSE LET files == dirs[DirAt(name)].files
         IN  CHOOSE n \in 0..Cardinality(files) : n \notin files /\ 0..(n - 1) \subseteq files

-----------------------------------------------------------------------------
(* Requests *)

NoTask == [pc |-> "idle", track |-> NoName, made |-> FALSE, plan |-> {}, total |-> 0,
           dir |-> 0, path |-> NoName, left |-> {}, todo |-> <<>>, tmp |-> NoName, count |-> 0,
           alone |-> FALSE, cut |-> FALSE]

At(c, pc) == task[c].pc = pc
To(c, pc) == task' = [task EXCEPT ![c].pc = pc]

Release(c) == holder' = [t \in Tracks |-> IF holder[t] = c THEN NoClient ELSE holder[t]]

\* Mutant: an error keeps the lock.
FailLocked(c) ==
    /\ task' = [task EXCEPT ![c] = NoTask]
    /\ owed' = TRUE
    /\ UNCHANGED <<source, stream, holder, now, boot, budget, crashes, hangups>>

\* An error of any step: the lock is dropped and the handler answers 500.
Fail(c) ==
    /\ task' = [task EXCEPT ![c] = NoTask]
    /\ Release(c)
    /\ owed' = TRUE
    /\ UNCHANGED <<source, stream, now, boot, budget, crashes, hangups>>

Goes == UNCHANGED <<source, stream, now, boot, budget, crashes, hangups>>

Request(c, t) ==
    /\ At(c, "idle") /\ budget > 0
    /\ budget' = budget - 1
    /\ task' = [d \in Clients |->
                  IF d = c THEN [NoTask EXCEPT !.pc = "lock", !.track = t,
                                   !.alone = \A e \in Clients \ {c} : At(e, "idle")]
                  ELSE [task[d] EXCEPT !.alone = FALSE]]
    /\ UNCHANGED <<source, stream, dirs, holder, now, boot, owed, crashes, hangups>>

\* What a blocking thread runs: a trim with the evictions in it, a lookup, a generation.
Blocking == {"collect", "evict", "remove", "open", "generate", "remux", "write", "replace", "rename"}

\* The client hangs up and the handler is dropped at an await.
HangUp(c) ==
    /\ ~At(c, "idle") /\ ~task[c].cut /\ hangups > 0
    /\ hangups' = hangups - 1
    /\ task' = [task EXCEPT ![c] = IF @.pc \in Blocking THEN [@ EXCEPT !.cut = TRUE, !.alone = FALSE]
                                   ELSE NoTask]
    /\ Release(c)
    /\ owed' = TRUE
    /\ UNCHANGED <<source, stream, dirs, now, boot, budget, crashes>>

\* The blocking thread of a handler that was dropped is done.
Vanishes(c) ==
    /\ task' = [task EXCEPT ![c] = NoTask]
    /\ owed' = TRUE
    /\ UNCHANGED holder

\* Mutant: a request does not wait for the lock of the variant.
AcquireAnyway(c) ==
    /\ At(c, "lock")
    /\ holder' = [holder EXCEPT ![task[c].track] = c]
    /\ To(c, "collect")
    /\ UNCHANGED <<dirs, owed>> /\ Goes

Acquire(c) ==
    /\ At(c, "lock")
    /\ holder[task[c].track] = NoClient
    /\ holder' = [holder EXCEPT ![task[c].track] = c]
    /\ To(c, "collect")
    /\ UNCHANGED <<dirs, owed>> /\ Goes

\* Mutant: a new entry is trimmed to the limit like any other.
PreserveNothing(c) == NoName

\* enforce_size_limit's preserve: the entry that was just generated.
Preserved(c) == IF task[c].made THEN Final(task[c].track) ELSE NoName

\* collect_cache_entries: whatever is a directory with a playlist, also one that
\* generate_hls is about to rename.
Collect(c) ==
    LET entries == {d \in DOMAIN dirs : IndexFile \in dirs[d].files}
        plan    == {[name |-> dirs[d].name, size |-> Size(d), stamp |-> dirs[d].stamp] : d \in entries}
    IN  /\ At(c, "collect")
        /\ task' = [task EXCEPT ![c].pc = "evict", ![c].plan = plan, ![c].total = MapThenSumSet(Size, entries)]
        /\ owed' = FALSE
        /\ UNCHANGED <<dirs, holder>> /\ Goes

\* A directory goes, or is renamed, while its size is being taken.
CollectFails(c) ==
    /\ At(c, "collect")
    /\ \E e \in Clients \ {c} : task[e].pc \in {"remove", "replace", "rename"}
    /\ Fail(c)
    /\ UNCHANGED dirs

\* enforce_size_limit_blocking is done: the lookup, or the answer, follows.
Trimmed(c) ==
    /\ At(c, "evict")
    /\ task[c].total <= Limit \/ task[c].plan = {}
    /\ \/ task[c].cut /\ Vanishes(c)
       \/ /\ ~task[c].cut /\ task[c].made
          /\ Release(c)
          /\ task' = [task EXCEPT ![c].pc = "serve", ![c].plan = {}, ![c].total = 0]
          /\ UNCHANGED owed
       \/ /\ ~task[c].cut /\ ~task[c].made
          /\ task' = [task EXCEPT ![c].pc = "open", ![c].plan = {}, ![c].total = 0]
          /\ UNCHANGED <<holder, owed>>
    /\ UNCHANGED dirs /\ Goes

\* The next entry to evict has the oldest access; ties are in any order.
Oldest(c) == {e \in task[c].plan : \A f \in task[c].plan : e.stamp <= f.stamp}

\* Mutant: what is preserved is taken off the total as well.
SkipAndSubtract(c, e) ==
    /\ e.name = Preserved(c) \/ ~Exists(e.name)
    /\ task' = [task EXCEPT ![c].plan = @ \ {e}, ![c].total = Minus(@, e.size)]
    /\ UNCHANGED dirs

\* A preserved entry still counts; one that is gone does not.
Skip(c, e) ==
    /\ e.name = Preserved(c) \/ ~Exists(e.name)
    /\ task' = [task EXCEPT ![c].plan = @ \ {e},
                            ![c].total = IF e.name = Preserved(c) THEN @ ELSE Minus(@, e.size)]
    /\ UNCHANGED dirs

\* remove_dir_all lists the directory and has unlinked some of its files.
StartRemoving(c, name, plan, total) ==
    LET d == DirAt(name) IN
    \E some \in SUBSET dirs[d].files :
       /\ dirs' = [dirs EXCEPT ![d].files = @ \ some, ![d].torn = TRUE]
       /\ task' = [task EXCEPT ![c].pc = "remove", ![c].plan = plan, ![c].total = total,
                               ![c].dir = d, ![c].path = name, ![c].left = dirs[d].files \ some]

Remove(c, e) ==
    /\ e.name # Preserved(c) /\ Exists(e.name)
    /\ StartRemoving(c, e.name, task[c].plan \ {e}, Minus(task[c].total, e.size))

Evict(c) ==
    /\ At(c, "evict") /\ task[c].total > Limit
    /\ \E e \in Oldest(c) : Skip(c, e) \/ Remove(c, e)
    /\ UNCHANGED <<holder, owed>> /\ Goes

\* remove_dir_all unlinks what it has listed and removes the directory. It fails when
\* a file was added since; when another removal or a rename came first, the version
\* of the standard library decides.
FinishRemoving(c) ==
    LET d     == task[c].dir
        rest  == dirs[d].files \ task[c].left
        first == dirs[d].name = task[c].path /\ task[c].left \subseteq dirs[d].files
    IN  /\ At(c, "remove")
        /\ dirs' = [dirs EXCEPT ![d] = IF @.name = task[c].path /\ rest = {}
                                       THEN Gone ELSE [@ EXCEPT !.files = rest]]
        /\ \/ /\ rest = {}
              /\ task' = [task EXCEPT ![c].pc = IF task[c].tmp = NoName THEN "evict" ELSE "rename",
                                      ![c].dir = 0, ![c].path = NoName, ![c].left = {}]
              /\ UNCHANGED <<holder, owed>> /\ Goes
           \/ /\ ~first \/ rest # {}
              /\ Fail(c)

-----------------------------------------------------------------------------
(* Looking an entry up, and generating it *)

Open(c) ==
    LET t == task[c].track
        n == Openable(Final(t))
    IN  /\ At(c, "open")
        /\ UNCHANGED dirs
        /\ \/ task[c].cut /\ Vanishes(c) /\ Goes
           \/ /\ n > 0 /\ ~task[c].cut
              /\ task' = [task EXCEPT ![c].pc = "touch", ![c].count = n]
              /\ UNCHANGED <<holder, owed>> /\ Goes
           \/ /\ n = 0 /\ ~task[c].made /\ ~task[c].cut
              /\ To(c, "generate")
              /\ UNCHANGED <<holder, owed>> /\ Goes
           \/ n = 0 /\ task[c].made /\ ~task[c].cut /\ Fail(c)

\* HlsSegments::touch; a hit is answered, a new entry trims the others.
Touch(c) ==
    LET t == task[c].track IN
    /\ At(c, "touch")
    /\ \/ /\ Exists(Final(t))
          /\ dirs' = [dirs EXCEPT ![DirAt(Final(t))].stamp = now,
                                  ![DirAt(Final(t))].files = @ \cup {StampFile}]
          /\ IF task[c].made THEN To(c, "collect") /\ UNCHANGED holder
                             ELSE To(c, "serve") /\ Release(c)
          /\ UNCHANGED owed /\ Goes
       \/ ~Exists(Final(t)) /\ Fail(c) /\ UNCHANGED dirs

\* Mutant: what a request that failed in the same second has left is not removed.
GenerateBeside(c) ==
    LET t == task[c].track IN
    /\ At(c, "generate")
    /\ dirs' = Append(dirs, [name |-> Tmp(t), files |-> {}, stamp |-> now, torn |-> FALSE])
    /\ task' = [task EXCEPT ![c].pc = "remux", ![c].tmp = Tmp(t)]
    /\ UNCHANGED <<holder, owed>> /\ Goes

\* Generations that share a temporary directory, after a client has hung up.
Shared(c) == \E e \in Clients \ {c} : /\ task[e].tmp = Tmp(task[c].track)
                                      /\ task[e].cut \/ task[c].cut

\* A temporary directory of its own, whatever one of that name holds is removed (in one
\* step with its making: only generations that share the name could come in between, and
\* their entries count as torn).
Generate(c) ==
    LET t   == task[c].track
        old == Named(Tmp(t))
    IN  /\ At(c, "generate")
        /\ dirs' = Append([d \in DOMAIN dirs |-> IF d \in old THEN Gone ELSE dirs[d]],
                          [name |-> Tmp(t), files |-> {}, stamp |-> now, torn |-> Shared(c)])
        /\ task' = [task EXCEPT ![c].pc = "remux", ![c].tmp = Tmp(t)]
        /\ UNCHANGED <<holder, owed>> /\ Goes

\* remux_source, and the segments it is split into.
RemuxSource(c) ==
    LET t == task[c].track IN
    /\ At(c, "remux")
    /\ \/ /\ stream[t].ok
          /\ task' = [task EXCEPT ![c].pc = "write", ![c].todo = OutputFiles(t)]
          /\ UNCHANGED <<holder, owed>> /\ Goes
       \/ ~stream[t].ok /\ Fail(c)
    /\ UNCHANGED dirs

\* write_hls_output: one file after the other, the playlist last. (A file that cannot be
\* muxed or written ends the request as a failing remux does, with some files more in a
\* temporary directory that nobody opens: not modelled apart.)
Write(c) ==
    LET tmp == task[c].tmp IN
    /\ At(c, "write")
    /\ \/ /\ Exists(tmp)
          /\ dirs' = [dirs EXCEPT ![DirAt(tmp)].files = @ \cup {Head(task[c].todo)}]
          /\ task' = [task EXCEPT ![c].todo = Tail(@),
                                  ![c].pc = IF Tail(task[c].todo) = <<>> THEN "replace" ELSE @]
          /\ UNCHANGED <<holder, owed>> /\ Goes
       \/ ~Exists(tmp) /\ Fail(c) /\ UNCHANGED dirs

\* What is left of an entry that could not be opened is removed, or an entry that has
\* appeared meanwhile.
Replace(c) ==
    LET old == Final(task[c].track) IN
    /\ At(c, "replace")
    /\ \/ Exists(old) /\ StartRemoving(c, old, {}, 0)
       \/ ~Exists(old) /\ To(c, "rename") /\ UNCHANGED dirs
    /\ UNCHANGED <<holder, owed>> /\ Goes

\* rename replaces a directory only when it is empty.
Rename(c) ==
    LET t    == task[c].track
        old  == Named(Final(t))
        free == \A d \in old : dirs[d].files = {}
    IN  /\ At(c, "rename")
        /\ \/ /\ Exists(task[c].tmp) /\ free
              /\ dirs' = [[d \in DOMAIN dirs |-> IF d \in old THEN Gone ELSE dirs[d]]
                            EXCEPT ![DirAt(task[c].tmp)].name = Final(t)]
              /\ task' = [task EXCEPT ![c].pc = "open", ![c].tmp = NoName, ![c].made = TRUE]
              /\ UNCHANGED <<holder, owed>> /\ Goes
           \/ /\ ~Exists(task[c].tmp) \/ ~free
              /\ Fail(c) /\ UNCHANGED dirs

\* The handler has the segments and reads a file of them: the playlist, the init
\* segment, or a segment that the playlist lists.
Wanted(t) == {IndexFile, InitFile} \cup 0..(SegmentCount(t) - 1)

HasFile(c, f) ==
    LET entry == Final(task[c].track) IN
    Exists(entry) /\ f \in dirs[DirAt(entry)].files /\ f < task[c].count

Serve(c) ==
    /\ At(c, "serve")
    /\ \E f \in Wanted(task[c].track) : HasFile(c, f)
    /\ task' = [task EXCEPT ![c] = NoTask]
    /\ UNCHANGED <<dirs, holder, owed>> /\ Goes

NotFound(c) ==
    /\ At(c, "serve")
    /\ \E f \in Wanted(task[c].track) : ~HasFile(c, f)
    /\ task' = [task EXCEPT ![c] = NoTask]
    /\ UNCHANGED <<dirs, holder, owed>> /\ Goes

-----------------------------------------------------------------------------
Tick ==
    /\ now < MaxClock
    /\ now' = now + 1
    /\ UNCHANGED <<source, stream, dirs, holder, task, boot, owed, budget, crashes, hangups>>

\* The process stops and starts again: nothing cleans the directory up.
Crash ==
    /\ crashes > 0
    /\ crashes' = crashes - 1
    /\ boot' = boot + 1
    /\ task' = [c \in Clients |-> NoTask]
    /\ holder' = [t \in Tracks |-> NoClient]
    /\ owed' = TRUE
    /\ UNCHANGED <<source, stream, dirs, now, budget, hangups>>

Init ==
    /\ \E i \in Instances : /\ source = i.source /\ budget = i.budget
                         /\ crashes = i.crashes /\ hangups = i.hangups /\ now = i.now
    /\ stream = [t \in Tracks |-> [ok       |-> Remuxed(source[t]).ok,
                                   segments |-> Len(Segments(source[t]))]]
    /\ dirs = <<>>
    /\ holder = [t \in Tracks |-> NoClient]
    /\ task = [c \in Clients |-> NoTask]
    /\ boot = 1 /\ owed = FALSE

Step(c) ==
    \/ Acquire(c) \/ Collect(c) \/ CollectFails(c) \/ Evict(c) \/ FinishRemoving(c) \/ Trimmed(c)
    \/ Open(c) \/ Touch(c) \/ Generate(c) \/ RemuxSource(c) \/ Write(c) \/ Replace(c) \/ Rename(c)
    \/ Serve(c) \/ NotFound(c)

Next == \/ \E c \in Clients : Step(c) \/ HangUp(c) \/ \E t \in Tracks : Request(c, t)
        \/ Tick \/ Crash

\* The lock is handed over in the order of its waiters and blocking threads end.
Spec     == Init /\ [][Next]_vars
FairSpec == Spec /\ \A c \in Clients : WF_vars(Step(c))

-----------------------------------------------------------------------------
(* Properties *)

Names == {NoName} \cup [track : Tracks, boot : Nat, sec : 0..MaxClock]

Steps == {"idle", "lock", "collect", "evict", "remove", "open", "touch", "generate", "remux",
          "write", "replace", "rename", "serve"}

\* Every variable keeps its type, and a path names one directory.
TypeOK ==
    /\ \A d \in DOMAIN dirs : dirs[d] \in [name : Names, files : SUBSET Int, stamp : 0..MaxClock,
                                           torn : BOOLEAN]
    /\ \A d, e \in DOMAIN dirs : dirs[d].name = dirs[e].name => d = e \/ dirs[d] = Gone
    /\ holder \in [Tracks -> Clients \cup {NoClient}]
    /\ DOMAIN task = Clients
    /\ \A c \in Clients : /\ task[c].pc \in Steps /\ task[c].total \in Nat
                          /\ task[c].track \in Tracks \cup {NoName}
                          /\ task[c].tmp \in Names /\ task[c].path \in Names
                          /\ At(c, "remove") => task[c].dir \in DOMAIN dirs
    /\ now \in 0..MaxClock /\ boot \in Nat /\ owed \in BOOLEAN /\ {budget, crashes, hangups} \subseteq Nat

\* An entry with a playlist has the init segment and every segment that the playlist
\* lists, unless its removal has begun: also while others generate, when clients have
\* hung up, and whatever a crash has left. Two generations that share a temporary
\* directory (in one second, after a client has hung up) are the exception.
VisibleIsWhole ==
    \A t \in Tracks : \A d \in Named(Final(t)) :
       IndexFile \in dirs[d].files /\ ~dirs[d].torn
          => Wanted(t) \subseteq dirs[d].files

\* When no request is under way the entries fit the limit, or there is only one;
\* temporary directories that were completed count as entries. After a request that
\* failed, or whose client hung up, this holds again once another has trimmed the cache.
LimitHolds ==
    (\A c \in Clients : At(c, "idle") \/ At(c, "serve")) /\ ~owed =>
       LET entries == {d \in DOMAIN dirs : IndexFile \in dirs[d].files}
       IN  MapThenSumSet(Size, entries) <= Limit \/ Cardinality(entries) = 1

\* A request that is alone from its start to its end is answered with the file it asks
\* for, whatever earlier requests and crashes have left behind and whatever it evicts
\* itself: unless the source cannot be remuxed, or a crash, or generations that share a directory, have torn the entry.
LoneRequestsSucceed ==
    [][\A c \in Clients :
          /\ task[c].alone /\ ~At(c, "idle") /\ task'[c].pc = "idle" /\ boot' = boot /\ hangups' = hangups
          => \/ ~stream[task[c].track].ok
             \/ \E d \in Named(Final(task[c].track)) : dirs[d].torn
             \/ At(c, "serve") /\ \A f \in Wanted(task[c].track) : HasFile(c, f)]_vars

Remuxes(c) == At(c, "write")

\* What is written for a track: all of the audio of its source and nothing else,
NoAudioIsSkipped == \A c \in Clients : Remuxes(c) => AudioIsKept(source[task[c].track])

\* in segments that fit the target duration and that one sample entry each describes,
SegmentsPartitionTrack == \A c \in Clients : Remuxes(c) => SegmentsFit(source[task[c].track])

\* with the durations of the source.
DurationsMatchSource == \A c \in Clients : Remuxes(c) => DurationsFit(source[task[c].track])

\* Every request comes to an end.
RequestsEnd == \A c \in Clients : At(c, "lock") ~> At(c, "idle")
=============================================================================
