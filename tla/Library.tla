------------------------------ MODULE Library ------------------------------
(***************************************************************************)
(* The library database: the tracks that the scanner keeps in step with    *)
(* the music directory, and the playlists that clients edit.               *)
(*                                                                         *)
(* The scanner and every playlist command have a database connection of    *)
(* their own.  A statement, or a transaction from its first write to its   *)
(* commit, is one action.  A transaction that has read before it writes    *)
(* sees the database as it was then and fails to write once another        *)
(* connection has committed (SQLite's deferred transactions in WAL mode,   *)
(* external).                                                              *)
(*                                                                         *)
(* A file is identified with its path and with the id derived from it.     *)
(* The n-th content of a file has modification time n (times are seconds:  *)
(* two changes within one second, and older files that are copied back     *)
(* with their time, are left out).                                         *)
(* Albums, artwork, tags, names and smart filters are left out.            *)
(***************************************************************************)
EXTENDS QueueOps, FiniteSets

CONSTANTS
    Clients,       \* connections that send playlist commands
    Playlists,     \* the ids that will be made for playlists, in no order
    Files,
    MaxVariables,  \* parameters of one SQL statement (32766 in SQLite)
    Unreadable,    \* contents whose tags cannot be read
    MaxVersion,    \* bound: contents of a file
    FirstLists,    \* bound: the playlists of the first database
    Batches,       \* bound: the lists of tracks in commands
    MaxPosition,   \* bound: positions in commands
    MaxEvents,     \* bound: commands, file changes and failures
    Smart, Nothing

ASSUME FilesAssumption   == IsFiniteSet(Files) /\ Files # {}
ASSUME ListsAssumption   == FirstLists \cup Batches \subseteq Seq(Files)
ASSUME BoundsAssumption  ==
    /\ MaxVariables \in Nat /\ MaxVersion \in Nat \ {0}
    /\ MaxPosition \in Nat /\ MaxEvents \in Nat

VARIABLES
    kinds,    \* the rows of playlists: "normal" or "smart"
    entries,  \* the rows of playlist_tracks: position -> track, per playlist
    task,     \* the command each client's connection executes
    spent,    \* ids of playlists that were made
    disk,     \* the music directory: the latest content of each file
    present,  \* the files that are there now
    tracks,   \* the rows of tracks: mtime, and the content they were read from
    scan,     \* the scanner
    events    \* bound

playlists == <<kinds, entries, spent>>
files     == <<disk, present>>
library   == <<files, tracks, scan>>
vars      == <<playlists, task, library, events>>

-----------------------------------------------------------------------------
(* The table playlist_tracks *)

NoRows == [i \in {} |-> Nothing]

Rows(ids) == [i \in Positions(ids) |-> TrackAt(ids, i)]

(* COALESCE(MAX(position) + 1, 0) *)
NextPosition(rows) ==
    IF DOMAIN rows = {} THEN 0
    ELSE 1 + CHOOSE i \in DOMAIN rows : \A j \in DOMAIN rows : j <= i

(* SELECT ... ORDER BY position *)
Ordered(rows) ==
    [n \in 1 .. Cardinality(DOMAIN rows) |->
       rows[CHOOSE i \in DOMAIN rows : Cardinality({j \in DOMAIN rows : j < i}) = n - 1]]

Joined(rows, more) ==
    [i \in DOMAIN rows \cup DOMAIN more |-> IF i \in DOMAIN more THEN more[i] ELSE rows[i]]

From(n, ids) == [i \in n .. n + Len(ids) - 1 |-> ids[i - n + 1]]

(* DELETE ... position = pos; UPDATE ... position - 1 ... position > pos   *)
Without(rows, pos) ==
    [i \in {IF j > pos THEN j - 1 ELSE j : j \in DOMAIN rows \ {pos}} |->
       IF i >= pos THEN rows[i + 1] ELSE rows[i]]

\* Mutant: a target after the end wraps around.
WrongMoveTarget(to, len) == to % len

MoveTarget(to, len) == IF to < len THEN to ELSE len - 1

-----------------------------------------------------------------------------
(* Playlist commands *)

Idle == [pc |-> "idle", cmd |-> Nothing, read |-> NoRows]

Busy(pc, cmd) == [pc |-> pc, cmd |-> cmd, read |-> NoRows]

\* Mutant: what is read is read before the transaction.
WrongOutdated(t) == t

(* A transaction that has read is outdated by another's commit.            *)
Outdated(t) == IF t.pc = "write" THEN Busy("outdated", t.cmd) ELSE t

AllOutdated == [c \in Clients |-> Outdated(task[c])]

(* The command of c is over, with or without a commit.                     *)
Committed(c) == task' = [AllOutdated EXCEPT ![c] = Idle]
Ends(c)      == task' = [task EXCEPT ![c] = Idle]
Begins(c)    == task' = [task EXCEPT ![c] = Busy("begin", task[c].cmd)]

Event == events < MaxEvents /\ events' = events + 1

SomePositions == 0 .. MaxPosition

Commands ==
    [op : {"create"}, kind : {"normal", "smart"}]
    \cup [op : {"update"}, p : Playlists, kind : {"normal", "smart"}]
    \cup [op : {"delete"}, p : Playlists]
    \cup [op : {"set", "append"}, p : Playlists, ids : Batches]
    \cup [op : {"remove"}, p : Playlists, from : SomePositions]
    \cup [op : {"move"}, p : Playlists, from : SomePositions, to : SomePositions]

ASSUME NothingAssumption == Nothing \notin Commands
ASSUME SmartAssumption   == Smart \notin Seq(Files)

(* A command that changes nothing returns before it looks at the database. *)
ReturnsAtOnce(cmd) ==
    \/ cmd.op = "append" /\ cmd.ids = <<>>
    \/ cmd.op = "move" /\ cmd.from = cmd.to

Request(c, cmd) ==
    /\ task[c].pc = "idle"
    /\ Event
    /\ task' = [task EXCEPT ![c] =
                  Busy(IF cmd.op \in {"create", "delete"} THEN cmd.op ELSE "look", cmd)]
    /\ UNCHANGED <<playlists, library>>

CreatePlaylist(c, p) ==
    LET kind == task[c].cmd.kind
    IN  /\ task[c].pc = "create"
        /\ p \notin spent
        /\ kinds' = [q \in DOMAIN kinds \cup {p} |-> IF q = p THEN kind ELSE kinds[q]]
        /\ entries' = [q \in DOMAIN kinds \cup {p} |-> IF q = p THEN NoRows ELSE entries[q]]
        /\ spent' = spent \cup {p}
        /\ Committed(c)
        /\ UNCHANGED <<library, events>>

\* Mutant: no ON DELETE CASCADE.
WrongDeletePlaylist(c) ==
    /\ task[c].pc = "delete"
    /\ kinds' = [q \in DOMAIN kinds \ {task[c].cmd.p} |-> kinds[q]]
    /\ Committed(c)
    /\ UNCHANGED <<entries, spent, library, events>>

(* Deleting a playlist deletes its entries; nothing refers to tracks.      *)
DeletePlaylist(c) ==
    LET rest == DOMAIN kinds \ {task[c].cmd.p}
    IN  /\ task[c].pc = "delete"
        /\ kinds' = [q \in rest |-> kinds[q]]
        /\ entries' = [q \in rest |-> entries[q]]
        /\ Committed(c)
        /\ UNCHANGED <<spent, library, events>>

(* get_playlist: the command is refused for a playlist that is not there,  *)
(* or that is not of the kind it is for.                                   *)
Accepts(cmd) ==
    /\ ~ ReturnsAtOnce(cmd)
    /\ cmd.p \in DOMAIN kinds
    /\ kinds[cmd.p] = IF cmd.op = "update" THEN cmd.kind ELSE "normal"

Look(c) ==
    /\ task[c].pc = "look"
    /\ IF Accepts(task[c].cmd) THEN Begins(c) ELSE Ends(c)
    /\ UNCHANGED <<playlists, library, events>>

Listed(p) == IF p \in DOMAIN kinds THEN entries[p] ELSE NoRows

Store(p, rows) == entries' = [entries EXCEPT ![p] = rows]

UpdatePlaylist(c) ==
    LET cmd == task[c].cmd
    IN  /\ task[c].pc = "begin" /\ cmd.op = "update"
        /\ IF cmd.p \in DOMAIN kinds THEN Committed(c) ELSE Ends(c)
        /\ UNCHANGED <<playlists, library, events>>

(* Entries cannot be inserted for a playlist that was deleted meanwhile    *)
(* (foreign key).                                                          *)
SetPlaylistTracks(c) ==
    LET cmd == task[c].cmd
    IN  /\ task[c].pc = "begin" /\ cmd.op = "set"
        /\ IF cmd.p \in DOMAIN kinds
             THEN Store(cmd.p, Rows(cmd.ids)) /\ Committed(c)
             ELSE Ends(c) /\ UNCHANGED entries
        /\ UNCHANGED <<kinds, spent, library, events>>

RemovePlaylistTrack(c) ==
    LET cmd == task[c].cmd
    IN  /\ task[c].pc = "begin" /\ cmd.op = "remove"
        /\ IF cmd.from \in DOMAIN Listed(cmd.p)
             THEN Store(cmd.p, Without(entries[cmd.p], cmd.from)) /\ Committed(c)
             ELSE Ends(c) /\ UNCHANGED entries
        /\ UNCHANGED <<kinds, spent, library, events>>

(* append reads where the list ends, move reads the list.                  *)
Read(c) ==
    LET cmd  == task[c].cmd
        rows == Listed(cmd.p)
    IN  /\ task[c].pc = "begin" /\ cmd.op \in {"append", "move"}
        /\ IF cmd.op = "move" /\ cmd.from >= Cardinality(DOMAIN rows)
             THEN Ends(c)
             ELSE task' = [task EXCEPT ![c] = [pc |-> "write", cmd |-> cmd, read |-> rows]]
        /\ UNCHANGED <<playlists, library, events>>

AppendPlaylistTracks(c) ==
    LET cmd == task[c].cmd
        new == From(NextPosition(task[c].read), cmd.ids)
    IN  /\ task[c].pc = "write" /\ cmd.op = "append"
        /\ IF cmd.p \in DOMAIN kinds /\ DOMAIN new \cap DOMAIN entries[cmd.p] = {}
             THEN Store(cmd.p, Joined(entries[cmd.p], new)) /\ Committed(c)
             ELSE Ends(c) /\ UNCHANGED entries
        /\ UNCHANGED <<kinds, spent, library, events>>

MovePlaylistTrack(c) ==
    LET cmd == task[c].cmd
        ids == Ordered(task[c].read)
    IN  /\ task[c].pc = "write" /\ cmd.op = "move"
        /\ IF cmd.p \in DOMAIN kinds
             THEN /\ Store(cmd.p, Rows(Moved(ids, cmd.from, MoveTarget(cmd.to, Len(ids)))))
                  /\ Committed(c)
             ELSE Ends(c) /\ UNCHANGED entries
        /\ UNCHANGED <<kinds, spent, library, events>>

(* SQLITE_BUSY: at once for an outdated transaction, after 5 s for any     *)
(* other statement.  The command is dropped with a warning.                *)
GiveUp(c) ==
    /\ task[c].pc # "idle"
    /\ Ends(c)
    /\ UNCHANGED <<playlists, library, events>>

ClientStep(c) ==
    \/ \E p \in Playlists : CreatePlaylist(c, p)
    \/ DeletePlaylist(c) \/ Look(c) \/ UpdatePlaylist(c)
    \/ SetPlaylistTracks(c) \/ RemovePlaylistTrack(c)
    \/ Read(c) \/ AppendPlaylistTracks(c) \/ MovePlaylistTrack(c)
    \/ GiveUp(c)

-----------------------------------------------------------------------------
(* The scanner: one scan after the other, each from the walk to the purge  *)

Scan(pc, found, todo, file, content) ==
    [pc |-> pc, found |-> found, todo |-> todo, file |-> file, content |-> content]

NoScan                == Scan("waiting", NoRows, {}, Nothing, 0)
Scanning(found, todo) == Scan("scanning", found, todo, Nothing, 0)

ScannerCommits == task' = AllOutdated

(* walk_audio_files: files and their modification times.  Directories that *)
(* cannot be read are left out with a warning.                             *)
Walk ==
    /\ scan.pc = "waiting"
    /\ \E found \in SUBSET present :
         /\ IF found = present THEN UNCHANGED events ELSE Event
         /\ scan' = Scanning([f \in found |-> disk[f]], found)
    /\ UNCHANGED <<playlists, task, files, tracks>>

UpToDate(f) == f \in DOMAIN tracks /\ tracks[f].mtime = scan.found[f]

Skip(f) ==
    /\ scan.pc = "scanning" /\ f \in scan.todo
    /\ UpToDate(f)
    /\ scan' = Scanning(scan.found, scan.todo \ {f})
    /\ UNCHANGED <<playlists, task, files, tracks, events>>

(* extract_track reads the file as it is by now, or fails.                 *)
ExtractTrack(f) ==
    /\ scan.pc = "scanning" /\ f \in scan.todo
    /\ ~ UpToDate(f)
    /\ scan' = IF f \notin present \/ disk[f] \in Unreadable
                 THEN Scanning(scan.found, scan.todo \ {f})
                 ELSE Scan("extracted", scan.found, scan.todo \ {f}, f, disk[f])
    /\ UNCHANGED <<playlists, task, files, tracks, events>>

\* Mutant: the modification time is the one at the time of the upsert.
WrongUpsertTrack ==
    LET f == scan.file
    IN  /\ scan.pc = "extracted"
        /\ tracks' = [g \in DOMAIN tracks \cup {f} |->
                        IF g # f THEN tracks[g]
                        ELSE [mtime |-> disk[f], content |-> scan.content]]
        /\ scan' = Scanning(scan.found, scan.todo)
        /\ ScannerCommits
        /\ UNCHANGED <<playlists, files, events>>

(* upsert_track_with_mtime, with the modification time of the walk         *)
UpsertTrack ==
    LET f == scan.file
    IN  /\ scan.pc = "extracted"
        /\ tracks' = [g \in DOMAIN tracks \cup {f} |->
                        IF g # f THEN tracks[g]
                        ELSE [mtime |-> scan.found[f], content |-> scan.content]]
        /\ scan' = Scanning(scan.found, scan.todo)
        /\ ScannerCommits
        /\ UNCHANGED <<playlists, files, events>>

\* Mutant: nothing is purged.
WrongPurgeMissing ==
    /\ scan.pc = "scanning" /\ scan.todo = {}
    /\ scan' = NoScan
    /\ UNCHANGED <<playlists, task, files, tracks, events>>

(* purge_missing: the paths that were found are parameters of one          *)
(* statement, which is refused when they are too many.                     *)
PurgeMissing ==
    LET found == DOMAIN scan.found
        rest  == DOMAIN tracks \cap found
    IN  /\ scan.pc = "scanning" /\ scan.todo = {}
        /\ Cardinality(found) <= MaxVariables
        /\ tracks' = [f \in rest |-> tracks[f]]
        /\ scan' = NoScan
        /\ IF rest # DOMAIN tracks THEN ScannerCommits ELSE UNCHANGED task
        /\ UNCHANGED <<playlists, files, events>>

PurgeRefused ==
    /\ scan.pc = "scanning" /\ scan.todo = {}
    /\ Cardinality(DOMAIN scan.found) > MaxVariables
    /\ scan' = NoScan
    /\ UNCHANGED <<playlists, task, files, tracks, events>>

(* The database is busy for too long, or the server is restarted: the scan *)
(* is given up wherever it is.                                             *)
ScanFails ==
    /\ scan.pc # "waiting"
    /\ Event
    /\ scan' = NoScan
    /\ UNCHANGED <<playlists, task, files, tracks>>

ScannerStep ==
    \/ Walk \/ UpsertTrack \/ PurgeMissing \/ PurgeRefused
    \/ \E f \in Files : Skip(f) \/ ExtractTrack(f)

(* A file is written, or goes away, or comes back as it was.               *)
Write(f) ==
    /\ Event
    /\ disk[f] < MaxVersion
    /\ disk' = [disk EXCEPT ![f] = @ + 1]
    /\ present' = present \cup {f}
    /\ UNCHANGED <<playlists, task, tracks, scan>>

ComeOrGo(f) ==
    /\ Event
    /\ present' = IF f \in present THEN present \ {f} ELSE present \cup {f}
    /\ UNCHANGED <<playlists, task, disk, tracks, scan>>

(* The core's state is saved to the same database (kanade/src/persist.rs). *)
StateIsSaved ==
    /\ ScannerCommits
    /\ UNCHANGED <<playlists, library, events>>

-----------------------------------------------------------------------------
Versions == 1 .. MaxVersion

(* A server has been running before: there are playlists, and the tracks   *)
(* of the files there were.  (Without either, it starts for the first      *)
(* time.)                                                                  *)
Init ==
    /\ \E ps \in SUBSET Playlists :
         /\ kinds \in [ps -> {"normal", "smart"}]
         /\ entries \in [ps -> {Rows(ids) : ids \in FirstLists \cup {<<>>}}]
         /\ \A p \in ps : kinds[p] = "smart" => entries[p] = NoRows
         /\ spent = ps
    /\ task = [c \in Clients |-> Idle]
    /\ \E fs \in SUBSET Files :
         /\ tracks = [f \in fs |-> [mtime |-> 1, content |-> 1]]
         /\ present = fs
    /\ disk = [f \in Files |-> 1]
    /\ scan = NoScan
    /\ events = 0

Next ==
    \/ \E c \in Clients : ClientStep(c) \/ \E cmd \in Commands : Request(c, cmd)
    \/ ScannerStep \/ ScanFails
    \/ \E f \in Files : Write(f) \/ ComeOrGo(f)
    \/ StateIsSaved

Spec == Init /\ [][Next]_vars

(* background_scan_loop scans again and again; every step of a scan ends.  *)
FairSpec == Spec /\ WF_vars(ScannerStep)

-----------------------------------------------------------------------------
(* Properties *)

PCs == {"idle", "create", "delete", "look", "begin", "write", "outdated"}

TableType ==
    /\ DOMAIN kinds \subseteq spent /\ spent \subseteq Playlists
    /\ \A p \in DOMAIN kinds : kinds[p] \in {"normal", "smart"}
    /\ DOMAIN entries = DOMAIN kinds
    /\ \A p \in DOMAIN entries : \A i \in DOMAIN entries[p] :
         i \in Nat /\ entries[p][i] \in Files

TaskType ==
    /\ DOMAIN task = Clients
    /\ \A c \in Clients :
         /\ task[c].pc \in PCs
         /\ task[c].cmd \in IF task[c].pc = "idle" THEN {Nothing} ELSE Commands

TracksType ==
    /\ disk \in [Files -> Versions] /\ present \subseteq Files
    /\ DOMAIN tracks \subseteq Files
    /\ \A f \in DOMAIN tracks : tracks[f] \in [mtime : Versions, content : Versions]

ScanType ==
    /\ scan.pc \in {"waiting", "scanning", "extracted"}
    /\ DOMAIN scan.found \subseteq Files
    /\ \A f \in DOMAIN scan.found : scan.found[f] \in Versions
    /\ scan.todo \subseteq DOMAIN scan.found
    /\ scan.pc = "extracted" => scan.file \in DOMAIN scan.found /\ scan.content \in Versions

(* Types: the tables, what connections execute, and where the scan is.     *)
TypeOK == TableType /\ TaskType /\ TracksType /\ ScanType /\ events \in 0 .. MaxEvents

(* Positions are 0-based and contiguous (repo.rs:787, schema.rs:179),      *)
(* whatever commands run at the same time.  Otherwise a later append or    *)
(* removal would work on another entry than the one that is meant.         *)
PositionsAreContiguous ==
    \A p \in DOMAIN entries :
        DOMAIN entries[p] = 0 .. Cardinality(DOMAIN entries[p]) - 1

(* What clients see of it: the lists, and the commands that are on their   *)
(* way.                                                                    *)
Lists ==
    [p \in DOMAIN kinds |-> IF kinds[p] = "smart" THEN Smart ELSE Ordered(entries[p])]

Pending == [c \in Clients |-> task[c].cmd]

L == INSTANCE PlaylistLists WITH lists <- Lists, pending <- Pending

(* Every command takes effect at once or not at all, on the list as it is. *)
PlaylistsAreLists == L!Spec

(* A track that looks up to date is: when the file has the modification    *)
(* time that is stored, what is stored was read from that content.  (The   *)
(* scanner never looks at such a file again.)                              *)
UpToDateTracksAreRead ==
    \A f \in DOMAIN tracks : tracks[f].mtime = disk[f] => tracks[f].content = disk[f]

(* When files stop changing, the library ends up with the tracks of the    *)
(* directory, as far as it can be read and its size lets a purge happen.   *)
TracksAgree ==
    \A f \in Files :
        /\ f \in present /\ disk[f] \notin Unreadable
             => f \in DOMAIN tracks /\ tracks[f].content = disk[f]
        /\ f \notin present /\ Cardinality(present) <= MaxVariables
             => f \notin DOMAIN tracks

LibraryFollowsDisk == <>[]TracksAgree
=============================================================================
