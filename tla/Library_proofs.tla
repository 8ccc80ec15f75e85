--------------------------- MODULE Library_proofs ---------------------------
(***************************************************************************)
(* Theorems about Library: types, contiguous positions in playlists,       *)
(* tracks that are what their modification time says, the refinement.      *)
(***************************************************************************)
EXTENDS Library, QueueOps_proofs, SequenceTheorems, FiniteSetTheorems, TLAPS

(* What a command is, where its task is.                                   *)
TasksOK ==
    \A c \in Clients :
        LET t == task[c]
        IN  /\ t.pc = "create" => t.cmd.op = "create"
            /\ t.pc = "delete" => t.cmd.op = "delete"
            /\ t.pc \in {"look", "begin"}
                 => t.cmd.op \in {"update", "set", "append", "remove", "move"}
            /\ t.pc \in {"write", "outdated"} => t.cmd.op \in {"append", "move"}

TypeInv == TypeOK /\ TasksOK

(* What an open transaction has read is what there is: it would be         *)
(* outdated otherwise.                                                     *)
Contiguous(rows) == \E n \in Nat : DOMAIN rows = 0 .. n - 1

Current(t) ==
    /\ t.read = Listed(t.cmd.p)
    /\ t.cmd.op = "move" => t.cmd.from < Cardinality(DOMAIN t.read)

ReadsAreCurrent == \A c \in Clients : task[c].pc = "write" => Current(task[c])

ListsInv ==
    /\ \A p \in DOMAIN entries : Contiguous(entries[p])
    /\ ReadsAreCurrent

(* Contents only get newer, and nothing is read before its time is.        *)
TimesInv ==
    /\ \A f \in DOMAIN tracks : /\ tracks[f].mtime <= tracks[f].content
                                /\ tracks[f].content <= disk[f]
    /\ \A f \in DOMAIN scan.found : scan.found[f] <= disk[f]
    /\ scan.pc = "extracted" => /\ scan.found[scan.file] <= scan.content
                                /\ scan.content <= disk[scan.file]

-----------------------------------------------------------------------------
(* Commands and tasks *)

LEMMA CommandFields ==
  ASSUME NEW cmd \in Commands
  PROVE  /\ cmd.op \in {"create", "update", "delete", "set", "append", "remove", "move"}
         /\ cmd.op # "create" => cmd.p \in Playlists
         /\ cmd.op \in {"create", "update"} => cmd.kind \in {"normal", "smart"}
         /\ cmd.op \in {"set", "append"} => cmd.ids \in Batches
         /\ cmd.op \in {"remove", "move"} => cmd.from \in Nat
         /\ cmd.op = "move" => cmd.to \in Nat
BY BoundsAssumption DEF Commands, SomePositions

LEMMA BatchFields ==
  ASSUME NEW ids \in Batches
  PROVE  ids \in Seq(Files) /\ Len(ids) \in Nat /\ \A i \in 1 .. Len(ids) : ids[i] \in Files
BY ListsAssumption

-----------------------------------------------------------------------------
(* The table of entries.  What has positions 0 .. n - 1 is a list.         *)

IsTable(rows) == \A i \in DOMAIN rows : i \in Nat /\ rows[i] \in Files

IsList(rows, n) == n \in Nat /\ DOMAIN rows = 0 .. n - 1 /\ IsTable(rows)

LEMMA RowsIsList ==
  ASSUME NEW ids \in Seq(Files)
  PROVE  IsList(Rows(ids), Len(ids)) /\ \A i \in 0 .. Len(ids) - 1 : Rows(ids)[i] = ids[i + 1]
<1>1. Len(ids) \in Nat /\ \A i \in 1 .. Len(ids) : ids[i] \in Files
  BY ElementOfSeq
<1> QED
  BY <1>1 DEF Rows, Positions, TrackAt, IsList, IsTable

LEMMA NextPositionOfList ==
  ASSUME NEW rows, NEW n, IsList(rows, n)
  PROVE  NextPosition(rows) = n
<1>1. CASE n = 0
  BY <1>1 DEF IsList, NextPosition
<1>2. CASE n # 0
  <2> DEFINE last == CHOOSE i \in DOMAIN rows : \A j \in DOMAIN rows : j <= i
  <2>1. n - 1 \in DOMAIN rows /\ \A j \in DOMAIN rows : j <= n - 1
    BY <1>2 DEF IsList
  <2>2. last \in DOMAIN rows /\ \A j \in DOMAIN rows : j <= last
    BY <2>1
  <2>3. last = n - 1
    BY <2>1, <2>2, <1>2 DEF IsList
  <2>4. NextPosition(rows) = 1 + last
    BY <2>1 DEF NextPosition
  <2> HIDE DEF last
  <2> QED
    BY <2>3, <2>4 DEF IsList
<1> QED
  BY <1>1, <1>2

LEMMA AppendedIsList ==
  ASSUME NEW rows, NEW n, IsList(rows, n), NEW ids \in Seq(Files)
  PROVE  LET new == Joined(rows, From(n, ids))
         IN  /\ IsList(new, n + Len(ids))
             /\ \A i \in 0 .. n + Len(ids) - 1 :
                  new[i] = IF i < n THEN rows[i] ELSE ids[i - n + 1]
<1>1. Len(ids) \in Nat /\ \A i \in 1 .. Len(ids) : ids[i] \in Files
  BY ElementOfSeq
<1>2. /\ DOMAIN From(n, ids) = n .. n + Len(ids) - 1
      /\ \A i \in n .. n + Len(ids) - 1 :
           From(n, ids)[i] = ids[i - n + 1] /\ From(n, ids)[i] \in Files
  BY <1>1 DEF From, IsList
<1>3. DOMAIN Joined(rows, From(n, ids)) = 0 .. n + Len(ids) - 1
  BY <1>1, <1>2 DEF Joined, IsList
<1> QED
  BY <1>1, <1>2, <1>3 DEF Joined, IsList, IsTable

LEMMA WithoutIsList ==
  ASSUME NEW rows, NEW n, IsList(rows, n), NEW pos \in DOMAIN rows
  PROVE  /\ IsList(Without(rows, pos), n - 1)
         /\ \A i \in 0 .. n - 2 :
              Without(rows, pos)[i] = IF i < pos THEN rows[i] ELSE rows[i + 1]
<1> DEFINE ps == {IF j > pos THEN j - 1 ELSE j : j \in DOMAIN rows \ {pos}}
<1>1. pos \in Nat /\ pos <= n - 1 /\ n \in Nat
  BY DEF IsList
<1>2. \A i \in ps : i \in 0 .. n - 2
  BY <1>1 DEF IsList
<1>3. ASSUME NEW i \in 0 .. n - 2
      PROVE  i \in ps
  <2>1. CASE i < pos
    BY <2>1, <1>1 DEF IsList
  <2>2. CASE i >= pos
    <3>1. i + 1 \in DOMAIN rows \ {pos} /\ i + 1 > pos /\ (i + 1) - 1 = i
      BY <2>2, <1>1 DEF IsList
    <3> QED
      BY <3>1
  <2> QED
    BY <2>1, <2>2, <1>1
<1>4. ps = 0 .. n - 2
  BY <1>2, <1>3
<1>5. DOMAIN Without(rows, pos) = ps
  BY DEF Without
<1>6. \A i \in 0 .. n - 2 :
        Without(rows, pos)[i] = IF i < pos THEN rows[i] ELSE rows[i + 1]
  <2>1. \A i \in ps : Without(rows, pos)[i] = IF i >= pos THEN rows[i + 1] ELSE rows[i]
    BY DEF Without
  <2> QED
    BY <2>1, <1>1, <1>4
<1>7. \A i \in 0 .. n - 2 : Without(rows, pos)[i] \in Files
  BY <1>1, <1>6 DEF IsList, IsTable
<1> HIDE DEF ps
<1>8. n - 1 \in Nat /\ 0 .. n - 2 = 0 .. (n - 1) - 1
  BY <1>1 DEF IsList
<1> QED
  BY <1>4, <1>5, <1>6, <1>7, <1>8 DEF IsList, IsTable

(* SELECT ... ORDER BY position gives the list.                            *)
LEMMA OrderedList ==
  ASSUME NEW rows, NEW n, IsList(rows, n)
  PROVE  /\ Ordered(rows) \in Seq(Files)
         /\ Len(Ordered(rows)) = n
         /\ Cardinality(DOMAIN rows) = n
         /\ \A k \in 1 .. n : Ordered(rows)[k] = rows[k - 1]
<1>1. Cardinality(DOMAIN rows) = n
  BY FS_Interval DEF IsList
<1>2. ASSUME NEW i \in DOMAIN rows
      PROVE  Cardinality({j \in DOMAIN rows : j < i}) = i
  <2>1. {j \in DOMAIN rows : j < i} = 0 .. i - 1 /\ i \in Nat
    BY DEF IsList
  <2>2. Cardinality(0 .. i - 1) = i
    BY <2>1, FS_Interval
  <2> QED
    BY <2>1, <2>2
<1>3. ASSUME NEW k \in 1 .. n
      PROVE  (CHOOSE i \in DOMAIN rows : Cardinality({j \in DOMAIN rows : j < i}) = k - 1)
               = k - 1
  <2>1. k - 1 \in DOMAIN rows
    BY DEF IsList
  <2> QED
    BY <2>1, <1>2
<1>4. Ordered(rows) = [k \in 1 .. n |-> rows[k - 1]]
  <2> DEFINE At(k) == CHOOSE i \in DOMAIN rows :
                        Cardinality({j \in DOMAIN rows : j < i}) = k - 1
  <2>1. Ordered(rows) = [k \in 1 .. Cardinality(DOMAIN rows) |-> rows[At(k)]]
    BY DEF Ordered
  <2>2. \A k \in 1 .. n : At(k) = k - 1
    BY <1>3
  <2> HIDE DEF At
  <2> QED
    BY <1>1, <2>1, <2>2
<1>5. \A k \in 1 .. n : rows[k - 1] \in Files
  BY DEF IsList, IsTable
<1> QED
  BY <1>1, <1>4, <1>5 DEF IsList

-----------------------------------------------------------------------------
(* How commands go on and end *)

LEMMA IdleFields == Idle.pc = "idle" /\ Idle.cmd = Nothing /\ Idle.read = NoRows
BY DEF Idle

LEMMA OutdatedFields ==
  ASSUME NEW t
  PROVE  /\ t.pc # "write" => Outdated(t) = t
         /\ t.pc = "write" => Outdated(t).pc = "outdated" /\ Outdated(t).cmd = t.cmd
BY DEF Outdated, Busy

LEMMA AllOutdatedType ==
  ASSUME TaskType, TasksOK, task' = AllOutdated
  PROVE  TaskType' /\ TasksOK' /\ \A x \in Clients : task'[x].pc # "write"
<1>1. DOMAIN task' = Clients /\ \A x \in Clients : task'[x] = Outdated(task[x])
  BY DEF AllOutdated
<1>2. ASSUME NEW x \in Clients
      PROVE  /\ task'[x].pc # "write"
             /\ task[x].pc # "write" => task'[x] = task[x]
             /\ task[x].pc = "write" => task'[x].pc = "outdated" /\ task'[x].cmd = task[x].cmd
  BY <1>1, OutdatedFields
<1> QED
  BY <1>1, <1>2 DEF TaskType, TasksOK, PCs

LEMMA CommittedType ==
  ASSUME TaskType, TasksOK, NEW c \in Clients, Committed(c)
  PROVE  TaskType' /\ TasksOK' /\ \A x \in Clients : task'[x].pc # "write"
<1>1. /\ DOMAIN task' = Clients /\ task'[c] = Idle
      /\ \A x \in Clients \ {c} : task'[x] = Outdated(task[x])
  BY DEF Committed, AllOutdated
<1>2. ASSUME NEW x \in Clients \ {c}
      PROVE  /\ task'[x].pc # "write"
             /\ task[x].pc # "write" => task'[x] = task[x]
             /\ task[x].pc = "write" => task'[x].pc = "outdated" /\ task'[x].cmd = task[x].cmd
  BY <1>1, OutdatedFields
<1> QED
  BY <1>1, <1>2, IdleFields DEF TaskType, TasksOK, PCs

LEMMA EndsType ==
  ASSUME TaskType, TasksOK, NEW c \in Clients, Ends(c)
  PROVE  /\ TaskType' /\ TasksOK'
         /\ \A x \in Clients : task'[x].pc = "write" => task'[x] = task[x]
BY IdleFields DEF Ends, TaskType, TasksOK, PCs

LEMMA BeginsType ==
  ASSUME TaskType, TasksOK, NEW c \in Clients, Begins(c), task[c].pc = "look"
  PROVE  /\ TaskType' /\ TasksOK'
         /\ \A x \in Clients : task'[x].pc = "write" => task'[x] = task[x]
BY DEF Begins, Busy, TaskType, TasksOK, PCs

LEMMA RequestType ==
  ASSUME TaskType, TasksOK, NEW c \in Clients, NEW cmd \in Commands, Request(c, cmd)
  PROVE  /\ TaskType' /\ TasksOK'
         /\ \A x \in Clients : task'[x].pc = "write" => task'[x] = task[x]
<1> DEFINE pc == IF cmd.op \in {"create", "delete"} THEN cmd.op ELSE "look"
<1>1. task' = [task EXCEPT ![c] = Busy(pc, cmd)]
  BY DEF Request
<1>2. pc \in {"create", "delete", "look"}
  BY CommandFields
<1>3. Busy(pc, cmd).pc = pc /\ Busy(pc, cmd).cmd = cmd
  BY DEF Busy
<1>4. /\ pc = "create" => cmd.op = "create"
      /\ pc = "delete" => cmd.op = "delete"
      /\ pc = "look" => cmd.op \in {"update", "set", "append", "remove", "move"}
  BY CommandFields
<1> HIDE DEF pc
<1> QED
  BY <1>1, <1>2, <1>3, <1>4 DEF TaskType, TasksOK, PCs

-----------------------------------------------------------------------------
(* Types and lists *)

Inv == TypeOK /\ TasksOK /\ ListsInv

(* One playlist gets a new list.                                           *)
LEMMA StoreKeepsLists ==
  ASSUME TableType, \A p \in DOMAIN entries : Contiguous(entries[p]),
         NEW p \in DOMAIN kinds, NEW rows, NEW n, IsList(rows, n),
         Store(p, rows), UNCHANGED <<kinds, spent>>
  PROVE  TableType' /\ \A q \in DOMAIN entries' : Contiguous(entries[q]')
<1>1. /\ DOMAIN entries' = DOMAIN entries
      /\ entries'[p] = rows
      /\ \A q \in DOMAIN entries \ {p} : entries'[q] = entries[q]
  BY DEF Store, TableType
<1>2. Contiguous(rows)
  BY DEF Contiguous, IsList
<1>3. \A i \in DOMAIN rows : i \in Nat /\ rows[i] \in Files
  BY DEF IsList, IsTable
<1>4. \A q \in DOMAIN entries' : Contiguous(entries'[q])
  BY <1>1, <1>2
<1>5. \A q \in DOMAIN entries' : \A i \in DOMAIN entries'[q] :
         i \in Nat /\ entries'[q][i] \in Files
  BY <1>1, <1>3 DEF TableType
<1> QED
  BY <1>1, <1>4, <1>5 DEF TableType

LEMMA ListOf ==
  ASSUME Inv, NEW p \in DOMAIN kinds
  PROVE  \E n \in Nat : IsList(entries[p], n)
BY DEF Inv, ListsInv, Contiguous, IsList, IsTable, TypeOK, TableType

(* The library is not touched by a command.                                *)
LEMMA LibraryUnchanged ==
  ASSUME TypeOK, UNCHANGED library
  PROVE  TracksType' /\ ScanType'
BY DEF TypeOK, TracksType, ScanType, library, files, Versions

(* A task goes on without a change of the tables, ...                      *)
LEMMA NothingStored ==
  ASSUME Inv, UNCHANGED <<playlists, library>>, TaskType', TasksOK', (events \in 0 .. MaxEvents)',
         \A x \in Clients : task'[x].pc = "write" =>
            task'[x] = task[x] \/ Current(task'[x])
  PROVE  Inv'
<1>1. TableType' /\ \A p \in DOMAIN entries' : Contiguous(entries[p]')
  BY DEF Inv, ListsInv, TypeOK, TableType, playlists
<1>2. ReadsAreCurrent'
  BY DEF Inv, ListsInv, ReadsAreCurrent, Current, Listed, playlists, TypeOK, TaskType
<1> QED
  BY <1>1, <1>2, LibraryUnchanged DEF Inv, TypeOK, ListsInv

(* ... or commits.                                                         *)
LEMMA CommitKeepsInv ==
  ASSUME Inv, NEW c \in Clients, Committed(c), UNCHANGED <<library, events>>,
         TableType', \A p \in DOMAIN entries' : Contiguous(entries[p]')
  PROVE  Inv'
<1>1. TaskType' /\ TasksOK' /\ \A x \in Clients : task'[x].pc # "write"
  BY CommittedType DEF Inv, TypeOK
<1>2. ReadsAreCurrent'
  BY <1>1 DEF ReadsAreCurrent
<1> QED
  BY <1>1, <1>2, LibraryUnchanged DEF Inv, TypeOK, ListsInv

LEMMA EndKeepsInv ==
  ASSUME Inv, NEW c \in Clients, Ends(c), UNCHANGED <<playlists, library, events>>
  PROVE  Inv'
BY EndsType, NothingStored DEF Inv, TypeOK

LEMMA BusyFields ==
  ASSUME Inv, NEW c \in Clients, task[c].pc # "idle"
  PROVE  task[c].cmd \in Commands
BY DEF Inv, TypeOK, TaskType

LEMMA ReadType ==
  ASSUME Inv, NEW c \in Clients, Read(c)
  PROVE  /\ TaskType' /\ TasksOK'
         /\ \A x \in Clients : task'[x].pc = "write" => task'[x] = task[x] \/ Current(task'[x])
<1> DEFINE cmd  == task[c].cmd
           rows == Listed(cmd.p)
           t    == [pc |-> "write", cmd |-> cmd, read |-> rows]
<1>0. TaskType /\ TasksOK
  BY DEF Inv, TypeOK
<1>1. CASE Ends(c)
  BY <1>0, <1>1, EndsType
<1>2. CASE ~ (cmd.op = "move" /\ cmd.from >= Cardinality(DOMAIN rows)) /\ task' = [task EXCEPT ![c] = t]
  <2>1. /\ task[c].pc = "begin" /\ cmd.op \in {"append", "move"}
        /\ cmd \in Commands
    BY BusyFields DEF Read
  <2>2. Cardinality(DOMAIN rows) \in Nat
    <3>1. CASE cmd.p \in DOMAIN kinds
      BY <3>1, ListOf, OrderedList DEF Listed, IsList
    <3>2. CASE cmd.p \notin DOMAIN kinds
      BY <3>2, FS_EmptySet DEF Listed, NoRows
    <3> QED
      BY <3>1, <3>2
  <2>3. cmd.op = "move" => cmd.from \in Nat
    BY <2>1, CommandFields
  <2>4. t.pc = "write" /\ t.cmd = cmd /\ t.read = rows
    OBVIOUS
  <2> HIDE DEF t
  <2>5. Current(t)
    BY <1>2, <2>2, <2>3, <2>4 DEF Current
  <2> QED
    BY <1>0, <1>2, <2>1, <2>4, <2>5 DEF TaskType, TasksOK, PCs
<1> QED
  BY <1>1, <1>2 DEF Read

LEMMA InitInv == Init => Inv
<1> SUFFICES ASSUME Init PROVE Inv
  OBVIOUS
<1>1. PICK ps \in SUBSET Playlists :
         /\ kinds \in [ps -> {"normal", "smart"}]
         /\ entries \in [ps -> {Rows(ids) : ids \in FirstLists \cup {<<>>}}]
         /\ spent = ps
  BY DEF Init
<1>2. ASSUME NEW p \in DOMAIN entries
      PROVE  \E n \in Nat : IsList(entries[p], n)
  <2>1. PICK ids \in Seq(Files) : entries[p] = Rows(ids)
    <3>1. PICK ids \in FirstLists \cup {<<>>} : entries[p] = Rows(ids)
      BY <1>1
    <3>2. <<>> \in Seq(Files) /\ \A l \in FirstLists : l \in Seq(Files)
      BY ListsAssumption
    <3> QED
      BY <3>1, <3>2
  <2> QED
    BY <2>1, RowsIsList
<1>3. TableType /\ \A p \in DOMAIN entries : Contiguous(entries[p])
  BY <1>1, <1>2 DEF TableType, Contiguous, IsList, IsTable
<1>4. TaskType /\ TasksOK /\ \A x \in Clients : task[x].pc # "write"
  BY IdleFields DEF Init, TaskType, TasksOK, PCs
<1>5. TracksType
  BY BoundsAssumption DEF Init, TracksType, Versions
<1>6. ScanType
  BY DEF Init, NoScan, Scan, NoRows, ScanType
<1> QED
  BY <1>3, <1>4, <1>5, <1>6, BoundsAssumption
     DEF Init, Inv, TypeOK, ListsInv, ReadsAreCurrent

LEMMA ClientStepInv ==
  ASSUME Inv, NEW c \in Clients, ClientStep(c)
  PROVE  Inv'
<1> DEFINE cmd == task[c].cmd
<1>0. /\ TableType /\ TaskType /\ TasksOK /\ \A p \in DOMAIN entries : Contiguous(entries[p])
      /\ DOMAIN entries = DOMAIN kinds
  BY DEF Inv, TypeOK, ListsInv, TableType
<1>1. ASSUME NEW p \in Playlists, CreatePlaylist(c, p)
      PROVE  Inv'
  <2>1. cmd \in Commands /\ cmd.op = "create"
    BY <1>1, BusyFields DEF CreatePlaylist, Inv, TasksOK
  <2>2. cmd.kind \in {"normal", "smart"}
    BY <2>1, CommandFields
  <2>3. Contiguous(NoRows)
    BY DEF Contiguous, NoRows
  <2>4. /\ DOMAIN entries' = DOMAIN kinds \cup {p} /\ DOMAIN kinds' = DOMAIN kinds \cup {p}
        /\ kinds'[p] = cmd.kind /\ entries'[p] = NoRows
        /\ \A q \in DOMAIN kinds \ {p} : kinds'[q] = kinds[q] /\ entries'[q] = entries[q]
        /\ spent' = spent \cup {p}
    BY <1>1 DEF CreatePlaylist
  <2>5. TableType' /\ \A q \in DOMAIN entries' : Contiguous(entries[q]')
    BY <1>0, <2>2, <2>3, <2>4 DEF TableType, NoRows
  <2> QED
    BY <1>1, <2>5, CommitKeepsInv DEF CreatePlaylist
<1>2. CASE DeletePlaylist(c)
  <2>1. /\ DOMAIN entries' = DOMAIN kinds \ {cmd.p} /\ DOMAIN kinds' = DOMAIN kinds \ {cmd.p}
        /\ \A q \in DOMAIN kinds \ {cmd.p} : kinds'[q] = kinds[q] /\ entries'[q] = entries[q]
        /\ spent' = spent
    BY <1>2 DEF DeletePlaylist
  <2>2. TableType' /\ \A q \in DOMAIN entries' : Contiguous(entries[q]')
    BY <1>0, <2>1 DEF TableType
  <2> QED
    BY <1>2, <2>2, CommitKeepsInv DEF DeletePlaylist
<1>3. CASE Look(c)
  <2>1. CASE Ends(c)
    BY <1>3, <2>1, EndKeepsInv DEF Look
  <2>2. CASE Begins(c)
    BY <1>3, <2>2, BeginsType, NothingStored DEF Look, Inv, TypeOK
  <2> QED
    BY <1>3, <2>1, <2>2 DEF Look
<1>4. CASE UpdatePlaylist(c)
  <2>1. CASE Ends(c)
    BY <1>4, <2>1, EndKeepsInv DEF UpdatePlaylist
  <2>2. CASE Committed(c)
    <3>1. TableType' /\ \A q \in DOMAIN entries' : Contiguous(entries[q]')
      BY <1>0, <1>4 DEF UpdatePlaylist, playlists, TableType
    <3> QED
      BY <1>4, <2>2, <3>1, CommitKeepsInv DEF UpdatePlaylist
  <2> QED
    BY <1>4, <2>1, <2>2 DEF UpdatePlaylist
<1>5. CASE SetPlaylistTracks(c)
  <2>1. CASE Ends(c) /\ UNCHANGED entries
    BY <1>5, <2>1, EndKeepsInv DEF SetPlaylistTracks, playlists
  <2>2. CASE cmd.p \in DOMAIN kinds /\ Store(cmd.p, Rows(cmd.ids)) /\ Committed(c)
    <3>1. cmd \in Commands /\ cmd.op = "set"
      BY <1>5, BusyFields DEF SetPlaylistTracks
    <3>2. cmd.ids \in Seq(Files)
      BY <3>1, CommandFields, BatchFields
    <3>3. IsList(Rows(cmd.ids), Len(cmd.ids))
      BY <3>2, RowsIsList
    <3>4. TableType' /\ \A q \in DOMAIN entries' : Contiguous(entries[q]')
      BY <1>0, <1>5, <2>2, <3>3, StoreKeepsLists DEF SetPlaylistTracks
    <3> QED
      BY <1>5, <2>2, <3>4, CommitKeepsInv DEF SetPlaylistTracks
  <2> QED
    BY <1>5, <2>1, <2>2 DEF SetPlaylistTracks
<1>6. CASE RemovePlaylistTrack(c)
  <2>1. CASE Ends(c) /\ UNCHANGED entries
    BY <1>6, <2>1, EndKeepsInv DEF RemovePlaylistTrack, playlists
  <2>2. CASE /\ cmd.from \in DOMAIN Listed(cmd.p)
             /\ Store(cmd.p, Without(entries[cmd.p], cmd.from)) /\ Committed(c)
    <3>1. cmd.p \in DOMAIN kinds /\ cmd.from \in DOMAIN entries[cmd.p]
      BY <2>2 DEF Listed, NoRows
    <3>2. PICK n \in Nat : IsList(entries[cmd.p], n)
      BY <3>1, ListOf
    <3>3. IsList(Without(entries[cmd.p], cmd.from), n - 1)
      BY <3>1, <3>2, WithoutIsList
    <3>4. TableType' /\ \A q \in DOMAIN entries' : Contiguous(entries[q]')
      BY <1>0, <1>6, <2>2, <3>1, <3>3, StoreKeepsLists DEF RemovePlaylistTrack
    <3> QED
      BY <1>6, <2>2, <3>4, CommitKeepsInv DEF RemovePlaylistTrack
  <2> QED
    BY <1>6, <2>1, <2>2 DEF RemovePlaylistTrack
<1>7. CASE Read(c)
  BY <1>7, ReadType, NothingStored DEF Read, Inv, TypeOK
<1>8. CASE AppendPlaylistTracks(c)
  <2> DEFINE new == From(NextPosition(task[c].read), cmd.ids)
  <2>1. CASE Ends(c) /\ UNCHANGED entries
    BY <1>8, <2>1, EndKeepsInv DEF AppendPlaylistTracks, playlists
  <2>2. CASE /\ cmd.p \in DOMAIN kinds
             /\ Store(cmd.p, Joined(entries[cmd.p], new)) /\ Committed(c)
    <3>1. cmd \in Commands /\ cmd.op = "append"
      BY <1>8, BusyFields DEF AppendPlaylistTracks
    <3>2. cmd.ids \in Seq(Files) /\ Len(cmd.ids) \in Nat
      BY <3>1, CommandFields, BatchFields
    <3>3. task[c].read = entries[cmd.p]
      BY <1>8, <2>2 DEF AppendPlaylistTracks, Inv, ListsInv, ReadsAreCurrent, Current, Listed
    <3>4. PICK n \in Nat : IsList(entries[cmd.p], n)
      BY <2>2, ListOf
    <3>5. new = From(n, cmd.ids)
      BY <3>3, <3>4, NextPositionOfList
    <3>6. IsList(Joined(entries[cmd.p], new), n + Len(cmd.ids))
      BY <3>2, <3>4, <3>5, AppendedIsList
    <3> HIDE DEF new
    <3>7. TableType' /\ \A q \in DOMAIN entries' : Contiguous(entries[q]')
      BY <1>0, <1>8, <2>2, <3>6, StoreKeepsLists DEF AppendPlaylistTracks
    <3> QED
      BY <1>8, <2>2, <3>7, CommitKeepsInv DEF AppendPlaylistTracks
  <2> QED
    BY <1>8, <2>1, <2>2 DEF AppendPlaylistTracks
<1>9. CASE MovePlaylistTrack(c)
  <2> DEFINE ids  == Ordered(task[c].read)
             to   == MoveTarget(cmd.to, Len(ids))
             list == Moved(ids, cmd.from, to)
  <2>1. CASE Ends(c) /\ UNCHANGED entries
    BY <1>9, <2>1, EndKeepsInv DEF MovePlaylistTrack, playlists
  <2>2. CASE cmd.p \in DOMAIN kinds /\ Store(cmd.p, Rows(list)) /\ Committed(c)
    <3>1. cmd \in Commands /\ cmd.op = "move"
      BY <1>9, BusyFields DEF MovePlaylistTrack
    <3>2. cmd.from \in Nat /\ cmd.to \in Nat
      BY <3>1, CommandFields
    <3>3. task[c].read = entries[cmd.p] /\ cmd.from < Cardinality(DOMAIN entries[cmd.p])
      BY <1>9, <2>2, <3>1 DEF MovePlaylistTrack, Inv, ListsInv, ReadsAreCurrent, Current, Listed
    <3>4. PICK n \in Nat : IsList(entries[cmd.p], n)
      BY <2>2, ListOf
    <3>5. ids \in Seq(Files) /\ Len(ids) = n /\ cmd.from < n
      BY <3>3, <3>4, OrderedList
    <3>6. cmd.from \in Positions(ids) /\ to \in Positions(ids)
      BY <3>2, <3>4, <3>5 DEF Positions, MoveTarget
    <3> HIDE DEF ids, to
    <3>7. list \in Seq(Files)
      BY <3>5, <3>6, MovedProperties
    <3>8. IsList(Rows(list), Len(list))
      BY <3>7, RowsIsList
    <3> HIDE DEF list
    <3>9. TableType' /\ \A q \in DOMAIN entries' : Contiguous(entries[q]')
      BY <1>0, <1>9, <2>2, <3>8, StoreKeepsLists DEF MovePlaylistTrack
    <3> QED
      BY <1>9, <2>2, <3>9, CommitKeepsInv DEF MovePlaylistTrack
  <2> QED
    BY <1>9, <2>1, <2>2 DEF MovePlaylistTrack
<1>10. CASE GiveUp(c)
  BY <1>10, EndKeepsInv DEF GiveUp
<1> QED
  BY <1>1, <1>2, <1>3, <1>4, <1>5, <1>6, <1>7, <1>8, <1>9, <1>10 DEF ClientStep

LEMMA RequestInv ==
  ASSUME Inv, NEW c \in Clients, NEW cmd \in Commands, Request(c, cmd)
  PROVE  Inv'
<1>1. (events \in 0 .. MaxEvents)'
  BY BoundsAssumption DEF Request, Event, Inv, TypeOK
<1> QED
  BY <1>1, RequestType, NothingStored DEF Request, Inv, TypeOK

(* The scanner and the files: no playlist is touched, and transactions of  *)
(* clients stay as they are or are outdated.                               *)
LEMMA PlaylistsUnchanged ==
  ASSUME Inv, UNCHANGED playlists, task' = AllOutdated \/ UNCHANGED task,
         TracksType', ScanType', (events \in 0 .. MaxEvents)'
  PROVE  Inv'
<1>1. TaskType /\ TasksOK
  BY DEF Inv, TypeOK
<1>2. TableType' /\ \A p \in DOMAIN entries' : Contiguous(entries[p]')
  BY DEF Inv, ListsInv, TypeOK, TableType, playlists
<1>3. CASE task' = AllOutdated
  BY <1>1, <1>2, <1>3, AllOutdatedType DEF Inv, TypeOK, ListsInv, ReadsAreCurrent
<1>4. CASE UNCHANGED task
  <2>1. ReadsAreCurrent'
    BY <1>4 DEF Inv, ListsInv, ReadsAreCurrent, Current, Listed, playlists
  <2>2. TaskType' /\ TasksOK'
    BY <1>1, <1>4 DEF TaskType, TasksOK
  <2> QED
    BY <1>2, <2>1, <2>2 DEF Inv, TypeOK, ListsInv
<1> QED
  BY <1>3, <1>4

LEMMA ScanFields ==
  ASSUME NEW pc, NEW found, NEW todo, NEW file, NEW content
  PROVE  LET s == Scan(pc, found, todo, file, content)
         IN  s.pc = pc /\ s.found = found /\ s.todo = todo /\ s.file = file /\ s.content = content
BY DEF Scan

LEMMA ScannerStepInv ==
  ASSUME Inv, ScannerStep \/ ScanFails
  PROVE  Inv'
<1> USE DEF Scanning, NoScan, ScannerCommits
<1>0. TracksType /\ ScanType /\ events \in 0 .. MaxEvents
  BY DEF Inv, TypeOK
<1>00. /\ UNCHANGED <<playlists, files>> /\ (task' = AllOutdated \/ UNCHANGED task)
       /\ (events \in 0 .. MaxEvents)'
  <2>1. events' = events \/ Event
    BY DEF ScannerStep, Walk, Skip, ExtractTrack, UpsertTrack, PurgeMissing, PurgeRefused,
           ScanFails
  <2>2. (events \in 0 .. MaxEvents)'
    BY <1>0, <2>1, BoundsAssumption DEF Event
  <2> QED
    BY <2>2 DEF ScannerStep, Walk, Skip, ExtractTrack, UpsertTrack, PurgeMissing,
                PurgeRefused, ScanFails, files
<1>1. CASE Walk
  <2>1. PICK found \in SUBSET present : scan' = Scanning([f \in found |-> disk[f]], found)
    BY <1>1 DEF Walk
  <2>2. ScanType'
    BY <1>0, <2>1, ScanFields DEF ScanType, TracksType
  <2> QED
    BY <1>0, <1>00, <1>1, <2>2, PlaylistsUnchanged DEF Walk, TracksType, files
<1>2. ASSUME NEW f \in Files, Skip(f)
      PROVE  Inv'
  <2>1. ScanType'
    BY <1>0, <1>2, ScanFields DEF Skip, ScanType
  <2> QED
    BY <1>0, <1>00, <1>2, <2>1, PlaylistsUnchanged DEF Skip, TracksType, files
<1>3. ASSUME NEW f \in Files, ExtractTrack(f)
      PROVE  Inv'
  <2>1. ScanType'
    BY <1>0, <1>3, ScanFields DEF ExtractTrack, ScanType, TracksType
  <2> QED
    BY <1>0, <1>00, <1>3, <2>1, PlaylistsUnchanged DEF ExtractTrack, TracksType, files
<1>4. CASE UpsertTrack
  <2>1. scan' = Scanning(scan.found, scan.todo) /\ scan.pc = "extracted"
    BY <1>4 DEF UpsertTrack
  <2>2. ScanType'
    BY <1>0, <2>1, ScanFields DEF ScanType
  <2>3. /\ DOMAIN tracks' = DOMAIN tracks \cup {scan.file}
        /\ \A g \in DOMAIN tracks \ {scan.file} : tracks'[g] = tracks[g]
        /\ tracks'[scan.file] = [mtime |-> scan.found[scan.file], content |-> scan.content]
    BY <1>4 DEF UpsertTrack
  <2>4. TracksType'
    BY <1>0, <1>00, <2>1, <2>3 DEF TracksType, ScanType, files
  <2> QED
    BY <1>00, <2>2, <2>4, PlaylistsUnchanged
<1>5. CASE PurgeMissing
  <2>1. ScanType'
    BY <1>5, ScanFields DEF PurgeMissing, ScanType, NoRows
  <2>2. TracksType'
    BY <1>0, <1>00, <1>5 DEF PurgeMissing, TracksType, files
  <2> QED
    BY <1>00, <2>1, <2>2, PlaylistsUnchanged
<1>6. CASE PurgeRefused \/ ScanFails
  <2>1. scan' = NoScan /\ UNCHANGED tracks
    BY <1>6 DEF PurgeRefused, ScanFails
  <2>2. ScanType'
    BY <2>1, ScanFields DEF ScanType, NoRows
  <2> QED
    BY <1>0, <1>00, <2>1, <2>2, PlaylistsUnchanged DEF TracksType, files
<1> QED
  BY <1>1, <1>2, <1>3, <1>4, <1>5, <1>6 DEF ScannerStep

LEMMA FilesInv ==
  ASSUME Inv, NEW f \in Files, Write(f) \/ ComeOrGo(f)
  PROVE  Inv'
<1>1. TracksType /\ ScanType /\ events \in 0 .. MaxEvents
  BY DEF Inv, TypeOK
<1>2. TracksType'
  BY <1>1, BoundsAssumption DEF Write, ComeOrGo, TracksType, Versions
<1>3. ScanType'
  BY <1>1 DEF Write, ComeOrGo, ScanType
<1>4. (events \in 0 .. MaxEvents)'
  BY <1>1, BoundsAssumption DEF Write, ComeOrGo, Event
<1> QED
  BY <1>2, <1>3, <1>4, PlaylistsUnchanged DEF Write, ComeOrGo

LEMMA StateIsSavedInv ==
  ASSUME Inv, StateIsSaved
  PROVE  Inv'
BY LibraryUnchanged, PlaylistsUnchanged DEF StateIsSaved, ScannerCommits, Inv, TypeOK

LEMMA StutterInv ==
  ASSUME Inv, UNCHANGED vars
  PROVE  Inv'
BY LibraryUnchanged, PlaylistsUnchanged DEF vars, Inv, TypeOK

LEMMA NextInv == Inv /\ [Next]_vars => Inv'
BY ClientStepInv, RequestInv, ScannerStepInv, FilesInv, StateIsSavedInv, StutterInv DEF Next

THEOREM InvAlways == Spec => []Inv
BY InitInv, NextInv, PTL DEF Spec

(* Every variable keeps its type, whatever commands, scans and file        *)
(* changes interleave.                                                     *)
THEOREM TypeCorrect == Spec => []TypeOK
<1>1. Inv => TypeOK
  BY DEF Inv
<1> QED
  BY <1>1, InvAlways, PTL

(* The entries of a playlist are at the positions 0, 1, ... for any number *)
(* of clients and commands: a transaction that has read a list writes on   *)
(* top of that list or not at all.                                         *)
THEOREM AlwaysContiguous == Spec => []PositionsAreContiguous
<1>1. ASSUME Inv, NEW p \in DOMAIN entries
      PROVE  DOMAIN entries[p] = 0 .. Cardinality(DOMAIN entries[p]) - 1
  <2>1. PICK n \in Nat : IsList(entries[p], n)
    BY <1>1, ListOf DEF Inv, TypeOK, TableType
  <2> QED
    BY <2>1, OrderedList DEF IsList
<1>2. Inv => PositionsAreContiguous
  BY <1>1 DEF PositionsAreContiguous
<1> QED
  BY <1>2, InvAlways, PTL

-----------------------------------------------------------------------------
(* Tracks and the times they were read at *)

LEMMA TimesInit == Init => TimesInv
BY DEF Init, TimesInv, NoScan, Scan, NoRows

LEMMA TimesUnchanged ==
  ASSUME TimesInv, UNCHANGED library
  PROVE  TimesInv'
BY DEF TimesInv, library, files

LEMMA TimesScanner ==
  ASSUME TypeOK, TimesInv, ScannerStep \/ ScanFails
  PROVE  TimesInv'
<1> USE DEF Scanning, NoScan
<1>0. TracksType /\ ScanType /\ UNCHANGED disk
  BY DEF TypeOK, ScannerStep, Walk, Skip, ExtractTrack, UpsertTrack, PurgeMissing,
         PurgeRefused, ScanFails, files
<1>1. CASE Walk
  <2>1. PICK found \in SUBSET present : scan' = Scanning([f \in found |-> disk[f]], found)
    BY <1>1 DEF Walk
  <2>2. \A f \in DOMAIN scan'.found : scan'.found[f] <= disk[f]
    BY <1>0, <2>1, ScanFields DEF TracksType, Versions
  <2>3. scan'.pc # "extracted"
    BY <2>1, ScanFields
  <2> QED
    BY <1>0, <1>1, <2>2, <2>3 DEF Walk, TimesInv
<1>2. ASSUME NEW f \in Files, Skip(f)
      PROVE  TimesInv'
  <2>1. scan'.found = scan.found /\ scan'.pc # "extracted" /\ UNCHANGED tracks
    BY <1>2, ScanFields DEF Skip
  <2> QED
    BY <1>0, <2>1 DEF TimesInv
<1>3. ASSUME NEW f \in Files, ExtractTrack(f)
      PROVE  TimesInv'
  <2>1. /\ scan'.found = scan.found /\ UNCHANGED tracks
        /\ scan'.pc = "extracted" => scan'.file = f /\ scan'.content = disk[f]
    BY <1>3, ScanFields DEF ExtractTrack
  <2>2. scan.found[f] <= disk[f] /\ disk[f] <= disk[f]
    BY <1>0, <1>3 DEF ExtractTrack, TimesInv, ScanType, TracksType, Versions
  <2> QED
    BY <1>0, <2>1, <2>2 DEF TimesInv
<1>4. CASE UpsertTrack
  <2>1. scan'.found = scan.found /\ scan'.pc # "extracted"
    BY <1>4, ScanFields DEF UpsertTrack
  <2>2. /\ DOMAIN tracks' = DOMAIN tracks \cup {scan.file}
        /\ \A g \in DOMAIN tracks \ {scan.file} : tracks'[g] = tracks[g]
        /\ tracks'[scan.file].mtime = scan.found[scan.file]
        /\ tracks'[scan.file].content = scan.content
    BY <1>4 DEF UpsertTrack
  <2>3. scan.pc = "extracted"
    BY <1>4 DEF UpsertTrack
  <2> QED
    BY <1>0, <2>1, <2>2, <2>3 DEF TimesInv
<1>5. CASE PurgeMissing \/ PurgeRefused \/ ScanFails
  <2>1. scan'.found = NoRows /\ scan'.pc # "extracted"
    BY <1>5, ScanFields DEF PurgeMissing, PurgeRefused, ScanFails
  <2>2. \A f \in DOMAIN tracks' : f \in DOMAIN tracks /\ tracks'[f] = tracks[f]
    BY <1>5 DEF PurgeMissing, PurgeRefused, ScanFails
  <2> QED
    BY <1>0, <2>1, <2>2 DEF TimesInv, NoRows
<1> QED
  BY <1>1, <1>2, <1>3, <1>4, <1>5 DEF ScannerStep

LEMMA TimesFiles ==
  ASSUME TypeOK, TimesInv, NEW f \in Files, Write(f) \/ ComeOrGo(f)
  PROVE  TimesInv'
<1>1. UNCHANGED <<tracks, scan>> /\ \A g \in Files : disk[g] \in Nat /\ disk[g] <= disk'[g]
                                                  /\ disk'[g] \in Nat
  BY DEF Write, ComeOrGo, TypeOK, TracksType, Versions
<1>2. \A g \in DOMAIN tracks : g \in Files /\ tracks[g].content \in Nat
  BY DEF TypeOK, TracksType, Versions
<1>3. /\ \A g \in DOMAIN scan.found : g \in Files /\ scan.found[g] \in Nat
      /\ scan.pc = "extracted" => scan.file \in Files /\ scan.content \in Nat
  BY DEF TypeOK, ScanType, Versions
<1> QED
  BY <1>1, <1>2, <1>3 DEF TimesInv

LEMMA TimesNext ==
  ASSUME TypeOK, TimesInv, [Next]_vars
  PROVE  TimesInv'
<1>1. ASSUME NEW c \in Clients, ClientStep(c)
      PROVE  UNCHANGED library
  BY <1>1 DEF ClientStep, CreatePlaylist, DeletePlaylist, Look, UpdatePlaylist,
              SetPlaylistTracks, RemovePlaylistTrack, Read, AppendPlaylistTracks,
              MovePlaylistTrack, GiveUp
<1>2. ASSUME NEW c \in Clients, NEW cmd \in Commands, Request(c, cmd)
      PROVE  UNCHANGED library
  BY <1>2 DEF Request
<1>3. StateIsSaved \/ UNCHANGED vars => UNCHANGED library
  BY DEF StateIsSaved, vars
<1> QED
  BY <1>1, <1>2, <1>3, TimesUnchanged, TimesScanner, TimesFiles DEF Next

(* A track that has the modification time of its file was read from what   *)
(* the file contains, however files change during scans: the scanner may   *)
(* skip it.                                                                *)
THEOREM UpToDateAlwaysRead == Spec => []UpToDateTracksAreRead
<1>1. TypeOK /\ TimesInv => UpToDateTracksAreRead
  BY DEF TypeOK, TimesInv, UpToDateTracksAreRead, TracksType, Versions
<1> QED
  BY <1>1, TimesInit, TimesNext, TypeCorrect, PTL DEF Spec
-----------------------------------------------------------------------------
(***************************************************************************)
(* Library implements PlaylistLists: every commit of a playlist command is *)
(* the command's effect on the list as it is at that moment.               *)
(***************************************************************************)

(* get_playlist has seen a normal playlist.  Its kind does not change and  *)
(* its id is not made again, so it is one still, if it is there.           *)
KindsOK ==
    \A c \in Clients :
        LET t == task[c]
        IN  t.pc \in {"begin", "write", "outdated"} /\ t.cmd.op # "update"
              => /\ t.cmd.p \in spent
                 /\ t.cmd.p \in DOMAIN kinds => kinds[t.cmd.p] = "normal"

-----------------------------------------------------------------------------
(* Tables and sequences *)

LEMMA SameQueueOps ==
  ASSUME NEW q, NEW i, NEW j
  PROVE  /\ L!Positions(q) = Positions(q)
         /\ L!Removed(q, i) = Removed(q, i)
         /\ L!Moved(q, i, j) = Moved(q, i, j)
BY DEF L!Positions, Positions, L!Removed, Removed, L!Moved, Moved, L!Inserted, Inserted,
       L!TrackAt, TrackAt

LEMMA OrderedRows ==
  ASSUME NEW ids \in Seq(Files)
  PROVE  Ordered(Rows(ids)) = ids
<1>1. /\ IsList(Rows(ids), Len(ids)) /\ Len(ids) \in Nat
      /\ \A i \in 0 .. Len(ids) - 1 : Rows(ids)[i] = ids[i + 1]
  BY RowsIsList DEF IsList
<1>2. /\ Ordered(Rows(ids)) \in Seq(Files) /\ Len(Ordered(Rows(ids))) = Len(ids)
      /\ \A k \in 1 .. Len(ids) : Ordered(Rows(ids))[k] = Rows(ids)[k - 1]
  BY <1>1, OrderedList
<1>3. ASSUME NEW k \in 1 .. Len(ids)
      PROVE  Ordered(Rows(ids))[k] = ids[k]
  <2>1. k - 1 \in 0 .. Len(ids) - 1 /\ (k - 1) + 1 = k
    BY <1>1
  <2> QED
    BY <1>1, <1>2, <2>1
<1> QED
  BY <1>2, <1>3, SeqEqual

LEMMA OrderedAppended ==
  ASSUME NEW rows, NEW n, IsList(rows, n), NEW ids \in Seq(Files)
  PROVE  Ordered(Joined(rows, From(n, ids))) = Ordered(rows) \o ids
<1> DEFINE new == Joined(rows, From(n, ids))
           old == Ordered(rows)
<1>1. Len(ids) \in Nat /\ n \in Nat
  BY DEF IsList
<1>2. old \in Seq(Files) /\ Len(old) = n /\ \A k \in 1 .. n : old[k] = rows[k - 1]
  BY OrderedList
<1>3. /\ IsList(new, n + Len(ids))
      /\ \A i \in 0 .. n + Len(ids) - 1 : new[i] = IF i < n THEN rows[i] ELSE ids[i - n + 1]
  BY AppendedIsList
<1> HIDE DEF new, old
<1>4. /\ Ordered(new) \in Seq(Files) /\ Len(Ordered(new)) = n + Len(ids)
      /\ \A k \in 1 .. n + Len(ids) : Ordered(new)[k] = new[k - 1]
  BY <1>3, OrderedList
<1>5. /\ old \o ids \in Seq(Files) /\ Len(old \o ids) = n + Len(ids)
      /\ \A k \in 1 .. n + Len(ids) : (old \o ids)[k] = IF k <= n THEN old[k] ELSE ids[k - n]
  BY <1>1, <1>2, ConcatProperties
<1>6. ASSUME NEW k \in 1 .. n + Len(ids)
      PROVE  Ordered(new)[k] = (old \o ids)[k]
  <2>1. /\ k - 1 \in 0 .. n + Len(ids) - 1 /\ (k - 1) - n + 1 = k - n
        /\ k <= n <=> k - 1 < n
    BY <1>1
  <2>2. Ordered(new)[k] = IF k <= n THEN rows[k - 1] ELSE ids[k - n]
    BY <1>3, <1>4, <2>1
  <2>3. k <= n => old[k] = rows[k - 1]
    BY <1>1, <1>2
  <2> QED
    BY <1>5, <2>2, <2>3
<1>7. Ordered(new) = old \o ids
  BY <1>4, <1>5, <1>6, SeqEqual
<1> QED
  BY <1>7 DEF new, old

LEMMA OrderedWithout ==
  ASSUME NEW rows, NEW n, IsList(rows, n), NEW pos \in DOMAIN rows
  PROVE  /\ pos \in Positions(Ordered(rows))
         /\ Ordered(Without(rows, pos)) = Removed(Ordered(rows), pos)
<1> DEFINE new == Without(rows, pos)
           old == Ordered(rows)
<1>1. n \in Nat /\ pos \in Nat /\ pos <= n - 1
  BY DEF IsList
<1>2. old \in Seq(Files) /\ Len(old) = n /\ \A k \in 1 .. n : old[k] = rows[k - 1]
  BY OrderedList
<1>3. /\ IsList(new, n - 1)
      /\ \A i \in 0 .. n - 2 : new[i] = IF i < pos THEN rows[i] ELSE rows[i + 1]
  BY WithoutIsList
<1> HIDE DEF new, old
<1>4. /\ Ordered(new) \in Seq(Files) /\ Len(Ordered(new)) = n - 1
      /\ \A k \in 1 .. n - 1 : Ordered(new)[k] = new[k - 1]
  BY <1>3, OrderedList
<1>5. pos \in Positions(old)
  BY <1>1, <1>2 DEF Positions
<1>6. /\ Removed(old, pos) \in Seq(Files) /\ Len(Removed(old, pos)) = n - 1
      /\ \A j \in 0 .. n - 2 : Removed(old, pos)[j + 1] =
                                 IF j < pos THEN old[j + 1] ELSE old[j + 2]
  <2>1. \A j \in 0 .. n - 2 : (j + 1) + 1 = j + 2
    BY <1>1
  <2> QED
    BY <1>2, <1>5, <2>1, RemovedProperties DEF TrackAt
<1>7. ASSUME NEW k \in 1 .. n - 1
      PROVE  Ordered(new)[k] = Removed(old, pos)[k]
  <2>1. /\ k - 1 \in 0 .. n - 2 /\ (k - 1) + 1 = k /\ (k - 1) + 2 = k + 1
        /\ k \in 1 .. n /\ k + 1 \in 1 .. n /\ (k + 1) - 1 = k
    BY <1>1
  <2>2. Ordered(new)[k] = IF k - 1 < pos THEN rows[k - 1] ELSE rows[k]
    BY <1>3, <1>4, <2>1
  <2>3. Removed(old, pos)[k] = IF k - 1 < pos THEN old[k] ELSE old[k + 1]
    BY <1>6, <2>1
  <2>4. old[k] = rows[k - 1] /\ old[k + 1] = rows[k]
    BY <1>2, <2>1
  <2> QED
    BY <2>2, <2>3, <2>4
<1>8. Ordered(new) = Removed(old, pos)
  BY <1>4, <1>6, <1>7, SeqEqual
<1> QED
  BY <1>5, <1>8 DEF new, old

-----------------------------------------------------------------------------
(* Kinds *)

(* Tasks that have begun are those that had, or commands that were just    *)
(* accepted.                                                               *)
Begun(t) == t.pc \in {"begin", "write", "outdated"} /\ t.cmd.op # "update"

KindOK(t, ks, ids) ==
    t.cmd.p \in ids /\ (t.cmd.p \in DOMAIN ks => ks[t.cmd.p] = "normal")

LEMMA KindsStep ==
  ASSUME Inv, KindsOK,
         spent \subseteq spent',
         \A p \in DOMAIN kinds' : \/ p \notin spent
                                  \/ p \in DOMAIN kinds /\ kinds'[p] = kinds[p],
         \A c \in Clients :
            Begun(task'[c]) => \/ Begun(task[c]) /\ task'[c].cmd = task[c].cmd
                               \/ KindOK(task'[c], kinds, spent)
  PROVE  KindsOK'
<1>1. ASSUME NEW c \in Clients, Begun(task'[c])
      PROVE  KindOK(task'[c], kinds, spent)
  BY <1>1 DEF KindsOK, Begun, KindOK
<1>2. ASSUME NEW c \in Clients, Begun(task'[c])
      PROVE  KindOK(task'[c], kinds', spent')
  BY <1>1, <1>2 DEF KindOK
<1> QED
  BY <1>2 DEF KindsOK, Begun, KindOK

LEMMA OutdatedBegun ==
  ASSUME NEW t
  PROVE  Begun(Outdated(t)) => Begun(t) /\ Outdated(t).cmd = t.cmd
BY OutdatedFields DEF Begun

LEMMA CommittedBegun ==
  ASSUME Inv, NEW c \in Clients, Committed(c) \/ Ends(c)
  PROVE  \A x \in Clients : Begun(task'[x]) => Begun(task[x]) /\ task'[x].cmd = task[x].cmd
<1>1. DOMAIN task = Clients
  BY DEF Inv, TypeOK, TaskType
<1>2. ~ Begun(Idle)
  BY IdleFields DEF Begun
<1>3. CASE Committed(c)
  BY <1>2, <1>3, OutdatedBegun DEF Committed, AllOutdated
<1>4. CASE Ends(c)
  BY <1>1, <1>2, <1>4 DEF Ends
<1> QED
  BY <1>3, <1>4

LEMMA KindsClientStep ==
  ASSUME Inv, KindsOK, NEW c \in Clients, ClientStep(c)
  PROVE  KindsOK'
<1> DEFINE cmd == task[c].cmd
<1>0. DOMAIN task = Clients /\ DOMAIN kinds \subseteq spent /\ TasksOK
  BY DEF Inv, TypeOK, TaskType, TableType
<1>1. ASSUME NEW p \in Playlists, CreatePlaylist(c, p)
      PROVE  KindsOK'
  <2>1. /\ spent' = spent \cup {p} /\ p \notin spent /\ DOMAIN kinds' = DOMAIN kinds \cup {p}
        /\ \A q \in DOMAIN kinds \ {p} : kinds'[q] = kinds[q]
    BY <1>1 DEF CreatePlaylist
  <2> QED
    BY <1>1, <2>1, CommittedBegun, KindsStep DEF CreatePlaylist
<1>2. CASE DeletePlaylist(c)
  BY <1>2, CommittedBegun, KindsStep DEF DeletePlaylist
<1>3. CASE Look(c)
  <2>1. CASE Ends(c)
    BY <1>3, <2>1, CommittedBegun, KindsStep DEF Look, playlists
  <2>2. CASE Accepts(cmd) /\ Begins(c)
    <3>1. /\ task'[c] = Busy("begin", cmd) /\ \A x \in Clients \ {c} : task'[x] = task[x]
      BY <1>0, <2>2 DEF Begins
    <3>2. cmd.op # "update" => cmd.p \in DOMAIN kinds /\ kinds[cmd.p] = "normal"
      BY <2>2 DEF Accepts
    <3>3. Begun(task'[c]) => KindOK(task'[c], kinds, spent)
      BY <1>0, <3>1, <3>2 DEF Busy, Begun, KindOK
    <3> QED
      BY <1>3, <3>1, <3>3, KindsStep DEF Look, playlists
  <2> QED
    BY <1>3, <2>1, <2>2 DEF Look
<1>4. CASE Read(c)
  <2>1. CASE Ends(c)
    BY <1>4, <2>1, CommittedBegun, KindsStep DEF Read, playlists
  <2>2. CASE task' = [task EXCEPT ![c] = [pc |-> "write", cmd |-> cmd, read |-> Listed(cmd.p)]]
    <3>1. /\ task'[c].cmd = cmd /\ \A x \in Clients \ {c} : task'[x] = task[x]
      BY <1>0, <2>2
    <3>2. Begun(task[c])
      BY <1>4 DEF Read, Begun
    <3> QED
      BY <1>4, <3>1, <3>2, KindsStep DEF Read, playlists
  <2> QED
    BY <1>4, <2>1, <2>2 DEF Read
<1>5. CASE \/ UpdatePlaylist(c) \/ SetPlaylistTracks(c) \/ RemovePlaylistTrack(c)
           \/ AppendPlaylistTracks(c) \/ MovePlaylistTrack(c) \/ GiveUp(c)
  <2>1. (Committed(c) \/ Ends(c)) /\ UNCHANGED <<kinds, spent>>
    BY <1>5 DEF UpdatePlaylist, SetPlaylistTracks, RemovePlaylistTrack,
                AppendPlaylistTracks, MovePlaylistTrack, GiveUp, playlists
  <2> QED
    BY <2>1, CommittedBegun, KindsStep
<1> QED
  BY <1>1, <1>2, <1>3, <1>4, <1>5 DEF ClientStep

LEMMA KindsNext ==
  ASSUME Inv, KindsOK, [Next]_vars
  PROVE  KindsOK'
<1>0. DOMAIN task = Clients
  BY DEF Inv, TypeOK, TaskType
<1>1. ASSUME NEW c \in Clients, NEW cmd \in Commands, Request(c, cmd)
      PROVE  KindsOK'
  <2> DEFINE pc == IF cmd.op \in {"create", "delete"} THEN cmd.op ELSE "look"
  <2>1. task'[c] = Busy(pc, cmd) /\ \A x \in Clients \ {c} : task'[x] = task[x]
    BY <1>0, <1>1 DEF Request
  <2>2. pc \in {"create", "delete", "look"}
    BY CommandFields
  <2> HIDE DEF pc
  <2>3. ~ Begun(task'[c])
    BY <2>1, <2>2 DEF Busy, Begun
  <2> QED
    BY <1>1, <2>1, <2>3, KindsStep DEF Request, playlists
<1>2. CASE UNCHANGED playlists /\ (task' = AllOutdated \/ UNCHANGED task)
  <2>1. \A x \in Clients : Begun(task'[x]) => Begun(task[x]) /\ task'[x].cmd = task[x].cmd
    BY <1>2, OutdatedBegun DEF AllOutdated
  <2> QED
    BY <1>2, <2>1, KindsStep DEF playlists
<1>3. CASE ScannerStep \/ ScanFails
  BY <1>2, <1>3 DEF ScannerStep, ScanFails, Walk, Skip, ExtractTrack, UpsertTrack, PurgeMissing,
                    PurgeRefused, ScannerCommits
<1>4. CASE \/ \E f \in Files : Write(f) \/ ComeOrGo(f)
           \/ StateIsSaved \/ UNCHANGED vars
  BY <1>2, <1>4 DEF Write, ComeOrGo, StateIsSaved, ScannerCommits, vars
<1> QED
  BY <1>1, <1>3, <1>4, KindsClientStep DEF Next

LEMMA KindsInit == Init => KindsOK
BY IdleFields DEF Init, KindsOK

-----------------------------------------------------------------------------
(* Lists and pending commands *)

LEMMA ListsFields ==
  /\ DOMAIN Lists = DOMAIN kinds
  /\ \A p \in DOMAIN kinds :
       Lists[p] = IF kinds[p] = "smart" THEN Smart ELSE Ordered(entries[p])
BY DEF Lists

LEMMA NormalList ==
  ASSUME Inv, NEW p \in DOMAIN kinds, kinds[p] = "normal"
  PROVE  L!Normal(p) /\ Lists[p] = Ordered(entries[p])
<1>1. Lists[p] = Ordered(entries[p]) /\ p \in DOMAIN Lists
  BY ListsFields
<1>2. Ordered(entries[p]) \in Seq(Files)
  BY ListOf, OrderedList
<1> QED
  BY <1>1, <1>2, SmartAssumption DEF L!Normal

LEMMA ListsUnchanged == UNCHANGED <<kinds, entries>> => UNCHANGED Lists
BY DEF Lists

LEMMA StoreLists ==
  ASSUME Inv, NEW p \in DOMAIN kinds, kinds[p] = "normal", NEW rows,
         Store(p, rows), UNCHANGED kinds
  PROVE  L!Change(p, Ordered(rows))
<1>1. DOMAIN entries = DOMAIN kinds
  BY DEF Inv, TypeOK, TableType
<1>2. entries'[p] = rows /\ \A q \in DOMAIN kinds \ {p} : entries'[q] = entries[q]
  BY <1>1 DEF Store
<1>3. Lists' = [q \in DOMAIN kinds |->
                  IF kinds[q] = "smart" THEN Smart ELSE Ordered(entries'[q])]
  BY DEF Lists, Ordered
<1>4. Lists' = [q \in DOMAIN Lists |-> IF q = p THEN Ordered(rows) ELSE Lists[q]]
  BY <1>2, <1>3, ListsFields
<1> QED
  BY <1>4 DEF L!Change

LEMMA PendingOver ==
  ASSUME Inv, NEW c \in Clients, Committed(c) \/ Ends(c)
  PROVE  L!Over(c)
<1>0. DOMAIN task = Clients
  BY DEF Inv, TypeOK, TaskType
<1>1. task'[c] = Idle /\ \A x \in Clients \ {c} : task'[x].cmd = task[x].cmd
  <2>1. CASE Committed(c)
    BY <2>1, OutdatedFields DEF Committed, AllOutdated
  <2>2. CASE Ends(c)
    BY <1>0, <2>2 DEF Ends
  <2> QED
    BY <2>1, <2>2
<1>2. Pending' = [x \in Clients |-> task'[x].cmd]
  BY DEF Pending
<1>3. Pending' = [x \in Clients |-> IF x = c THEN Nothing ELSE Pending[x]]
  BY <1>1, <1>2, IdleFields DEF Pending
<1> QED
  BY <1>3 DEF L!Over, Pending

LEMMA PendingSame ==
  ASSUME \A x \in Clients : task'[x].cmd = task[x].cmd
  PROVE  UNCHANGED Pending
BY DEF Pending

LEMMA PendingCommand ==
  ASSUME Inv, NEW c \in Clients, task[c].pc # "idle"
  PROVE  Pending[c] = task[c].cmd /\ Pending[c] # Nothing
BY BusyFields, NothingAssumption DEF Pending

LEMMA DropStep ==
  ASSUME Inv, NEW c \in Clients, task[c].pc # "idle", Committed(c) \/ Ends(c),
         UNCHANGED <<kinds, entries>>
  PROVE  L!Next
<1>1. L!Drop(c)
  BY PendingOver, PendingCommand, ListsUnchanged DEF L!Drop
<1> QED
  BY <1>1 DEF L!Next

LEMMA ApplyStep ==
  ASSUME Inv, NEW c \in Clients, task[c].pc # "idle", Committed(c), L!Effect(task[c].cmd)
  PROVE  L!Next
<1>1. L!Apply(c)
  BY PendingOver, PendingCommand DEF L!Apply
<1> QED
  BY <1>1 DEF L!Next

-----------------------------------------------------------------------------
(* The steps *)

LEMMA CreateEffect ==
  ASSUME Inv, NEW c \in Clients, NEW p \in Playlists, CreatePlaylist(c, p)
  PROVE  L!Effect(task[c].cmd)
<1> DEFINE cmd == task[c].cmd
<1>1. cmd \in Commands /\ cmd.op = "create"
  BY BusyFields DEF CreatePlaylist, Inv, TasksOK
<1>2. cmd.kind \in {"normal", "smart"} /\ p \notin DOMAIN kinds
  BY <1>1, CommandFields DEF CreatePlaylist, Inv, TypeOK, TableType
<1>3. /\ DOMAIN kinds' = DOMAIN kinds \cup {p}
      /\ kinds'[p] = cmd.kind /\ entries'[p] = NoRows
      /\ \A q \in DOMAIN kinds : kinds'[q] = kinds[q] /\ entries'[q] = entries[q]
  BY <1>2 DEF CreatePlaylist
<1>4. Lists' = [q \in DOMAIN kinds' |->
                  IF kinds'[q] = "smart" THEN Smart ELSE Ordered(entries'[q])]
  BY DEF Lists, Ordered
<1>5. Ordered(NoRows) = <<>>
  <2>1. IsList(NoRows, 0)
    BY DEF IsList, IsTable, NoRows
  <2>2. Ordered(NoRows) \in Seq(Files) /\ Len(Ordered(NoRows)) = 0
    BY <2>1, OrderedList
  <2> QED
    BY <2>2, EmptySeq
<1>6. Lists' = [q \in DOMAIN Lists \cup {p} |->
                  IF q # p THEN Lists[q] ELSE IF cmd.kind = "smart" THEN Smart ELSE <<>>]
  BY <1>2, <1>3, <1>4, <1>5, ListsFields
<1>7. L!Create(p, cmd.kind)
  BY <1>2, <1>6, ListsFields DEF L!Create
<1> QED
  BY <1>1, <1>7 DEF L!Effect

LEMMA DeleteEffect ==
  ASSUME Inv, NEW c \in Clients, DeletePlaylist(c)
  PROVE  L!Effect(task[c].cmd)
<1> DEFINE cmd == task[c].cmd
<1>1. cmd.op = "delete"
  BY DEF DeletePlaylist, Inv, TasksOK
<1>2. /\ DOMAIN kinds' = DOMAIN kinds \ {cmd.p}
      /\ \A q \in DOMAIN kinds \ {cmd.p} : kinds'[q] = kinds[q] /\ entries'[q] = entries[q]
  BY DEF DeletePlaylist
<1>3. Lists' = [q \in DOMAIN kinds' |->
                  IF kinds'[q] = "smart" THEN Smart ELSE Ordered(entries'[q])]
  BY DEF Lists, Ordered
<1>4. Lists' = [q \in DOMAIN Lists \ {cmd.p} |-> Lists[q]]
  BY <1>2, <1>3, ListsFields
<1> QED
  BY <1>1, <1>4 DEF L!Effect, L!Delete

LEMMA SetEffect ==
  ASSUME Inv, KindsOK, NEW c \in Clients, SetPlaylistTracks(c),
         task[c].cmd.p \in DOMAIN kinds
  PROVE  L!Effect(task[c].cmd)
<1> DEFINE cmd == task[c].cmd
<1>1. cmd \in Commands /\ cmd.op = "set" /\ kinds[cmd.p] = "normal"
  BY BusyFields DEF SetPlaylistTracks, KindsOK
<1>2. cmd.ids \in Seq(Files)
  BY <1>1, CommandFields, BatchFields
<1>3. L!Change(cmd.p, Ordered(Rows(cmd.ids)))
  BY <1>1, StoreLists DEF SetPlaylistTracks
<1>4. L!Set(cmd.p, cmd.ids)
  BY <1>1, <1>2, <1>3, OrderedRows, NormalList DEF L!Set
<1> QED
  BY <1>1, <1>4 DEF L!Effect

LEMMA RemoveEffect ==
  ASSUME Inv, KindsOK, NEW c \in Clients, RemovePlaylistTrack(c),
         task[c].cmd.from \in DOMAIN Listed(task[c].cmd.p)
  PROVE  L!Effect(task[c].cmd)
<1> DEFINE cmd == task[c].cmd
<1>1. cmd.op = "remove" /\ cmd.p \in DOMAIN kinds /\ kinds[cmd.p] = "normal"
  BY DEF RemovePlaylistTrack, KindsOK, Listed, NoRows
<1>2. cmd.from \in DOMAIN entries[cmd.p]
  BY <1>1 DEF Listed
<1>3. PICK n \in Nat : IsList(entries[cmd.p], n)
  BY <1>1, ListOf
<1>4. L!Change(cmd.p, Ordered(Without(entries[cmd.p], cmd.from)))
  BY <1>1, <1>2, StoreLists DEF RemovePlaylistTrack, Listed
<1>5. /\ cmd.from \in Positions(Lists[cmd.p])
      /\ L!Change(cmd.p, Removed(Lists[cmd.p], cmd.from))
  BY <1>1, <1>2, <1>3, <1>4, OrderedWithout, NormalList
<1>6. L!Remove(cmd.p, cmd.from)
  BY <1>1, <1>5, NormalList, SameQueueOps DEF L!Remove
<1> QED
  BY <1>1, <1>6 DEF L!Effect

LEMMA AppendEffect ==
  ASSUME Inv, KindsOK, NEW c \in Clients, AppendPlaylistTracks(c), Committed(c),
         task[c].cmd.p \in DOMAIN kinds,
         Store(task[c].cmd.p,
               Joined(entries[task[c].cmd.p],
                      From(NextPosition(task[c].read), task[c].cmd.ids)))
  PROVE  L!Effect(task[c].cmd)
<1> DEFINE cmd == task[c].cmd
<1>1. cmd \in Commands /\ cmd.op = "append" /\ kinds[cmd.p] = "normal"
  BY BusyFields DEF AppendPlaylistTracks, KindsOK
<1>2. cmd.ids \in Seq(Files)
  BY <1>1, CommandFields, BatchFields
<1>3. task[c].read = entries[cmd.p]
  BY DEF AppendPlaylistTracks, Inv, ListsInv, ReadsAreCurrent, Current, Listed
<1>4. PICK n \in Nat : IsList(entries[cmd.p], n)
  BY ListOf
<1>5. L!Change(cmd.p, Ordered(Joined(entries[cmd.p], From(n, cmd.ids))))
  <2>1. Store(cmd.p, Joined(entries[cmd.p], From(n, cmd.ids)))
    BY <1>3, <1>4, NextPositionOfList
  <2> QED
    BY <1>1, <2>1, StoreLists DEF AppendPlaylistTracks
<1>6. L!Change(cmd.p, Lists[cmd.p] \o cmd.ids)
  <2>1. Ordered(Joined(entries[cmd.p], From(n, cmd.ids))) = Ordered(entries[cmd.p]) \o cmd.ids
    BY <1>2, <1>4, OrderedAppended
  <2>2. Lists[cmd.p] = Ordered(entries[cmd.p])
    BY <1>1, NormalList
  <2> QED
    BY <1>5, <2>1, <2>2
<1>7. L!Extend(cmd.p, cmd.ids)
  BY <1>1, <1>6, NormalList DEF L!Extend
<1> QED
  BY <1>1, <1>7 DEF L!Effect

LEMMA MoveEffect ==
  ASSUME Inv, KindsOK, NEW c \in Clients, MovePlaylistTrack(c), Committed(c),
         task[c].cmd.p \in DOMAIN kinds,
         Store(task[c].cmd.p,
               Rows(Moved(Ordered(task[c].read), task[c].cmd.from,
                          MoveTarget(task[c].cmd.to, Len(Ordered(task[c].read))))))
  PROVE  L!Effect(task[c].cmd)
<1> DEFINE cmd  == task[c].cmd
           ids  == Ordered(entries[cmd.p])
           to   == MoveTarget(cmd.to, Len(ids))
           last == Len(Lists[cmd.p]) - 1
<1>1. cmd \in Commands /\ cmd.op = "move" /\ kinds[cmd.p] = "normal"
  BY BusyFields DEF MovePlaylistTrack, KindsOK
<1>2. cmd.from \in Nat /\ cmd.to \in Nat
  BY <1>1, CommandFields
<1>3. task[c].read = entries[cmd.p] /\ cmd.from < Cardinality(DOMAIN entries[cmd.p])
  BY <1>1 DEF MovePlaylistTrack, Inv, ListsInv, ReadsAreCurrent, Current, Listed
<1>4. PICK n \in Nat : IsList(entries[cmd.p], n)
  BY ListOf
<1>5. ids \in Seq(Files) /\ Len(ids) = n /\ cmd.from < n
  BY <1>3, <1>4, OrderedList
<1>6. Lists[cmd.p] = ids /\ L!Normal(cmd.p)
  BY <1>1, NormalList
<1>7. /\ cmd.from \in Positions(ids) /\ to \in Positions(ids)
      /\ to = IF cmd.to > last THEN last ELSE cmd.to
  BY <1>2, <1>4, <1>5, <1>6 DEF Positions, MoveTarget
<1>8. Store(cmd.p, Rows(Moved(ids, cmd.from, to)))
  BY <1>3
<1> HIDE DEF ids, to
<1>9. L!Change(cmd.p, Ordered(Rows(Moved(ids, cmd.from, to))))
  BY <1>1, <1>8, StoreLists DEF MovePlaylistTrack
<1>10. L!Change(cmd.p, Moved(ids, cmd.from, to))
  BY <1>5, <1>7, <1>9, MovedProperties, OrderedRows
<1>11. L!Move(cmd.p, cmd.from, cmd.to)
  BY <1>6, <1>7, <1>10, SameQueueOps DEF L!Move
<1> QED
  BY <1>1, <1>11 DEF L!Effect

LEMMA ClientStepRefines ==
  ASSUME Inv, KindsOK, NEW c \in Clients, ClientStep(c)
  PROVE  L!Next \/ UNCHANGED <<Lists, Pending>>
<1> DEFINE cmd == task[c].cmd
<1>0. DOMAIN task = Clients
  BY DEF Inv, TypeOK, TaskType
<1>1. ASSUME NEW p \in Playlists, CreatePlaylist(c, p)
      PROVE  L!Next
  BY <1>1, CreateEffect, ApplyStep DEF CreatePlaylist
<1>2. CASE DeletePlaylist(c)
  BY <1>2, DeleteEffect, ApplyStep DEF DeletePlaylist
<1>3. CASE Look(c)
  <2>1. CASE Ends(c)
    BY <1>3, <2>1, DropStep DEF Look, playlists
  <2>2. CASE Begins(c)
    <3>1. \A x \in Clients : task'[x].cmd = task[x].cmd
      BY <1>0, <2>2 DEF Begins, Busy
    <3> QED
      BY <1>3, <3>1, PendingSame, ListsUnchanged DEF Look, playlists
  <2> QED
    BY <1>3, <2>1, <2>2 DEF Look
<1>4. CASE UpdatePlaylist(c)
  BY <1>4, DropStep DEF UpdatePlaylist, playlists
<1>5. CASE SetPlaylistTracks(c)
  <2>1. CASE cmd.p \in DOMAIN kinds
    BY <1>5, <2>1, SetEffect, ApplyStep DEF SetPlaylistTracks
  <2>2. CASE cmd.p \notin DOMAIN kinds
    BY <1>5, <2>2, DropStep DEF SetPlaylistTracks
  <2> QED
    BY <2>1, <2>2
<1>6. CASE RemovePlaylistTrack(c)
  <2>1. CASE cmd.from \in DOMAIN Listed(cmd.p)
    BY <1>6, <2>1, RemoveEffect, ApplyStep DEF RemovePlaylistTrack
  <2>2. CASE cmd.from \notin DOMAIN Listed(cmd.p)
    BY <1>6, <2>2, DropStep DEF RemovePlaylistTrack
  <2> QED
    BY <2>1, <2>2
<1>7. CASE Read(c)
  <2>1. CASE Ends(c)
    BY <1>7, <2>1, DropStep DEF Read, playlists
  <2>2. CASE task' = [task EXCEPT ![c] = [pc |-> "write", cmd |-> cmd, read |-> Listed(cmd.p)]]
    <3>1. \A x \in Clients : task'[x].cmd = task[x].cmd
      BY <1>0, <2>2
    <3> QED
      BY <1>7, <3>1, PendingSame, ListsUnchanged DEF Read, playlists
  <2> QED
    BY <1>7, <2>1, <2>2 DEF Read
<1>8. CASE AppendPlaylistTracks(c)
  <2>1. CASE /\ cmd.p \in DOMAIN kinds
             /\ Store(cmd.p, Joined(entries[cmd.p], From(NextPosition(task[c].read), cmd.ids)))
             /\ Committed(c)
    BY <1>8, <2>1, AppendEffect, ApplyStep DEF AppendPlaylistTracks
  <2>2. CASE Ends(c) /\ UNCHANGED entries
    BY <1>8, <2>2, DropStep DEF AppendPlaylistTracks
  <2> QED
    BY <1>8, <2>1, <2>2 DEF AppendPlaylistTracks
<1>9. CASE MovePlaylistTrack(c)
  <2>1. CASE /\ cmd.p \in DOMAIN kinds
             /\ Store(cmd.p, Rows(Moved(Ordered(task[c].read), cmd.from,
                                   MoveTarget(cmd.to, Len(Ordered(task[c].read))))))
             /\ Committed(c)
    BY <1>9, <2>1, MoveEffect, ApplyStep DEF MovePlaylistTrack
  <2>2. CASE Ends(c) /\ UNCHANGED entries
    BY <1>9, <2>2, DropStep DEF MovePlaylistTrack
  <2> QED
    BY <1>9, <2>1, <2>2 DEF MovePlaylistTrack
<1>10. CASE GiveUp(c)
  BY <1>10, DropStep DEF GiveUp, playlists
<1> QED
  BY <1>1, <1>2, <1>3, <1>4, <1>5, <1>6, <1>7, <1>8, <1>9, <1>10 DEF ClientStep

(* Sending a command is Send; the scanner, the files and the saved state   *)
(* are not seen.                                                           *)
LEMMA StepRefines ==
  ASSUME Inv, KindsOK, [Next]_vars
  PROVE  L!Next \/ UNCHANGED <<Lists, Pending>>
<1>0. DOMAIN task = Clients
  BY DEF Inv, TypeOK, TaskType
<1>1. ASSUME NEW c \in Clients, NEW cmd \in Commands, Request(c, cmd)
      PROVE  L!Next
  <2>1. \A x \in Clients \ {c} : task'[x] = task[x]
    BY <1>0, <1>1 DEF Request
  <2>2. Pending[c] = Nothing
    BY <1>1 DEF Request, Pending, Inv, TypeOK, TaskType
  <2>3. Pending' = [x \in Clients |-> task'[x].cmd]
    BY DEF Pending
  <2>4. Pending' = [Pending EXCEPT ![c] = Pending'[c]]
    BY <2>1, <2>3 DEF Pending
  <2>5. UNCHANGED Lists
    BY <1>1, ListsUnchanged DEF Request, playlists
  <2> QED
    BY <2>2, <2>4, <2>5 DEF L!Send, L!Next
<1>2. CASE UNCHANGED playlists /\ (task' = AllOutdated \/ UNCHANGED task)
  <2>1. \A x \in Clients : task'[x].cmd = task[x].cmd
    BY <1>2, OutdatedFields DEF AllOutdated
  <2> QED
    BY <1>2, <2>1, PendingSame, ListsUnchanged DEF playlists
<1>3. CASE ScannerStep \/ ScanFails
  BY <1>2, <1>3 DEF ScannerStep, ScanFails, Walk, Skip, ExtractTrack, UpsertTrack, PurgeMissing,
                    PurgeRefused, ScannerCommits
<1>4. CASE \/ \E f \in Files : Write(f) \/ ComeOrGo(f)
           \/ StateIsSaved \/ UNCHANGED vars
  BY <1>2, <1>4 DEF Write, ComeOrGo, StateIsSaved, ScannerCommits, vars
<1> QED
  BY <1>1, <1>3, <1>4, ClientStepRefines DEF Next

LEMMA InitRefines == Init => L!Init
<1> SUFFICES ASSUME Init PROVE L!Init
  OBVIOUS
<1>1. DOMAIN Lists \subseteq Playlists
  BY ListsFields DEF Init
<1>2. Pending = [c \in Clients |-> Nothing]
  BY IdleFields DEF Init, Pending
<1> QED
  BY <1>1, <1>2 DEF L!Init

(* A playlist command takes effect at once, on the list as it is, or not   *)
(* at all, whatever other clients and the scanner do at the same time.     *)
THEOREM PlaylistsAlwaysLists == Spec => PlaylistsAreLists
<1>1. Inv /\ KindsOK /\ [Next]_vars => [L!Next]_(L!vars)
  BY StepRefines DEF L!vars
<1> QED
  BY <1>1, InitRefines, KindsInit, KindsNext, InvAlways, PTL
     DEF Spec, PlaylistsAreLists, L!Spec
=============================================================================
