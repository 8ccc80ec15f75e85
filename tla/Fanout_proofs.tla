---------------------------- MODULE Fanout_proofs ----------------------------
(***************************************************************************)
(* Theorems about Fanout, for any nodes, tasks, clients, records, capacity *)
(* and bounds.                                                             *)
(***************************************************************************)
EXTENDS Fanout, WellFoundedInduction, SequenceTheorems, TLAPS

PCs    == {"idle", "sync", "clone", "ws", "bridge", "events", "save"}
Events == [kind : {"changed"}] \cup [kind : {"point"}, id : Nat]

TaskSet(Snaps, Sets) ==
    [Tasks -> [pc : PCs, snap : Snaps, write : Sets, events : Seq(Events)]]

(* Tasks are records with these fields, whatever states they carry.        *)
TasksOK ==
    \E Snaps, Sets : task \in TaskSet(Snaps, Sets)

(* The points are a list of whatever tracks.                               *)
PointsOK == \E S : points \in Seq(S)

(* What diff_events announces before a scrobble point.                     *)
LEMMA DiffEvents ==
  ASSUME NEW s
  PROVE  /\ Announced(s) \in Seq(Events)
         /\ Announced(s) = <<>> \/ Announced(s) = <<[kind |-> "changed"]>>
<1>1. [kind |-> "changed"] \in Events
  BY DEF Events
<1> QED
  BY <1>1 DEF Announced

LEMMA PointsSteps ==
  ASSUME PointsOK, NEW t \in Tasks, Diff(t)
  PROVE  /\ PointsOK'
         /\ points' = IF Scrobbles(task[t].snap) THEN Append(points, CurrentTrack(task[t].snap)) ELSE points
<1>1. PICK S : points \in Seq(S)
  BY DEF PointsOK
<1>2. points' \in Seq(S \cup {CurrentTrack(task[t].snap)})
  BY <1>1 DEF Diff
<1> QED
  BY <1>2 DEF Diff, PointsOK

(* Every step of a task keeps it a record.                                 *)
LEMMA TaskSteps ==
  ASSUME TasksOK, PointsOK, NEW t \in Tasks, Change(t) \/ Broadcast(t) \/ SaveFails(t)
  PROVE  TasksOK'
<1> PICK V, W : task \in TaskSet(V, W)
  BY DEF TasksOK
<1>1. CASE Change(t)
  <2>1. task' \in TaskSet(V, W)
    BY <1>1 DEF Change, Go, TaskSet, PCs
  <2> QED
    BY <2>1 DEF TasksOK
<1>2. CASE SyncTopLevel(t) \/ ToClients(t)
  <2>1. task' \in TaskSet(V, W)
    BY <1>2 DEF SyncTopLevel, ToClients, Go, TaskSet, PCs
  <2> QED
    BY <2>1 DEF TasksOK
<1>3. CASE Snapshot(t)
  <2>1. task' \in TaskSet(V \cup {state}, W)
    BY <1>3 DEF Snapshot, TaskSet, PCs
  <2> QED
    BY <2>1 DEF TasksOK
<1>4. CASE Diff(t)
  <2> DEFINE e == Announced(task[t].snap) \o
                    IF Scrobbles(task[t].snap) THEN <<[kind |-> "point", id |-> Len(points')]>> ELSE <<>>
  <2>1. e \in Seq(Events)
    <3>1. Len(points') \in Nat
      BY <1>4, PointsSteps DEF PointsOK
    <3>2. [kind |-> "point", id |-> Len(points')] \in Events
      BY <3>1 DEF Events
    <3> QED
      BY <3>2, DiffEvents
  <2>2. task' = [task EXCEPT ![t].pc = "events", ![t].events = e]
    BY <1>4 DEF Diff
  <2> HIDE DEF e
  <2>3. task' \in TaskSet(V, W)
    BY <2>1, <2>2 DEF TaskSet, PCs
  <2> QED
    BY <2>3 DEF TasksOK
<1>5. CASE OnEvent(t)
  <2>1. task[t].events \in Seq(Events) /\ task[t].events # <<>>
    BY <1>5 DEF OnEvent, TaskSet
  <2>2. Tail(task[t].events) \in Seq(Events)
    BY <2>1
  <2>3. task' \in TaskSet(V, W)
    BY <1>5, <2>2 DEF OnEvent, TaskSet
  <2> QED
    BY <2>3 DEF TasksOK
<1>6. CASE SaveGlobal(t)
  <2>1. task' \in TaskSet(V, W \cup {DOMAIN task[t].snap.nodes})
    BY <1>6 DEF SaveGlobal, TaskSet, PCs
  <2> QED
    BY <2>1 DEF TasksOK
<1>7. CASE SaveNode(t)
  <2>1. PICK n \in task[t].write : task' = [task EXCEPT ![t].write = @ \ {n}]
    BY <1>7 DEF SaveNode
  <2>2. task' \in TaskSet(V, W \cup {task[t].write \ {n}})
    BY <2>1 DEF TaskSet
  <2> QED
    BY <2>2 DEF TasksOK
<1>8. CASE Prune(t) \/ SaveFails(t)
  <2>1. Idle \in [pc : PCs, snap : {NoState}, write : {{}}, events : Seq(Events)]
    BY DEF Idle, PCs
  <2>2. task' = [task EXCEPT ![t] = Idle]
    BY <1>8 DEF Prune, SaveFails
  <2>3. task' \in TaskSet(V \cup {NoState}, W \cup {{}})
    BY <2>1, <2>2 DEF TaskSet
  <2> QED
    BY <2>3 DEF TasksOK
<1> QED
  BY <1>1, <1>2, <1>3, <1>4, <1>5, <1>6, <1>7, <1>8 DEF Broadcast

(* Nothing else touches the tasks, but a restart, after which they do nothing. *)
LEMMA TasksNext ==
  ASSUME TasksOK, PointsOK, [Next]_vars
  PROVE  TasksOK' /\ PointsOK'
<1>1. ASSUME NEW t \in Tasks, Change(t) \/ Broadcast(t) \/ SaveFails(t)
      PROVE  TasksOK' /\ PointsOK'
  <2>1. PointsOK'
    BY <1>1, PointsSteps
       DEF Change, Broadcast, SyncTopLevel, Snapshot, ToClients, OnEvent, SaveGlobal, SaveNode,
           Prune, SaveFails, pluginVars, PointsOK
  <2> QED
    BY <1>1, <2>1, TaskSteps
<1>2. CASE Restart
  <2>1. Idle \in [pc : PCs, snap : {NoState}, write : {{}}, events : Seq(Events)]
    BY DEF Idle, PCs
  <2>2. task' \in TaskSet({NoState}, {{}})
    BY <1>2, <2>1 DEF Restart, TaskSet
  <2>3. points' \in Seq({})
    BY <1>2 DEF Restart
  <2> QED
    BY <2>2, <2>3 DEF TasksOK, PointsOK
<1>3. CASE UNCHANGED <<task, points>>
  BY <1>3 DEF TasksOK, PointsOK
<1>4. ASSUME NEW j \in DOMAIN jobs, LastFm(j)
      PROVE  UNCHANGED <<task, points>>
  BY <1>4 DEF LastFm, Scrobble, PushPending, Drain, Retry, PutBack, coreVars
<1>5. ASSUME NEW c \in Clients, Subscribe(c) \/ Client(c) \/ Leave(c)
      PROVE  UNCHANGED <<task, points>>
  BY <1>5 DEF Subscribe, Client, Greet, Read, Leave, coreVars, pluginVars
<1>6. CASE DeleteTrack \/ UNCHANGED vars
  BY <1>3, <1>6 DEF DeleteTrack, vars, coreVars, pluginVars
<1> QED
  BY <1>1, <1>2, <1>3, <1>4, <1>5, <1>6 DEF Next

LEMMA TasksInit == Init => TasksOK /\ PointsOK
<1> SUFFICES ASSUME Init PROVE TasksOK /\ PointsOK
  OBVIOUS
<1>1. Idle \in [pc : PCs, snap : {NoState}, write : {{}}, events : Seq(Events)]
  BY DEF Idle, PCs
<1>2. task \in TaskSet({NoState}, {{}}) /\ points \in Seq({})
  BY <1>1 DEF Init, TaskSet
<1> QED
  BY <1>2 DEF TasksOK, PointsOK

-----------------------------------------------------------------------------
(* What is stored *)

(* The table is a function from nodes to their rows.                       *)
IsTable(r) == r = [global |-> r.global, nodes |-> [n \in DOMAIN r.nodes |-> r.nodes[n]]]
RowsOK == IsTable(rows)

LEMMA TablesOfStates == ASSUME NEW s PROVE IsTable(RowsOf(s))
<1> DEFINE ns == [n \in DOMAIN s.nodes |-> NodeRow(s.nodes[n])]
<1>1. ns = [n \in DOMAIN ns |-> ns[n]]
  OBVIOUS
<1> QED
  BY <1>1 DEF IsTable, RowsOf

(* One task at most is in its persist, and it holds the database. What it  *)
(* has written so far is what its snapshot says.                           *)
SavingOK ==
    \A t \in Tasks : task[t].pc = "save" =>
        /\ holder = t
        /\ rows.global = GlobalRow(task[t].snap)
        /\ \A n \in DOMAIN task[t].snap.nodes \ task[t].write :
              n \in DOMAIN rows.nodes /\ rows.nodes[n] = NodeRow(task[t].snap.nodes[n])

StoredInv == RowsOK /\ SavingOK /\ StoredIsOneSnapshot

LEMMA RestStored ==
  ASSUME TasksOK, StoredInv, UNCHANGED dbVars,
         \A t \in Tasks : task'[t].pc = "save" => task'[t] = task[t]
  PROVE  StoredInv'
BY DEF StoredInv, RowsOK, IsTable, SavingOK, StoredIsOneSnapshot, dbVars

LEMMA PersistStored ==
  ASSUME TasksOK, StoredInv, NEW t \in Tasks, SaveGlobal(t) \/ SaveNode(t) \/ Prune(t) \/ SaveFails(t)
  PROVE  StoredInv'
<1> PICK V, W : task \in TaskSet(V, W)
  BY DEF TasksOK
<1>0. None \notin Tasks
  BY FanoutConstants
<1>1. CASE SaveGlobal(t)
  <2>1. /\ task' = [task EXCEPT ![t].pc = "save", ![t].write = DOMAIN task[t].snap.nodes]
        /\ rows' = [rows EXCEPT !.global = GlobalRow(task[t].snap)]
        /\ holder = None /\ holder' = t
    BY <1>1 DEF SaveGlobal
  <2>2. rows' = [global |-> GlobalRow(task[t].snap), nodes |-> [n \in DOMAIN rows.nodes |-> rows.nodes[n]]]
    BY <2>1 DEF StoredInv, RowsOK, IsTable
  <2>3. \A u \in Tasks : task[u].pc # "save"
    BY <1>0, <2>1 DEF StoredInv, SavingOK
  <2>4. SavingOK'
    BY <2>1, <2>2, <2>3 DEF SavingOK, TaskSet
  <2> QED
    BY <1>0, <2>1, <2>2, <2>4 DEF StoredInv, RowsOK, IsTable, StoredIsOneSnapshot
<1>2. CASE SaveNode(t)
  <2>1. PICK n \in task[t].write :
          /\ rows' = [rows EXCEPT !.nodes = [m \in DOMAIN @ \cup {n} |->
                                                IF m = n THEN NodeRow(task[t].snap.nodes[n]) ELSE @[m]]]
          /\ task' = [task EXCEPT ![t].write = @ \ {n}]
          /\ task[t].pc = "save" /\ UNCHANGED holder
    BY <1>2 DEF SaveNode
  <2>2. rows' = [global |-> rows.global,
                 nodes  |-> [m \in DOMAIN rows.nodes \cup {n} |->
                               IF m = n THEN NodeRow(task[t].snap.nodes[n]) ELSE rows.nodes[m]]]
    BY <2>1 DEF StoredInv, RowsOK, IsTable
  <2>3. holder = t
    BY <2>1 DEF StoredInv, SavingOK
  <2>4. SavingOK'
    BY <2>1, <2>2, <2>3 DEF StoredInv, SavingOK, TaskSet
  <2> QED
    BY <1>0, <2>1, <2>2, <2>3, <2>4 DEF StoredInv, RowsOK, IsTable, StoredIsOneSnapshot
<1>3. CASE Prune(t)
  <2> DEFINE snap == task[t].snap
  <2>1. /\ rows' = [rows EXCEPT !.nodes = Restrict(@, DOMAIN @ \cap DOMAIN snap.nodes)]
        /\ task' = [task EXCEPT ![t] = Idle] /\ persisted' = snap
        /\ task[t].pc = "save" /\ task[t].write = {} /\ holder' = None
    BY <1>3 DEF Prune
  <2>2. /\ holder = t /\ rows.global = GlobalRow(snap)
        /\ \A n \in DOMAIN snap.nodes : n \in DOMAIN rows.nodes /\ rows.nodes[n] = NodeRow(snap.nodes[n])
    BY <2>1 DEF StoredInv, SavingOK
  <2>3. Restrict(rows.nodes, DOMAIN rows.nodes \cap DOMAIN snap.nodes)
          = [n \in DOMAIN snap.nodes |-> NodeRow(snap.nodes[n])]
    BY <2>2 DEF Restrict
  <2>4. rows' = RowsOf(snap)
    BY <2>1, <2>2, <2>3 DEF StoredInv, RowsOK, IsTable, RowsOf
  <2>5. \A u \in Tasks : task'[u].pc # "save"
    BY <2>1, <2>2 DEF StoredInv, SavingOK, TaskSet, Idle
  <2> QED
    BY <2>1, <2>4, <2>5, TablesOfStates DEF StoredInv, RowsOK, SavingOK, StoredIsOneSnapshot
<1>4. CASE SaveFails(t)
  <2>1. /\ task' = [task EXCEPT ![t] = Idle] /\ task[t].pc = "save"
        /\ holder' = None /\ persisted' = None /\ UNCHANGED rows
    BY <1>4 DEF SaveFails
  <2>2. \A u \in Tasks : task'[u].pc # "save"
    BY <2>1 DEF StoredInv, SavingOK, TaskSet, Idle
  <2> QED
    BY <2>1, <2>2 DEF StoredInv, RowsOK, IsTable, SavingOK, StoredIsOneSnapshot
<1> QED
  BY <1>1, <1>2, <1>3, <1>4

LEMMA NextStored ==
  ASSUME TasksOK, StoredInv, [Next]_vars
  PROVE  StoredInv'
<1> PICK V, W : task \in TaskSet(V, W)
  BY DEF TasksOK
<1>1. ASSUME NEW t \in Tasks, Change(t) \/ Broadcast(t) \/ SaveFails(t)
      PROVE  StoredInv'
  <2>1. CASE \/ Change(t) \/ SyncTopLevel(t) \/ Snapshot(t) \/ ToClients(t)
             \/ Diff(t) \/ OnEvent(t)
    <3>1. UNCHANGED dbVars
      BY <2>1 DEF Change, SyncTopLevel, Snapshot, ToClients, Diff, OnEvent
    <3>2. \A u \in Tasks : task'[u].pc = "save" => task'[u] = task[u]
      BY <2>1 DEF Change, SyncTopLevel, Snapshot, ToClients, Diff, OnEvent, Go, TaskSet
    <3> QED
      BY <3>1, <3>2, RestStored
  <2> QED
    BY <1>1, <2>1, PersistStored DEF Broadcast
<1>2. CASE Restart
  <2>1. /\ \A u \in Tasks : task'[u].pc # "save"
        /\ UNCHANGED rows
        /\ persisted' = IF holder = None THEN persisted ELSE None
    BY <1>2 DEF Restart, Idle
  <2> QED
    BY <2>1 DEF StoredInv, RowsOK, IsTable, SavingOK, StoredIsOneSnapshot
<1>3. CASE UNCHANGED <<task, dbVars>>
  BY <1>3 DEF StoredInv, RowsOK, IsTable, SavingOK, StoredIsOneSnapshot, dbVars
<1>4. ASSUME NEW j \in DOMAIN jobs, LastFm(j)
      PROVE  UNCHANGED <<task, dbVars>>
  BY <1>4 DEF LastFm, Scrobble, PushPending, Drain, Retry, PutBack, coreVars
<1>5. ASSUME NEW c \in Clients, Subscribe(c) \/ Client(c) \/ Leave(c)
      PROVE  UNCHANGED <<task, dbVars>>
  BY <1>5 DEF Subscribe, Client, Greet, Read, Leave, coreVars
<1>6. CASE DeleteTrack \/ UNCHANGED vars
  BY <1>3, <1>6 DEF DeleteTrack, vars, coreVars
<1> QED
  BY <1>1, <1>2, <1>3, <1>4, <1>5, <1>6 DEF Next

(* Outside a persist the database holds one snapshot, whole and nothing    *)
(* else (DatabaseStatePersister::persist, Core::broadcast).                *)
THEOREM StoredIsAlwaysOneSnapshot == Spec => []StoredIsOneSnapshot
<1> DEFINE Inv == TasksOK /\ PointsOK /\ StoredInv
<1>1. Init => Inv
  <2>1. Init => StoredInv
    BY TablesOfStates DEF Init, StoredInv, RowsOK, SavingOK, StoredIsOneSnapshot, Idle
  <2> QED
    BY <2>1, TasksInit
<1>2. Inv /\ [Next]_vars => Inv'
  BY TasksNext, NextStored
<1>3. Inv => StoredIsOneSnapshot
  BY DEF StoredInv
<1> QED
  BY <1>1, <1>2, <1>3, PTL DEF Spec

-----------------------------------------------------------------------------
(* Scrobbles *)

LEMMA ToSetConcat ==
  ASSUME NEW S, NEW s \in Seq(S), NEW r \in Seq(S)
  PROVE  ToSet(s \o r) = ToSet(s) \cup ToSet(r)
<1>1. /\ s \o r \in Seq(S) /\ Len(s \o r) = Len(s) + Len(r)
      /\ \A i \in 1..Len(s) : (s \o r)[i] = s[i]
      /\ \A i \in 1..Len(r) : (s \o r)[Len(s) + i] = r[i]
  OBVIOUS
<1>2. ASSUME NEW i \in 1..(Len(s) + Len(r))
      PROVE  (s \o r)[i] \in ToSet(s) \cup ToSet(r)
  <2>1. CASE i <= Len(s)
    BY <1>1, <2>1 DEF ToSet
  <2>2. CASE i > Len(s)
    <3>1. i - Len(s) \in 1..Len(r) /\ i = Len(s) + (i - Len(s))
      BY <1>2, <2>2
    <3> QED
      BY <1>1, <3>1 DEF ToSet
  <2> QED
    BY <2>1, <2>2
<1>3. ASSUME NEW i \in 1..Len(s) PROVE s[i] \in ToSet(s \o r)
  BY <1>1 DEF ToSet
<1>4. ASSUME NEW i \in 1..Len(r) PROVE r[i] \in ToSet(s \o r)
  BY <1>1 DEF ToSet
<1>5. DOMAIN (s \o r) = 1..(Len(s) + Len(r)) /\ DOMAIN s = 1..Len(s) /\ DOMAIN r = 1..Len(r)
  BY <1>1
<1>6. ASSUME NEW x \in ToSet(s \o r) PROVE x \in ToSet(s) \cup ToSet(r)
  <2>1. PICK i \in DOMAIN (s \o r) : x = (s \o r)[i]
    BY DEF ToSet
  <2> QED
    BY <1>2, <1>5, <2>1
<1>7. ASSUME NEW x \in ToSet(s) \cup ToSet(r) PROVE x \in ToSet(s \o r)
  BY <1>3, <1>4, <1>5 DEF ToSet
<1> QED
  BY <1>6, <1>7

LEMMA ToSetParts ==
  ASSUME NEW S, NEW s \in Seq(S), NEW n \in 0..Len(s)
  PROVE  /\ SubSeq(s, 1, n) \in Seq(S) /\ SubSeq(s, n + 1, Len(s)) \in Seq(S)
         /\ ToSet(s) = ToSet(SubSeq(s, 1, n)) \cup ToSet(SubSeq(s, n + 1, Len(s)))
<1>1. SubSeq(s, 1, n) \in Seq(S) /\ SubSeq(s, n + 1, Len(s)) \in Seq(S)
  OBVIOUS
<1>2. SubSeq(s, 1, n) \o SubSeq(s, n + 1, Len(s)) = s
  <2>1. /\ 1 \in 1..Len(s) + 1 /\ n \in (1 - 1)..Len(s) /\ Len(s) \in n..Len(s)
    OBVIOUS
  <2>2. SubSeq(s, 1, n) \o SubSeq(s, n + 1, Len(s)) = SubSeq(s, 1, Len(s))
    BY <2>1, ConcatAdjacentSubSeq
  <2> QED
    BY <2>2, SubSeqFull
<1> DEFINE a == SubSeq(s, 1, n)
           b == SubSeq(s, n + 1, Len(s))
<1>3. ToSet(a \o b) = ToSet(a) \cup ToSet(b)
  <2>1. a \in Seq(S) /\ b \in Seq(S)
    BY <1>1
  <2> HIDE DEF a, b
  <2> QED
    BY <2>1, ToSetConcat
<1>4. ToSet(s) = ToSet(a) \cup ToSet(b)
  <2>1. a \o b = s
    BY <1>2
  <2> HIDE DEF a, b
  <2> QED
    BY <2>1, <1>3
<1> QED
  BY <1>1, <1>4

LEMMA ToSetOne == ASSUME NEW x PROVE ToSet(<<x>>) = {x}
BY DEF ToSet

LEMMA ToSetAppend ==
  ASSUME NEW S, NEW s \in Seq(S), NEW x \in S
  PROVE  Append(s, x) \in Seq(S) /\ ToSet(Append(s, x)) = ToSet(s) \cup {x}
<1>1. /\ DOMAIN s = 1..Len(s) /\ Len(s) \in Nat
      /\ Append(s, x) \in Seq(S) /\ DOMAIN Append(s, x) = 1..(Len(s) + 1)
      /\ \A i \in 1..Len(s) : Append(s, x)[i] = s[i]
      /\ Append(s, x)[Len(s) + 1] = x
  BY AppendProperties
<1>2. 1..(Len(s) + 1) = (1..Len(s)) \cup {Len(s) + 1}
  BY <1>1
<1> QED
  BY <1>1, <1>2 DEF ToSet

LEMMA ToSetNone == ToSet(<<>>) = {}
BY DEF ToSet

LEMMA ToSetSplit ==
  ASSUME NEW S, NEW s \in Seq(S), s # <<>>
  PROVE  Head(s) \in S /\ Tail(s) \in Seq(S) /\ ToSet(s) = {Head(s)} \cup ToSet(Tail(s))
<1>1. Head(s) \in S /\ Tail(s) \in Seq(S)
  BY HeadTailProperties
<1>2. s = <<Head(s)>> \o Tail(s)
  <2>1. Len(s) \in 1..Len(s) /\ 1 \in 1..Len(s) /\ Head(s) = s[1]
    OBVIOUS
  <2>2. SubSeq(s, 1, Len(s)) = <<s[1]>> \o SubSeq(s, 1 + 1, Len(s))
    BY <2>1, SubSeqRecursiveFirst
  <2>3. /\ SubSeq(s, 1, Len(s)) = s /\ Tail(s) = SubSeq(s, 2, Len(s)) /\ 1 + 1 = 2
    BY SubSeqFull, TailIsSubSeq
  <2> QED
    BY <2>1, <2>2, <2>3
<1>3. <<Head(s)>> \in Seq(S) /\ ToSet(<<Head(s)>>) = {Head(s)}
  BY <1>1, ToSetOne
<1>4. ToSet(<<Head(s)>> \o Tail(s)) = ToSet(<<Head(s)>>) \cup ToSet(Tail(s))
  <2> DEFINE a == <<Head(s)>>
             b == Tail(s)
  <2>1. a \in Seq(S) /\ b \in Seq(S)
    BY <1>1, <1>3
  <2> HIDE DEF a, b
  <2>2. ToSet(a \o b) = ToSet(a) \cup ToSet(b)
    BY <2>1, ToSetConcat
  <2> QED
    BY <2>2 DEF a, b
<1> QED
  BY <1>1, <1>2, <1>3, <1>4

LEMMA Others ==
  ASSUME NEW S, NEW s \in Seq(S), NEW j \in DOMAIN s
  PROVE  /\ RemoveAt(s, j) \in Seq(S)
         /\ \A k \in DOMAIN s : k # j => \E i \in DOMAIN RemoveAt(s, j) : RemoveAt(s, j)[i] = s[k]
         /\ \A i \in DOMAIN RemoveAt(s, j) : \E k \in DOMAIN s : RemoveAt(s, j)[i] = s[k]
<1>1. /\ SubSeq(s, 1, j - 1) \in Seq(S) /\ SubSeq(s, j + 1, Len(s)) \in Seq(S)
      /\ ToSet(SubSeq(s, 1, j - 1)) \cup ToSet(SubSeq(s, j + 1, Len(s))) = ToSet(RemoveAt(s, j))
      /\ RemoveAt(s, j) \in Seq(S)
  <2>1. SubSeq(s, 1, j - 1) \in Seq(S) /\ SubSeq(s, j + 1, Len(s)) \in Seq(S)
    OBVIOUS
  <2>2. RemoveAt(s, j) \in Seq(S)
    BY <2>1 DEF RemoveAt
  <2> QED
    BY <2>1, <2>2, ToSetConcat DEF RemoveAt
<1>0. DOMAIN s = 1..Len(s) /\ Len(s) \in Nat
  OBVIOUS
<1>2. ASSUME NEW k \in DOMAIN s, k # j
      PROVE  s[k] \in ToSet(RemoveAt(s, j))
  <2>1. CASE k < j
    <3>1. SubSeq(s, 1, j - 1)[k] = s[k] /\ k \in DOMAIN SubSeq(s, 1, j - 1)
      BY <1>0, <2>1
    <3> QED
      BY <1>1, <3>1 DEF ToSet
  <2>2. CASE k > j
    <3>1. SubSeq(s, j + 1, Len(s))[k - j] = s[k] /\ k - j \in DOMAIN SubSeq(s, j + 1, Len(s))
      BY <1>0, <2>2
    <3> QED
      BY <1>1, <3>1 DEF ToSet
  <2> QED
    BY <1>0, <1>2, <2>1, <2>2
<1>3. ToSet(RemoveAt(s, j)) \subseteq ToSet(s)
  <2>1. /\ j - 1 \in 0..Len(s) /\ j \in 0..Len(s) /\ j - 1 + 1 = j
    BY <1>0
  <2>2. /\ ToSet(SubSeq(s, 1, j - 1)) \subseteq ToSet(s)
        /\ ToSet(SubSeq(s, j + 1, Len(s))) \subseteq ToSet(s)
    BY <2>1, ToSetParts
  <2> QED
    BY <1>1, <2>2
<1> QED
  BY <1>1, <1>2, <1>3 DEF ToSet

(* What a job carries agrees with where it is.                             *)
Job == [pc : {"flush", "scrobble", "push", "retry"}, todo : Seq(Nat), failed : Seq(Nat)]

JobsOK ==
    /\ jobs \in Seq(Job) /\ pending \in Seq(Nat)
    /\ \A j \in DOMAIN jobs :
          /\ jobs[j].pc \in {"scrobble", "push"} => Len(jobs[j].todo) = 1
          /\ jobs[j].pc = "flush" => jobs[j].todo = <<>>
          /\ jobs[j].pc # "retry" => jobs[j].failed = <<>>

(* A task has events to deliver only before its persist.                   *)
EventsOK == \A t \in Tasks : task[t].pc # "events" => task[t].events = <<>>

(* Every point is of a track that was marked when it was found.            *)
MarkedOnce ==
    /\ \A i \in DOMAIN points : points[i] \in prev.scrobbled
    /\ \A i, k \in DOMAIN points : points[i] = points[k] => i = k

InJob(id, j) == id \in ToSet(jobs[j].todo) \cup ToSet(jobs[j].failed)
InTask(id, t) == \E i \in DOMAIN task[t].events : task[t].events[i] = [kind |-> "point", id |-> id]
Held(id) == \/ id \in accepted \cup ToSet(pending)
            \/ \E t \in Tasks : InTask(id, t)
            \/ \E j \in DOMAIN jobs : InJob(id, j)

PointsHeld == \A id \in DOMAIN points : Held(id)

ScrobbleInv == JobsOK /\ EventsOK /\ MarkedOnce /\ PointsHeld

(* A step of one job leaves the others as they are.                        *)
LEMMA JobGoesOn ==
  ASSUME JobsOK, NEW j \in DOMAIN jobs, NEW r \in Job, jobs' = [jobs EXCEPT ![j] = r],
         pending' \in Seq(Nat), UNCHANGED task, accepted \subseteq accepted',
         r.pc \in {"scrobble", "push"} => Len(r.todo) = 1,
         r.pc = "flush" => r.todo = <<>>,
         r.pc # "retry" => r.failed = <<>>,
         ToSet(pending) \cup ToSet(jobs[j].todo) \cup ToSet(jobs[j].failed)
           \subseteq accepted' \cup ToSet(pending') \cup ToSet(r.todo) \cup ToSet(r.failed)
  PROVE  JobsOK' /\ \A id : Held(id) => Held(id)'
<1>1. jobs' \in Seq(Job) /\ DOMAIN jobs' = DOMAIN jobs
      /\ jobs'[j] = r /\ \A k \in DOMAIN jobs : k # j => jobs'[k] = jobs[k]
  BY DEF JobsOK
<1>2. JobsOK'
  BY <1>1 DEF JobsOK
<1>3. ASSUME NEW id, Held(id) PROVE Held(id)'
  <2>1. CASE \E k \in DOMAIN jobs : k # j /\ InJob(id, k)
    BY <1>1, <2>1 DEF Held, InJob
  <2>2. CASE \E t \in Tasks : InTask(id, t)
    BY <2>2 DEF Held, InTask
  <2>3. CASE id \in accepted \cup ToSet(pending) \/ InJob(id, j)
    BY <1>1, <2>3 DEF Held, InJob
  <2> QED
    BY <1>3, <2>1, <2>2, <2>3 DEF Held
<1> QED
  BY <1>2, <1>3

LEMMA JobEnds ==
  ASSUME JobsOK, NEW j \in DOMAIN jobs, Ends(j),
         pending' \in Seq(Nat), UNCHANGED task, accepted \subseteq accepted',
         ToSet(pending) \cup ToSet(jobs[j].todo) \cup ToSet(jobs[j].failed)
           \subseteq accepted' \cup ToSet(pending')
  PROVE  JobsOK' /\ \A id : Held(id) => Held(id)'
<1>1. /\ jobs' \in Seq(Job)
      /\ \A k \in DOMAIN jobs : k # j => \E i \in DOMAIN jobs' : jobs'[i] = jobs[k]
      /\ \A i \in DOMAIN jobs' : \E k \in DOMAIN jobs : jobs'[i] = jobs[k]
  BY Others DEF JobsOK, Ends
<1>2. JobsOK'
  BY <1>1 DEF JobsOK
<1>3. ASSUME NEW id, Held(id) PROVE Held(id)'
  <2>1. ASSUME NEW k \in DOMAIN jobs, k # j, InJob(id, k) PROVE Held(id)'
    <3>1. PICK i \in DOMAIN jobs' : jobs'[i] = jobs[k]
      BY <1>1, <2>1
    <3> QED
      BY <2>1, <3>1 DEF Held, InJob
  <2>2. CASE \E t \in Tasks : InTask(id, t)
    BY <2>2 DEF Held, InTask
  <2>3. CASE id \in accepted \cup ToSet(pending) \/ InJob(id, j)
    BY <2>3 DEF Held, InJob
  <2> QED
    BY <1>3, <2>1, <2>2, <2>3 DEF Held
<1> QED
  BY <1>2, <1>3

(* Calls to Last.fm, the pending list and its retries lose no point.       *)
LEMMA LastFmScrobbles ==
  ASSUME ScrobbleInv, TasksOK, NEW j \in DOMAIN jobs, LastFm(j)
  PROVE  ScrobbleInv'
<1> DEFINE b == jobs[j]
<1>0. /\ jobs \in Seq(Job) /\ b \in Job /\ pending \in Seq(Nat) /\ JobsOK
      /\ b.todo \in Seq(Nat) /\ b.failed \in Seq(Nat)
  <2>1. jobs \in Seq(Job) /\ b \in Job /\ pending \in Seq(Nat) /\ JobsOK
    BY DEF ScrobbleInv, JobsOK
  <2>2. b.todo \in Seq(Nat) /\ b.failed \in Seq(Nat)
    BY <2>1 DEF Job
  <2> QED
    BY <2>1, <2>2
<1>1. UNCHANGED <<task, points, prev>>
  BY DEF LastFm, Scrobble, PushPending, Drain, Retry, PutBack, coreVars
<1>2. JobsOK' /\ \A id : Held(id) => Held(id)'
  <2>1. CASE Scrobble(j)
    <3>0. /\ b.pc = "scrobble" /\ b.todo # <<>> /\ b.failed = <<>> /\ Len(b.todo) = 1
      BY <1>0, <2>1 DEF Scrobble, JobsOK
    <3>1. ToSet(b.todo) = {Head(b.todo)} /\ ToSet(b.failed) = {}
      <4>1. DOMAIN b.todo = {1} /\ Head(b.todo) = b.todo[1]
        BY <1>0, <3>0
      <4>2. ToSet(b.todo) = {b.todo[1]}
        BY <4>1 DEF ToSet
      <4> QED
        BY <3>0, <4>1, <4>2, ToSetNone
    <3>2. CASE accepted' = accepted \cup {Head(b.todo)} /\ Ends(j)
      BY <1>0, <1>1, <2>1, <3>1, <3>2, JobEnds DEF Scrobble
    <3>3. CASE accepted \subseteq accepted' /\ jobs' = [jobs EXCEPT ![j].pc = "push"]
      <4> DEFINE r == [b EXCEPT !.pc = "push"]
      <4>1. r \in Job /\ r.todo = b.todo /\ r.failed = b.failed /\ r.pc = "push"
        BY <1>0 DEF Job
      <4>2. jobs' = [jobs EXCEPT ![j] = r] /\ UNCHANGED pending
        BY <2>1, <3>3 DEF Scrobble
      <4>3. /\ ToSet(pending) \cup ToSet(b.todo) \cup ToSet(b.failed)
                 \subseteq accepted' \cup ToSet(pending') \cup ToSet(r.todo) \cup ToSet(r.failed)
            /\ r.failed = <<>> /\ Len(r.todo) = 1 /\ r.pc # "flush"
            /\ pending' \in Seq(Nat) /\ accepted \subseteq accepted' /\ UNCHANGED task
        BY <1>0, <1>1, <3>0, <3>3, <4>1, <4>2
      <4> HIDE DEF r, b
      <4> QED
        BY <1>0, <4>1, <4>2, <4>3, JobGoesOn DEF b
    <3> QED
      BY <2>1, <3>2, <3>3 DEF Scrobble, Call
  <2>2. CASE PushPending(j)
    <3>1. /\ b.pc = "push" /\ b.failed = <<>> /\ pending' = pending \o b.todo /\ Ends(j) /\ UNCHANGED accepted
      BY <1>0, <2>2 DEF PushPending, JobsOK
    <3>2. /\ pending' \in Seq(Nat) /\ ToSet(pending') = ToSet(pending) \cup ToSet(b.todo)
          /\ ToSet(b.failed) = {}
      BY <1>0, <3>1, ToSetConcat, ToSetNone
    <3> QED
      BY <1>0, <1>1, <3>1, <3>2, JobEnds
  <2>3. CASE Drain(j)
    <3> DEFINE n == IF Len(pending) < BatchSize THEN Len(pending) ELSE BatchSize
    <3>1. n \in 0..Len(pending)
      BY <1>0, FanoutConstants
    <3>2. /\ SubSeq(pending, 1, n) \in Seq(Nat) /\ SubSeq(pending, n + 1, Len(pending)) \in Seq(Nat)
          /\ ToSet(pending) = ToSet(SubSeq(pending, 1, n)) \cup ToSet(SubSeq(pending, n + 1, Len(pending)))
      BY <1>0, <3>1, ToSetParts
    <3>3. /\ b.pc = "flush" /\ b.failed = <<>> /\ b.todo = <<>> /\ ToSet(<<>>) = {}
          /\ pending' = SubSeq(pending, n + 1, Len(pending)) /\ UNCHANGED accepted
      BY <1>0, <2>3, ToSetNone DEF Drain, JobsOK
    <3>4. CASE n = 0 /\ Ends(j)
      <4>1. ToSet(SubSeq(pending, 1, n)) = {}
        <5>1. SubSeq(pending, 1, 0) = <<>>
          BY SubSeqEmpty
        <5> QED
          BY <3>4, <5>1, ToSetNone
      <4> HIDE DEF n
      <4> QED
        BY <1>0, <1>1, <3>2, <3>3, <3>4, <4>1, JobEnds
    <3>5. CASE jobs' = [jobs EXCEPT ![j].pc = "retry", ![j].todo = SubSeq(pending, 1, n)]
      <4> DEFINE r == [b EXCEPT !.pc = "retry", !.todo = SubSeq(pending, 1, n)]
      <4> HIDE DEF n
      <4>1. r \in Job /\ r.todo = SubSeq(pending, 1, n) /\ r.failed = b.failed /\ r.pc = "retry"
        BY <1>0, <3>2 DEF Job
      <4>2. jobs' = [jobs EXCEPT ![j] = r]
        BY <3>5
      <4> HIDE DEF r
      <4> QED
        BY <1>0, <1>1, <3>2, <3>3, <4>1, <4>2, JobGoesOn
    <3> QED
      BY <2>3, <3>4, <3>5 DEF Drain
  <2>4. CASE Retry(j)
    <3>0. b.todo # <<>> /\ b.pc = "retry" /\ UNCHANGED pending
      BY <2>4 DEF Retry
    <3>1. /\ Head(b.todo) \in Nat /\ Tail(b.todo) \in Seq(Nat)
          /\ ToSet(b.todo) = {Head(b.todo)} \cup ToSet(Tail(b.todo))
      BY <1>0, <3>0, ToSetSplit
    <3>2. PICK ok \in BOOLEAN :
            /\ Call(Head(b.todo), ok)
            /\ jobs' = [jobs EXCEPT ![j].todo = Tail(@),
                                    ![j].failed = IF ok THEN @ ELSE Append(@, Head(b.todo))]
      BY <2>4 DEF Retry
    <3> DEFINE f == IF ok THEN b.failed ELSE Append(b.failed, Head(b.todo))
               r == [b EXCEPT !.todo = Tail(b.todo), !.failed = f]
    <3>3. f \in Seq(Nat) /\ ToSet(b.failed) \cup {Head(b.todo)} \subseteq ToSet(f) \cup accepted'
                         /\ ToSet(b.failed) \subseteq ToSet(f) /\ accepted \subseteq accepted'
      <4>1. CASE ok
        BY <1>0, <3>2, <4>1 DEF Call
      <4>2. CASE ~ok
        <5> DEFINE h == Head(b.todo)
        <5>1. f = Append(b.failed, h) /\ h \in Nat
          BY <3>1, <4>2
        <5>2. f \in Seq(Nat) /\ ToSet(f) = ToSet(b.failed) \cup {h}
          BY <1>0, <5>1, ToSetAppend
        <5> QED
          BY <3>2, <4>2, <5>2 DEF Call
      <4> QED
        BY <4>1, <4>2
    <3> HIDE DEF f
    <3>4. r \in Job /\ r.todo = Tail(b.todo) /\ r.failed = f /\ r.pc = "retry"
      BY <1>0, <3>0, <3>1, <3>3 DEF Job
    <3>5. jobs' = [jobs EXCEPT ![j] = r]
      BY <3>2 DEF f
    <3> HIDE DEF r
    <3> QED
      BY <1>0, <1>1, <3>0, <3>1, <3>3, <3>4, <3>5, JobGoesOn
  <2>5. CASE PutBack(j)
    <3>1. /\ b.todo = <<>> /\ pending' = b.failed \o pending /\ Ends(j) /\ UNCHANGED accepted
      BY <2>5 DEF PutBack
    <3>2. /\ pending' \in Seq(Nat) /\ ToSet(pending') = ToSet(b.failed) \cup ToSet(pending)
          /\ ToSet(b.todo) = {}
      BY <1>0, <3>1, ToSetConcat, ToSetNone
    <3> QED
      BY <1>0, <1>1, <3>1, <3>2, JobEnds
  <2> QED
    BY <2>1, <2>2, <2>3, <2>4, <2>5 DEF LastFm
<1> QED
  BY <1>1, <1>2 DEF ScrobbleInv, EventsOK, MarkedOnce, PointsHeld

(* A step of a task carries every point on, and finds a new one at most.   *)
LEMMA TaskScrobbles ==
  ASSUME ScrobbleInv, TasksOK, PointsOK, NEW t \in Tasks, Change(t) \/ Broadcast(t) \/ SaveFails(t)
  PROVE  ScrobbleInv'
<1> PICK V, W : task \in TaskSet(V, W)
  BY DEF TasksOK
<1>0. DOMAIN task = Tasks /\ task[t].events \in Seq(Events)
  BY DEF TaskSet
<1>1. CASE Diff(t)
  <2> DEFINE s   == task[t].snap
             new == Scrobbles(s)
             e   == Announced(s) \o IF new THEN <<[kind |-> "point", id |-> Len(points')]>> ELSE <<>>
  <2>0. PICK P : points \in Seq(P)
    BY DEF PointsOK
  <2>1. /\ points' = IF new THEN Append(points, CurrentTrack(s)) ELSE points
        /\ prev'.scrobbled = prev.scrobbled \cup IF new THEN {CurrentTrack(s)} ELSE {}
        /\ task' = [task EXCEPT ![t].pc = "events", ![t].events = e]
        /\ new => CurrentTrack(s) \notin prev.scrobbled
        /\ UNCHANGED <<jobs, pending, accepted>> /\ task[t].pc = "bridge"
    BY <1>1 DEF Diff, Scrobbles
  <2> HIDE DEF s, new
  <2>2. /\ task'[t].events = e /\ task'[t].pc = "events" /\ DOMAIN task' = Tasks
        /\ \A u \in Tasks : u # t => task'[u] = task[u]
    BY <1>0, <2>1 DEF TaskSet
  <2>3. MarkedOnce'
    <3>1. CASE ~new
      BY <2>1, <3>1 DEF ScrobbleInv, MarkedOnce
    <3>2. CASE new
      <4>1. /\ points' = Append(points, CurrentTrack(s)) /\ DOMAIN points = 1..Len(points)
            /\ DOMAIN points' = 1..(Len(points) + 1) /\ Len(points) \in Nat
            /\ points'[Len(points) + 1] = CurrentTrack(s)
            /\ \A i \in 1..Len(points) : points'[i] = points[i]
        BY <2>0, <2>1, <3>2
      <4> QED
        BY <2>1, <3>2, <4>1 DEF ScrobbleInv, MarkedOnce
    <3> QED
      BY <3>1, <3>2
  <2>4. ASSUME NEW id, Held(id) PROVE Held(id)'
    <3>1. ASSUME NEW u \in Tasks, InTask(id, u) PROVE Held(id)'
      <4>1. u # t
        BY <2>1, <3>1 DEF ScrobbleInv, EventsOK, InTask
      <4> QED
        BY <2>2, <3>1, <4>1 DEF Held, InTask
    <3> QED
      BY <2>1, <2>4, <3>1 DEF Held, InJob
  <2>5. ASSUME new, NEW id, id = Len(points') PROVE Held(id)'
    <3> DEFINE k == Len(Announced(s)) + 1
    <3>1. Announced(s) \in Seq(Events)
      BY DiffEvents
    <3>2. e = Append(Announced(s), [kind |-> "point", id |-> Len(points')])
      BY <2>5, <3>1
    <3>3. k \in DOMAIN e /\ e[k] = [kind |-> "point", id |-> Len(points')]
      BY <3>1, <3>2
    <3> HIDE DEF e, k
    <3>4. InTask(id, t)'
      BY <2>2, <2>5, <3>3 DEF InTask
    <3> QED
      BY <3>4 DEF Held
  <2>6. PointsHeld'
    <3>1. \A id \in DOMAIN points' : id \in DOMAIN points \/ (new /\ id = Len(points'))
      BY <2>0, <2>1
    <3> QED
      BY <2>4, <2>5, <3>1 DEF ScrobbleInv, PointsHeld
  <2> QED
    BY <2>1, <2>2, <2>3, <2>6 DEF ScrobbleInv, JobsOK, EventsOK
<1>2. CASE OnEvent(t)
  <2> DEFINE e == Head(task[t].events)
             job == IF e.kind = "changed" THEN [pc |-> "flush", todo |-> <<>>, failed |-> <<>>]
                    ELSE [pc |-> "scrobble", todo |-> <<e.id>>, failed |-> <<>>]
  <2>1. /\ task[t].pc = "events" /\ task[t].events # <<>>
        /\ jobs' = Append(jobs, job)
        /\ task' = [task EXCEPT ![t].events = Tail(@)]
        /\ UNCHANGED <<points, prev, pending, accepted>>
    BY <1>2 DEF OnEvent
  <2>2. e \in Events /\ ToSet(task[t].events) = {e} \cup ToSet(Tail(task[t].events))
    BY <1>0, <2>1, ToSetSplit
  <2>3. job \in Job /\ (job.pc = "scrobble" => Len(job.todo) = 1) /\ job.failed = <<>>
        /\ job.pc \in {"flush", "scrobble"} /\ (job.pc = "flush" => job.todo = <<>>)
        /\ (e.kind = "point" => ToSet(job.todo) = {e.id})
    <3>1. CASE e.kind = "changed"
      BY <3>1 DEF Job
    <3>2. CASE e.kind # "changed"
      <4>1. e.id \in Nat
        BY <2>2, <3>2 DEF Events
      <4>2. ToSet(<<e.id>>) = {e.id}
        BY ToSetOne
      <4>3. job = [pc |-> "scrobble", todo |-> <<e.id>>, failed |-> <<>>]
        BY <3>2
      <4> HIDE DEF e
      <4> QED
        BY <4>1, <4>2, <4>3 DEF Job
    <3> QED
      BY <3>1, <3>2
  <2> HIDE DEF job, e
  <2>4. /\ jobs' \in Seq(Job) /\ DOMAIN jobs = 1..Len(jobs) /\ Len(jobs) \in Nat
        /\ DOMAIN jobs' = 1..(Len(jobs) + 1) /\ jobs'[Len(jobs) + 1] = job
        /\ \A j \in 1..Len(jobs) : jobs'[j] = jobs[j]
    BY <2>1, <2>3 DEF ScrobbleInv, JobsOK
  <2>5. JobsOK'
    BY <2>1, <2>3, <2>4 DEF ScrobbleInv, JobsOK
  <2>6. /\ task'[t].events = Tail(task[t].events) /\ task'[t].pc = "events"
        /\ \A u \in Tasks : u # t => task'[u] = task[u]
    BY <1>0, <2>1 DEF TaskSet
  <2>7. ASSUME NEW id, Held(id) PROVE Held(id)'
    <3>1. CASE InTask(id, t)
      <4> DEFINE p == [kind |-> "point", id |-> id]
      <4>1. p \in ToSet(task[t].events)
        BY <3>1 DEF InTask, ToSet
      <4>2. CASE p = e
        <5>1. e.kind = "point" /\ e.id = id
          BY <4>2
        <5>2. \E j \in DOMAIN jobs' : id \in ToSet(jobs'[j].todo)
          BY <2>3, <2>4, <5>1
        <5> QED
          BY <5>2 DEF Held, InJob
      <4>3. CASE p \in ToSet(Tail(task[t].events))
        BY <2>6, <4>3 DEF Held, InTask, ToSet
      <4> QED
        BY <2>2, <4>1, <4>2, <4>3
    <3>2. ASSUME NEW u \in Tasks, u # t, InTask(id, u) PROVE Held(id)'
      BY <2>6, <3>2 DEF Held, InTask
    <3>3. ASSUME NEW j \in DOMAIN jobs, InJob(id, j) PROVE Held(id)'
      <4>1. j \in DOMAIN jobs' /\ jobs'[j] = jobs[j]
        BY <2>4
      <4> QED
        BY <3>3, <4>1 DEF Held, InJob
    <3>4. CASE id \in accepted \cup ToSet(pending)
      BY <2>1, <3>4 DEF Held
    <3> QED
      BY <2>7, <3>1, <3>2, <3>3, <3>4 DEF Held
  <2> QED
    BY <2>1, <2>5, <2>6, <2>7 DEF ScrobbleInv, EventsOK, MarkedOnce, PointsHeld
<1>3. CASE \/ Change(t) \/ SyncTopLevel(t) \/ Snapshot(t) \/ ToClients(t)
           \/ SaveGlobal(t) \/ SaveNode(t) \/ Prune(t) \/ SaveFails(t)
  <2>1. UNCHANGED pluginVars
    BY <1>3 DEF Change, SyncTopLevel, Snapshot, ToClients, SaveGlobal, SaveNode, Prune, SaveFails
  <2>2. \A u \in Tasks : /\ task'[u].events = task[u].events
                         /\ task'[u].pc # "events" => task[u].events = <<>>
    <3>1. \A u \in Tasks : task[u].pc # "events" => task[u].events = <<>>
      BY DEF ScrobbleInv, EventsOK
    <3>2. CASE Change(t) \/ SyncTopLevel(t) \/ Snapshot(t) \/ ToClients(t)
      BY <3>1, <3>2 DEF Change, SyncTopLevel, Snapshot, ToClients, Go, TaskSet
    <3>3. CASE SaveGlobal(t)
      BY <3>1, <3>3 DEF SaveGlobal, TaskSet
    <3>4. CASE SaveNode(t)
      BY <3>1, <3>4 DEF SaveNode, TaskSet
    <3>5. CASE Prune(t) \/ SaveFails(t)
      <4>1. task' = [task EXCEPT ![t] = Idle] /\ task[t].pc = "save" /\ Idle.events = <<>>
        BY <3>5 DEF Prune, SaveFails, Idle
      <4>2. task'[t] = Idle /\ \A u \in Tasks : u # t => task'[u] = task[u]
        BY <1>0, <4>1
      <4>3. task[t].events = <<>>
        BY <3>1, <4>1
      <4> QED
        BY <3>1, <4>1, <4>2, <4>3
    <3> QED
      BY <1>3, <3>2, <3>3, <3>4, <3>5
  <2> QED
    BY <2>1, <2>2
       DEF pluginVars, ScrobbleInv, JobsOK, EventsOK, MarkedOnce, PointsHeld, Held, InTask, InJob
<1> QED
  BY <1>1, <1>2, <1>3 DEF Broadcast

LEMMA NextScrobbles ==
  ASSUME ScrobbleInv, TasksOK, PointsOK, [Next]_vars
  PROVE  ScrobbleInv'
<1>1. CASE Restart
  <2>1. /\ points' = <<>> /\ jobs' = <<>> /\ pending' = <<>>
        /\ \A t \in Tasks : task'[t].events = <<>>
    BY <1>1 DEF Restart, Idle
  <2> QED
    BY <2>1 DEF ScrobbleInv, JobsOK, EventsOK, MarkedOnce, PointsHeld
<1>2. CASE UNCHANGED <<task, pluginVars>>
  BY <1>2 DEF pluginVars, ScrobbleInv, JobsOK, EventsOK, MarkedOnce, PointsHeld, Held, InTask, InJob
<1>3. ASSUME NEW c \in Clients, Subscribe(c) \/ Client(c) \/ Leave(c)
      PROVE  UNCHANGED <<task, pluginVars>>
  BY <1>3 DEF Subscribe, Client, Greet, Read, Leave, coreVars
<1>4. CASE DeleteTrack \/ UNCHANGED vars
  BY <1>2, <1>4 DEF DeleteTrack, vars, coreVars
<1> QED
  BY <1>1, <1>2, <1>3, <1>4, TaskScrobbles, LastFmScrobbles DEF Next

(* While the server runs no scrobble point is lost, and a track has one at *)
(* most (LastFmScrobbler::on_event, flush_pending_scrobbles, diff_events). *)
THEOREM ScrobblesAreNeverLost == Spec => []NoScrobbleLost
<1> DEFINE Inv == TasksOK /\ PointsOK /\ ScrobbleInv
<1>1. Init => Inv
  <2>1. Init => ScrobbleInv
    BY DEF Init, ScrobbleInv, JobsOK, EventsOK, MarkedOnce, PointsHeld, Idle
  <2> QED
    BY <2>1, TasksInit
<1>2. Inv /\ [Next]_vars => Inv'
  BY TasksNext, NextScrobbles
<1>3. Inv => NoScrobbleLost
  BY DEF ScrobbleInv, MarkedOnce, PointsHeld, Held, InTask, InJob, NoScrobbleLost, InFlight
<1> QED
  BY <1>1, <1>2, <1>3, PTL DEF Spec

-----------------------------------------------------------------------------
(* Types.  What a restart keeps of a queue is computed by recursion on its *)
(* length: its type is shown by induction on numbers, as the absence of a  *)
(* least length for which it is not known.                                 *)

Below == {p \in Nat \X Nat : p[1] < p[2]}

LEMMA UpTo ==
  ASSUME NEW n \in Nat, NEW S, 0 \in S, \A i \in 1..n : i - 1 \in S => i \in S
  PROVE  n \in S
<1> DEFINE bad == {k \in 0..n : k \notin S}
<1> SUFFICES ASSUME n \notin S PROVE FALSE
  OBVIOUS
<1>1. Below = OpToRel(<, Nat)
  BY DEF Below, OpToRel
<1>2. IsWellFoundedOn(Below, Nat)
  BY <1>1, NatLessThanWellFounded
<1>3. bad \subseteq Nat /\ bad # {}
  OBVIOUS
<1>4. PICK m \in bad : \A k \in bad : ~(<<k, m>> \in Below)
  BY <1>2, <1>3, WFMin, Zenon
<1>5. m \in 1..n /\ m \notin S
  OBVIOUS
<1>6. m - 1 \in bad
  BY <1>5
<1>7. <<m - 1, m>> \in Below
  BY <1>5 DEF Below
<1> QED
  BY <1>4, <1>6, <1>7

\* What a restart keeps of a queue is a queue of tracks.
LEMMA KeptType ==
  ASSUME NEW S, NEW queue \in Seq(S)
  PROVE  Kept(queue) \in Seq(S)
<1> DEFINE n == Len(queue)
           Of(i, q) == IF queue[i] \in files THEN Append(q, queue[i]) ELSE q
           body(f) == [i \in 0..n |->
                         IF i = 0 THEN <<>>
                         ELSE IF queue[i] \in files THEN Append(f[i - 1], queue[i]) ELSE f[i - 1]]
           kept == CHOOSE f : f = body(f)
           Up(f, k) == /\ f \in [0..n -> Seq(S)] /\ f[0] = <<>>
                       /\ \A i \in 1..k : f[i] = Of(i, f[i - 1])
           T == {k \in 0..n : \E f : Up(f, k)}
<1>0. n \in Nat /\ <<>> \in Seq(S)
  OBVIOUS
<1>1. \A i \in 1..n, q \in Seq(S) : Of(i, q) \in Seq(S)
  OBVIOUS
<1>2. 0 \in T
  <2>1. Up([i \in 0..n |-> <<>>], 0)
    BY <1>0
  <2> HIDE DEF Up
  <2> QED
    BY <1>0, <2>1
<1> HIDE DEF Of
<1>3. ASSUME NEW k \in 1..n, k - 1 \in T
      PROVE  k \in T
  <2>1. PICK f : Up(f, k - 1)
    BY <1>3
  <2>2. k \in 0..n /\ k - 1 \in 0..n /\ k # 0 /\ 0 \in 0..n
    BY <1>0
  <2>3. f \in [0..n -> Seq(S)] /\ f[0] = <<>>
    BY <2>1
  <2>4. f[k - 1] \in Seq(S)
    BY <2>2, <2>3
  <2> DEFINE v == Of(k, f[k - 1])
             g == [f EXCEPT ![k] = v]
  <2>5. v \in Seq(S)
    BY <1>1, <2>4
  <2> HIDE DEF v
  <2>6. g \in [0..n -> Seq(S)] /\ g[0] = <<>> /\ g[k] = v /\ \A i \in 0..n : i # k => g[i] = f[i]
    BY <2>2, <2>3, <2>5
  <2> HIDE DEF g
  <2>7. ASSUME NEW i \in 1..k
        PROVE  g[i] = Of(i, g[i - 1])
    <3>1. i - 1 \in 0..n /\ i - 1 # k /\ g[i - 1] = f[i - 1]
      BY <1>0, <2>6
    <3>2. CASE i = k
      BY <2>6, <3>1, <3>2 DEF v
    <3>3. CASE i # k
      <4>1. i \in 1..(k - 1) /\ i \in 0..n
        BY <1>0, <3>3
      <4>2. f[i] = Of(i, f[i - 1])
        BY <2>1, <4>1
      <4>3. g[i] = f[i]
        BY <2>6, <3>3, <4>1
      <4> QED
        BY <3>1, <4>2, <4>3, Zenon
    <3> QED
      BY <3>2, <3>3
  <2>8. Up(g, k)
    BY <2>6, <2>7
  <2> HIDE DEF Up
  <2> QED
    BY <2>2, <2>8
<1> HIDE DEF T
<1>4. n \in T
  BY <1>0, <1>2, <1>3, UpTo
<1>5. PICK f : Up(f, n)
  BY <1>4 DEF T
<1>6. f = body(f)
  <2>1. f = [i \in 0..n |-> f[i]]
    BY <1>5
  <2>2. ASSUME NEW i \in 0..n
        PROVE  f[i] = body(f)[i]
    <3>1. CASE i = 0
      BY <1>5, <3>1
    <3>2. CASE i # 0
      <4>1. f[i] = Of(i, f[i - 1])
        BY <1>0, <1>5, <3>2
      <4> QED
        BY <3>2, <4>1 DEF Of
    <3> QED
      BY <3>1, <3>2
  <2> HIDE DEF Up
  <2> QED
    BY <2>1, <2>2
<1>7. kept = body(kept)
  <2> HIDE DEF body
  <2> QED
    BY <1>6, Zenon
<1> HIDE DEF kept
<1>8. kept[0] = <<>> /\ \A i \in 1..n : kept[i] = Of(i, kept[i - 1])
  <2>1. \A i \in 0..n : kept[i] = body(kept)[i]
    <3> HIDE DEF body
    <3> QED
      BY <1>7
  <2>2. body(kept)[0] = <<>> /\ 0 \in 0..n
    BY <1>0
  <2>3. ASSUME NEW i \in 1..n
        PROVE  i \in 0..n /\ body(kept)[i] = Of(i, kept[i - 1])
    <3>1. i \in 0..n /\ i # 0
      BY <1>0
    <3> QED
      BY <3>1 DEF Of
  <2> HIDE DEF body
  <2> QED
    BY <2>1, <2>2, <2>3
<1> HIDE DEF body
<1> DEFINE U == {k \in 0..n : kept[k] \in Seq(S)}
<1>9. 0 \in U
  <2>1. 0 \in 0..n
    BY <1>0
  <2>2. kept[0] \in Seq(S)
    BY <1>0, <1>8, Zenon
  <2> QED
    BY <2>1, <2>2
<1>10. ASSUME NEW k \in 1..n, k - 1 \in U
       PROVE  k \in U
  <2>1. kept[k] \in Seq(S)
    BY <1>1, <1>8, <1>10
  <2> QED
    BY <1>0, <2>1
<1> HIDE DEF U
<1>11. n \in U
  BY <1>0, <1>9, <1>10, UpTo
<1>12. Kept(queue) = kept[n]
  BY DEF Kept, kept, body
<1> QED
  BY <1>11, <1>12 DEF U

-----------------------------------------------------------------------------
(* Types of states, and of what is restored *)
\* Functions from some of the nodes.
Tables(R) == UNION {[D -> R] : D \in SUBSET Nodes}

States   == [nodes : Tables(NodeRecord), selected : Nodes \cup {None},
             queue : Seq(Tracks), index : Indexes]
NodeRows == [queue : Seq(Tracks), index : Indexes]
Globals  == [queue : Seq(Tracks), index : Indexes, selected : Nodes \cup {None}]

LEMMA TableIs ==
  ASSUME NEW R, NEW f
  PROVE  f \in Tables(R) <=> DOMAIN f \subseteq Nodes /\ f \in [DOMAIN f -> R]
<1>1. ASSUME f \in Tables(R) PROVE DOMAIN f \subseteq Nodes /\ f \in [DOMAIN f -> R]
  <2>1. PICK D \in SUBSET Nodes : f \in [D -> R]
    BY <1>1 DEF Tables
  <2> QED
    BY <2>1
<1>2. ASSUME DOMAIN f \subseteq Nodes, f \in [DOMAIN f -> R] PROVE f \in Tables(R)
  BY <1>2 DEF Tables
<1> QED
  BY <1>1, <1>2

LEMMA TableWith ==
  ASSUME NEW R, NEW f \in Tables(R), NEW n \in Nodes, NEW r \in R
  PROVE  [m \in DOMAIN f \cup {n} |-> IF m = n THEN r ELSE f[m]] \in Tables(R)
<1> DEFINE g == [m \in DOMAIN f \cup {n} |-> IF m = n THEN r ELSE f[m]]
<1>1. DOMAIN f \subseteq Nodes /\ \A m \in DOMAIN f : f[m] \in R
  BY TableIs
<1>2. DOMAIN g = DOMAIN f \cup {n} /\ DOMAIN g \subseteq Nodes /\ g \in [DOMAIN g -> R]
  BY <1>1
<1> HIDE DEF g
<1>3. g \in Tables(R)
  BY <1>2, TableIs
<1> QED
  BY <1>3 DEF g

LEMMA TableWithout ==
  ASSUME NEW R, NEW f \in Tables(R), NEW D \in SUBSET DOMAIN f
  PROVE  Restrict(f, D) \in Tables(R) /\ DOMAIN Restrict(f, D) = D
<1>1. DOMAIN f \subseteq Nodes /\ \A m \in DOMAIN f : f[m] \in R
  BY TableIs
<1>2. Restrict(f, D) = [m \in D |-> f[m]]
  BY DEF Restrict
<1>3. [m \in D |-> f[m]] \in [D -> R] /\ D \subseteq Nodes
  BY <1>1
<1>4. Restrict(f, D) \in Tables(R)
  BY <1>2, <1>3, TableIs
<1> QED
  BY <1>2, <1>4

LEMMA StateIs ==
  ASSUME NEW s \in States
  PROVE  /\ s.nodes \in Tables(NodeRecord) /\ s.selected \in Nodes \cup {None}
         /\ s.queue \in Seq(Tracks) /\ s.index \in Indexes
         /\ PlaybackState(s)
         /\ RowsOf(s).nodes \in Tables(NodeRows) /\ GlobalRow(s) \in Globals
         /\ DOMAIN s.nodes \subseteq Nodes
<1>1. /\ s.nodes \in Tables(NodeRecord) /\ s.selected \in Nodes \cup {None}
      /\ s.queue \in Seq(Tracks) /\ s.index \in Indexes
  BY DEF States
<1>2. DOMAIN s.nodes \subseteq Nodes /\ \A n \in DOMAIN s.nodes : s.nodes[n] \in NodeRecord
  BY <1>1, TableIs
<1>3. PlaybackState(s)
  BY <1>1, <1>2 DEF PlaybackState
<1>4. GlobalRow(s) \in Globals
  BY <1>1 DEF GlobalRow, Globals
<1>5. \A n \in DOMAIN s.nodes : NodeRow(s.nodes[n]) \in NodeRows
  BY <1>2 DEF NodeRow, NodeRows, NodeRecord
<1>6. RowsOf(s).nodes \in Tables(NodeRows)
  <2> DEFINE ns == [n \in DOMAIN s.nodes |-> NodeRow(s.nodes[n])]
  <2>1. RowsOf(s).nodes = ns
    BY DEF RowsOf
  <2>2. DOMAIN ns \subseteq Nodes /\ ns \in [DOMAIN ns -> NodeRows]
    BY <1>2, <1>5
  <2> HIDE DEF ns
  <2> QED
    BY <2>1, <2>2, TableIs
<1> QED
  BY <1>1, <1>2, <1>3, <1>4, <1>6

LEMMA NoStateType == NoState \in States
<1>1. [n \in {} |-> None] \in [{} -> NodeRecord]
  OBVIOUS
<1>2. [n \in {} |-> None] \in Tables(NodeRecord)
  BY <1>1, TableIs
<1>3. <<>> \in Seq(Tracks)
  OBVIOUS
<1> QED
  BY <1>2, <1>3 DEF NoState, States, Indexes

\* The selected node, and the current track, of a state.
LEMMA CurrentTracks ==
  ASSUME NEW s \in States
  PROVE  /\ Selected(s) \in NodeRecord \cup {None}
         /\ CurrentTrack(s) \in Tracks \cup {None}
<1>1. Selected(s) \in NodeRecord \cup {None}
  BY StateIs, TableIs DEF Selected
<1>2. ASSUME NEW q \in Seq(Tracks), NEW i \in Indexes
      PROVE  TrackOf(q, i) \in Tracks \cup {None}
  <2>1. CASE i \in Nat /\ i < Len(q)
    <3>1. q[i + 1] \in Tracks
      BY <2>1
    <3> QED
      BY <2>1, <3>1 DEF TrackOf
  <2>2. CASE i \in Nat /\ ~(i < Len(q))
    BY <2>2 DEF TrackOf
  <2>3. CASE i = None
    BY <2>3 DEF TrackOf
  <2> QED
    BY <2>1, <2>2, <2>3 DEF Indexes
<1>3. s.queue \in Seq(Tracks) /\ s.index \in Indexes
  BY StateIs
<1>4. Selected(s) # None => Selected(s).queue \in Seq(Tracks) /\ Selected(s).index \in Indexes
  BY <1>1 DEF NodeRecord
<1>5. TrackOf(s.queue, s.index) \in Tracks \cup {None}
  BY <1>2, <1>3
<1>6. Selected(s) # None => TrackOf(Selected(s).queue, Selected(s).index) \in Tracks \cup {None}
  BY <1>2, <1>4
<1> QED
  BY <1>1, <1>5, <1>6 DEF CurrentTrack

LEMMA SyncedType ==
  ASSUME NEW s \in States
  PROVE  Synced(s) \in States
<1>1. CASE Selected(s) = None
  <2>1. Synced(s) = [s EXCEPT !.queue = <<>>, !.index = None] /\ <<>> \in Seq(Tracks) /\ None \in Indexes
    BY <1>1 DEF Synced, Indexes
  <2> QED
    BY <2>1 DEF States
<1>2. CASE Selected(s) # None
  <2>1. Selected(s).queue \in Seq(Tracks) /\ Selected(s).index \in Indexes
    BY <1>2, CurrentTracks DEF NodeRecord
  <2>2. Synced(s) = [s EXCEPT !.queue = Selected(s).queue, !.index = Selected(s).index]
    BY <1>2 DEF Synced
  <2> QED
    BY <2>1, <2>2 DEF States
<1> QED
  BY <1>1, <1>2

\* A state that is restored from rows of the table.
LEMMA RestoredType ==
  ASSUME NEW r, r.global \in Globals, r.nodes \in Tables(NodeRows)
  PROVE  Restored(r) \in States
<1>1. DOMAIN r.nodes \subseteq Nodes /\ \A n \in DOMAIN r.nodes : r.nodes[n] \in NodeRows
  BY TableIs
<1>2. ASSUME NEW q \in Seq(Tracks), NEW i \in Indexes
      PROVE  InRange(i, q) \in Indexes
  BY DEF InRange, Indexes
<1>3. \A q \in Seq(Tracks) : Kept(q) \in Seq(Tracks)
  BY KeptType
<1> DEFINE rec(x) == [queue |-> Kept(x.queue), status |-> "stopped", late |-> FALSE,
                      index |-> InRange(x.index, Kept(x.queue))]
           ns == [n \in DOMAIN r.nodes |-> rec(r.nodes[n])]
<1>4. ASSUME NEW x \in NodeRows
      PROVE  rec(x) \in NodeRecord
  <2>1. x.queue \in Seq(Tracks) /\ x.index \in Indexes
    BY DEF NodeRows
  <2>2. Kept(x.queue) \in Seq(Tracks) /\ InRange(x.index, Kept(x.queue)) \in Indexes
    BY <1>2, <1>3, <2>1
  <2> QED
    BY <2>2 DEF NodeRecord, Status
<1> HIDE DEF rec
<1>5. DOMAIN ns \subseteq Nodes /\ ns \in [DOMAIN ns -> NodeRecord]
  BY <1>1, <1>4
<1>6. /\ Restored(r).nodes = ns /\ Restored(r).selected = r.global.selected
      /\ Restored(r) = [nodes |-> ns, selected |-> r.global.selected, queue |-> Kept(r.global.queue),
                        index |-> InRange(r.global.index, Kept(r.global.queue))]
  BY DEF Restored, rec
<1> HIDE DEF ns
<1>7. ns \in Tables(NodeRecord)
  BY <1>5, TableIs
<1>8. /\ r.global.queue \in Seq(Tracks) /\ r.global.index \in Indexes
      /\ r.global.selected \in Nodes \cup {None}
  BY DEF Globals
<1>9. /\ Kept(r.global.queue) \in Seq(Tracks)
      /\ InRange(r.global.index, Kept(r.global.queue)) \in Indexes
  BY <1>2, <1>3, <1>8
<1> QED
  BY <1>6, <1>7, <1>8, <1>9 DEF States

-----------------------------------------------------------------------------
(* Types of the rest *)
EventsIn(I) == [kind : {"changed"}] \cup [kind : {"point"}, id : I]
JobIn(I)    == [pc : {"flush", "scrobble", "push", "retry"}, todo : Seq(I), failed : Seq(I)]
TaskIn(I)   == [pc : PCs, snap : States, write : SUBSET Nodes, events : Seq(EventsIn(I))]

CoreTyped ==
    /\ state \in States /\ files \subseteq Tracks
    /\ rows \in [global : Globals, nodes : Tables(NodeRows)]
    /\ holder \in Tasks \cup {None}

\* Only a persist has rows to write, of nodes that its snapshot has.
WritesOK(r) == r.write \subseteq DOMAIN r.snap.nodes /\ (r.pc # "save" => r.write = {})

TasksTyped ==
    /\ task \in [Tasks -> TaskIn(DOMAIN points)]
    /\ \A t \in Tasks : WritesOK(task[t])

\* The channel holds the last of the messages, and a client has read some of them.
WsTyped ==
    /\ sent \in [count : Nat, held : Seq(States)] /\ Len(sent.held) <= sent.count
    /\ client \in [Clients -> [pc : {"none", "subscribed", "open"}, at : Nat, view : States]]
    /\ \A c \in Clients : client[c].at <= sent.count

\* A point is in the hands of tasks and jobs under its place in the list of points.
PluginTyped ==
    /\ points \in Seq(Tracks)
    /\ prev \in [index : Indexes, node : BOOLEAN, scrobbled : SUBSET Tracks]
    /\ jobs \in Seq(JobIn(DOMAIN points)) /\ pending \in Seq(DOMAIN points)
    /\ accepted \subseteq DOMAIN points

TypeInv == CoreTyped /\ TasksTyped /\ WsTyped /\ PluginTyped

LEMMA TypeInvIs == TypeInv => TypeOK
<1> SUFFICES ASSUME TypeInv PROVE TypeOK
  OBVIOUS
<1>1. PlaybackState(state)
  BY StateIs DEF TypeInv, CoreTyped
<1>2. ASSUME NEW t \in Tasks
      PROVE  PlaybackState(task[t].snap) /\ task[t].write \subseteq DOMAIN task[t].snap.nodes
  <2>1. task[t].snap \in States
    BY DEF TypeInv, TasksTyped, TaskIn
  <2> QED
    BY <2>1, StateIs DEF TypeInv, TasksTyped, WritesOK
<1>3. ASSUME NEW i \in DOMAIN sent.held
      PROVE  PlaybackState(sent.held[i])
  <2>1. sent.held[i] \in States
    BY DEF TypeInv, WsTyped
  <2> QED
    BY <2>1, StateIs
<1>4. ASSUME NEW c \in Clients
      PROVE  PlaybackState(client[c].view) /\ client[c].at \in 0..sent.count
  <2>1. client[c].view \in States /\ client[c].at \in Nat /\ client[c].at <= sent.count
        /\ sent.count \in Nat
    BY DEF TypeInv, WsTyped
  <2> QED
    BY <2>1, StateIs
<1>5. DOMAIN rows.nodes \subseteq Nodes
  BY TableIs DEF TypeInv, CoreTyped
<1> QED
  BY <1>1, <1>2, <1>3, <1>4, <1>5 DEF TypeOK, TypeInv, CoreTyped, PluginTyped

LEMMA SeqGrows ==
  ASSUME NEW A, NEW B, A \subseteq B, NEW s \in Seq(A)
  PROVE  s \in Seq(B)
<1>1. Len(s) \in Nat /\ s \in [1..Len(s) -> A]
  OBVIOUS
<1>2. s \in [1..Len(s) -> B]
  BY <1>1
<1> QED
  BY <1>1, <1>2

LEMMA TaskFields ==
  ASSUME TasksTyped, NEW t \in Tasks
  PROVE  /\ task[t] \in TaskIn(DOMAIN points) /\ task[t].pc \in PCs /\ task[t].snap \in States
         /\ task[t].write \subseteq Nodes /\ task[t].events \in Seq(EventsIn(DOMAIN points))
         /\ WritesOK(task[t])
<1>1. task[t] \in TaskIn(DOMAIN points) /\ WritesOK(task[t])
  BY DEF TasksTyped
<1> QED
  BY <1>1 DEF TaskIn

LEMMA TaskMoves ==
  ASSUME TasksTyped, NEW t \in Tasks, NEW r \in TaskIn(DOMAIN points), WritesOK(r),
         task' = [task EXCEPT ![t] = r], UNCHANGED points
  PROVE  TasksTyped'
BY DEF TasksTyped

LEMMA IdleType == ASSUME NEW I PROVE Idle \in TaskIn(I) /\ Idle.write = {}
<1>1. <<>> \in Seq(EventsIn(I))
  OBVIOUS
<1> QED
  BY <1>1, NoStateType DEF Idle, TaskIn, PCs

-----------------------------------------------------------------------------
(* Broadcasts *)

LEMMA ChangeTyped ==
  ASSUME TypeInv, NEW t \in Tasks, Change(t)
  PROVE  TypeInv'
<1>1. state \in States /\ DOMAIN state.nodes \subseteq Nodes /\ state.nodes \in Tables(NodeRecord)
      /\ state.selected \in Nodes \cup {None}
  BY StateIs DEF TypeInv, CoreTyped
<1>2. ASSUME NEW n \in Nodes, NEW r \in Records
      PROVE  WithNode(n, r) \in States
  <2> DEFINE ns == [m \in DOMAIN state.nodes \cup {n} |-> IF m = n THEN r ELSE state.nodes[m]]
  <2>1. ns \in Tables(NodeRecord)
    <3>1. r \in NodeRecord
      BY FanoutConstants
    <3> QED
      BY <1>1, <3>1, TableWith
  <2>2. WithNode(n, r) = [state EXCEPT !.nodes = ns]
    BY <1>1 DEF WithNode, States
  <2> HIDE DEF ns
  <2> QED
    BY <1>1, <2>1, <2>2 DEF States
<1>3. state' \in States
  <2>1. ASSUME NEW n \in DOMAIN state.nodes, state' = [state EXCEPT !.selected = n]
        PROVE  state' \in States
    BY <1>1, <2>1 DEF States
  <2>2. ASSUME NEW n \in DOMAIN state.nodes,
               state' = [state EXCEPT !.nodes = Restrict(@, DOMAIN @ \ {n}),
                                      !.selected = IF @ = n THEN None ELSE @]
        PROVE  state' \in States
    <3> DEFINE ns == Restrict(state.nodes, DOMAIN state.nodes \ {n})
               sel == IF state.selected = n THEN None ELSE state.selected
    <3>1. ns \in Tables(NodeRecord) /\ sel \in Nodes \cup {None}
      BY <1>1, TableWithout
    <3>2. state' = [state EXCEPT !.nodes = ns, !.selected = sel]
      BY <2>2
    <3> HIDE DEF ns, sel
    <3> QED
      BY <1>1, <3>1, <3>2 DEF States
  <2>3. \/ \E n \in Nodes, r \in Records : state' = WithNode(n, r)
        \/ \E n \in DOMAIN state.nodes : state' = [state EXCEPT !.selected = n]
        \/ \E n \in DOMAIN state.nodes :
              state' = [state EXCEPT !.nodes = Restrict(@, DOMAIN @ \ {n}),
                                     !.selected = IF @ = n THEN None ELSE @]
    BY <1>1, Zenon DEF Change
  <2> QED
    BY <1>2, <2>1, <2>2, <2>3, Zenon
<1>4. TasksTyped'
  <2> DEFINE r == [task[t] EXCEPT !.pc = "sync"]
  <2>1. r \in TaskIn(DOMAIN points) /\ WritesOK(r)
    BY TaskFields DEF TypeInv, TaskIn, PCs, Change, WritesOK
  <2>2. task' = [task EXCEPT ![t] = r] /\ UNCHANGED points
    BY DEF Change, Go, pluginVars
  <2> HIDE DEF r
  <2> QED
    BY <2>1, <2>2, TaskMoves DEF TypeInv
<1> QED
  BY <1>3, <1>4 DEF TypeInv, CoreTyped, WsTyped, PluginTyped, Change, wsVars, pluginVars, dbVars

LEMMA BroadcastTyped ==
  ASSUME TypeInv, NEW t \in Tasks, SyncTopLevel(t) \/ Snapshot(t) \/ ToClients(t)
  PROVE  TypeInv'
<1>0. TasksTyped /\ state \in States /\ WsTyped
  BY DEF TypeInv, CoreTyped
<1>1. CASE SyncTopLevel(t)
  <2> DEFINE r == [task[t] EXCEPT !.pc = "clone"]
  <2>1. r \in TaskIn(DOMAIN points) /\ WritesOK(r)
    BY <1>0, <1>1, TaskFields DEF TaskIn, PCs, SyncTopLevel, WritesOK
  <2>2. /\ task' = [task EXCEPT ![t] = r] /\ state' = Synced(state)
        /\ UNCHANGED <<wsVars, pluginVars, dbVars, files>>
    BY <1>1 DEF SyncTopLevel, Go
  <2> HIDE DEF r
  <2>3. TasksTyped'
    BY <1>0, <2>1, <2>2, TaskMoves DEF pluginVars
  <2>4. state' \in States
    BY <1>0, <2>2, SyncedType
  <2> QED
    BY <2>2, <2>3, <2>4 DEF TypeInv, CoreTyped, WsTyped, PluginTyped, wsVars, pluginVars, dbVars
<1>2. CASE Snapshot(t)
  <2> DEFINE r == [task[t] EXCEPT !.pc = "ws", !.snap = state]
  <2>1. r \in TaskIn(DOMAIN points) /\ WritesOK(r)
    BY <1>0, <1>2, TaskFields DEF TaskIn, PCs, Snapshot, WritesOK
  <2>2. /\ task' = [task EXCEPT ![t] = r]
        /\ UNCHANGED <<state, wsVars, pluginVars, dbVars, files>>
    BY <1>2 DEF Snapshot
  <2> HIDE DEF r
  <2>3. TasksTyped'
    BY <1>0, <2>1, <2>2, TaskMoves DEF pluginVars
  <2> QED
    BY <2>2, <2>3 DEF TypeInv, CoreTyped, WsTyped, PluginTyped, wsVars, pluginVars, dbVars
<1>3. CASE ToClients(t)
  <2> DEFINE r == [task[t] EXCEPT !.pc = "bridge"]
             all == Append(sent.held, task[t].snap)
             held == IF Len(all) > Capacity THEN Tail(all) ELSE all
  <2>1. r \in TaskIn(DOMAIN points) /\ WritesOK(r)
    BY <1>0, <1>3, TaskFields DEF TaskIn, PCs, ToClients, WritesOK
  <2>2. /\ task' = [task EXCEPT ![t] = r] /\ sent' = [count |-> sent.count + 1, held |-> held]
        /\ UNCHANGED <<state, client, pluginVars, dbVars, files>>
    BY <1>3 DEF ToClients, Go, Sent
  <2>3. sent.held \in Seq(States) /\ sent.count \in Nat /\ Len(sent.held) <= sent.count
        /\ task[t].snap \in States
    BY <1>0, TaskFields DEF WsTyped
  <2>4. /\ all \in Seq(States) /\ Len(all) = Len(sent.held) + 1 /\ Len(sent.held) \in Nat
        /\ all # <<>>
    BY <2>3
  <2> HIDE DEF r, all
  <2>5. Tail(all) \in Seq(States) /\ Len(Tail(all)) = Len(all) - 1
    BY <2>4
  <2>6. held \in Seq(States) /\ Len(held) <= sent.count + 1
    <3>1. CASE Len(all) > Capacity
      BY <2>3, <2>4, <2>5, <3>1
    <3>2. CASE ~(Len(all) > Capacity)
      BY <2>3, <2>4, <3>2
    <3> QED
      BY <3>1, <3>2
  <2> HIDE DEF held
  <2>7. TasksTyped'
    BY <1>0, <2>1, <2>2, TaskMoves DEF pluginVars
  <2>8. WsTyped'
    <3>1. sent'.count = sent.count + 1 /\ sent'.held = held
      BY <2>2
    <3>2. sent' \in [count : Nat, held : Seq(States)]
      BY <2>2, <2>3, <2>6
    <3>3. \A c \in Clients : client[c].at \in Nat /\ client[c].at <= sent.count
      BY <1>0 DEF WsTyped
    <3> QED
      BY <1>0, <2>2, <2>3, <2>6, <3>1, <3>2, <3>3 DEF WsTyped
  <2> QED
    BY <2>2, <2>7, <2>8 DEF TypeInv, CoreTyped, PluginTyped, pluginVars, dbVars
<1> QED
  BY <1>1, <1>2, <1>3

-----------------------------------------------------------------------------
(* Steps of tasks *)
\* Points that are found get places of their own; the others keep theirs.
LEMMA InGrows ==
  ASSUME NEW A, NEW B, A \subseteq B
  PROVE  TaskIn(A) \subseteq TaskIn(B) /\ JobIn(A) \subseteq JobIn(B)
<1>1. Seq(A) \subseteq Seq(B)
  BY SeqGrows
<1>2. EventsIn(A) \subseteq EventsIn(B)
  BY DEF EventsIn
<1>3. Seq(EventsIn(A)) \subseteq Seq(EventsIn(B))
  BY <1>2, SeqGrows
<1> QED
  BY <1>1, <1>3 DEF TaskIn, JobIn

LEMMA DiffTyped ==
  ASSUME TypeInv, NEW t \in Tasks, Diff(t)
  PROVE  TypeInv'
<1> DEFINE s   == task[t].snap
           new == Scrobbles(s)
           e   == Announced(s) \o IF new THEN <<[kind |-> "point", id |-> Len(points')]>> ELSE <<>>
           r   == [task[t] EXCEPT !.pc = "events", !.events = e]
           I   == DOMAIN points
           J   == DOMAIN points'
<1>0. TasksTyped /\ PluginTyped /\ s \in States /\ points \in Seq(Tracks)
  BY TaskFields DEF TypeInv, PluginTyped
<1>1. /\ points' = IF new THEN Append(points, CurrentTrack(s)) ELSE points
      /\ prev' = [index |-> s.index, node |-> Selected(s) # None,
                  scrobbled |-> prev.scrobbled \cup IF new THEN {CurrentTrack(s)} ELSE {}]
      /\ task' = [task EXCEPT ![t] = r] /\ task[t].pc = "bridge"
      /\ UNCHANGED <<state, wsVars, jobs, pending, accepted, dbVars, files>>
  BY DEF Diff
<1>2. new => CurrentTrack(s) \in Tracks
  BY <1>0, CurrentTracks DEF Scrobbles
<1>3. Announced(s) \in Seq(EventsIn(J))
  <2>1. [kind |-> "changed"] \in EventsIn(J)
    BY DEF EventsIn
  <2> HIDE DEF J
  <2>2. <<>> \in Seq(EventsIn(J)) /\ <<[kind |-> "changed"]>> \in Seq(EventsIn(J))
    BY <2>1
  <2>3. Announced(s) = <<>> \/ Announced(s) = <<[kind |-> "changed"]>>
    BY DiffEvents
  <2> QED
    BY <2>2, <2>3, Zenon
<1>4. s.index \in Indexes /\ prev.scrobbled \subseteq Tracks
  BY <1>0, StateIs DEF PluginTyped
<1> HIDE DEF s, new
<1>5. points' \in Seq(Tracks) /\ I \subseteq J /\ (new => Len(points') \in J)
  <2>1. CASE new
    <3>1. points' = Append(points, CurrentTrack(s)) /\ CurrentTrack(s) \in Tracks
      BY <1>1, <1>2, <2>1
    <3> QED
      BY <1>0, <3>1
  <2>2. CASE ~new
    BY <1>0, <1>1, <2>2
  <2> QED
    BY <2>1, <2>2
<1>6. e \in Seq(EventsIn(J))
  <2>1. CASE new
    <3>1. [kind |-> "point", id |-> Len(points')] \in EventsIn(J)
      BY <1>5, <2>1 DEF EventsIn
    <3>2. e = Announced(s) \o <<[kind |-> "point", id |-> Len(points')]>>
      BY <2>1
    <3> HIDE DEF e
    <3> QED
      BY <1>3, <3>1, <3>2
  <2>2. CASE ~new
    <3>1. e = Announced(s) \o <<>>
      BY <2>2
    <3> HIDE DEF e
    <3> QED
      BY <1>3, <3>1
  <2> QED
    BY <2>1, <2>2
<1> HIDE DEF e
<1>7. \A u \in Tasks : task[u] \in TaskIn(J)
  BY <1>0, <1>5, InGrows DEF TasksTyped
<1>8. r \in TaskIn(J) /\ WritesOK(r)
  <2>1. task[t] \in TaskIn(J) /\ WritesOK(task[t]) /\ task[t].write = {}
    BY <1>0, <1>1, <1>7 DEF TasksTyped, WritesOK
  <2> QED
    BY <1>6, <2>1 DEF TaskIn, PCs, WritesOK
<1> HIDE DEF r
<1>9. TasksTyped'
  BY <1>0, <1>1, <1>7, <1>8 DEF TasksTyped
<1>10. PluginTyped'
  <2>1. Seq(I) \subseteq Seq(J) /\ Seq(JobIn(I)) \subseteq Seq(JobIn(J))
    BY <1>5, InGrows, SeqGrows
  <2>2. prev' \in [index : Indexes, node : BOOLEAN, scrobbled : SUBSET Tracks]
    BY <1>1, <1>2, <1>4
  <2> HIDE DEF J
  <2>3. jobs \in Seq(JobIn(J)) /\ pending \in Seq(J) /\ accepted \subseteq J
    BY <1>0, <1>5, <2>1 DEF PluginTyped
  <2> QED
    BY <1>1, <1>5, <2>2, <2>3 DEF PluginTyped, J
<1> QED
  BY <1>1, <1>9, <1>10 DEF TypeInv, CoreTyped, WsTyped, wsVars, dbVars

LEMMA OnEventTyped ==
  ASSUME TypeInv, NEW t \in Tasks, OnEvent(t)
  PROVE  TypeInv'
<1> DEFINE I   == DOMAIN points
           e   == Head(task[t].events)
           r   == [task[t] EXCEPT !.events = Tail(task[t].events)]
           job == IF e.kind = "changed" THEN [pc |-> "flush", todo |-> <<>>, failed |-> <<>>]
                  ELSE [pc |-> "scrobble", todo |-> <<e.id>>, failed |-> <<>>]
<1>0. TasksTyped /\ PluginTyped /\ task[t].events \in Seq(EventsIn(I)) /\ task[t] \in TaskIn(I)
      /\ WritesOK(task[t])
  BY TaskFields DEF TypeInv
<1>1. /\ task[t].events # <<>> /\ jobs' = Append(jobs, job) /\ task' = [task EXCEPT ![t] = r]
      /\ UNCHANGED <<state, wsVars, prev, points, pending, accepted, dbVars, files>>
  BY DEF OnEvent
<1> HIDE DEF I
<1>2. e \in EventsIn(I) /\ Tail(task[t].events) \in Seq(EventsIn(I))
  BY <1>0, <1>1
<1>3. job \in JobIn(I)
  <2>0. <<>> \in Seq(I)
    OBVIOUS
  <2>1. CASE e.kind = "changed"
    BY <2>0, <2>1 DEF JobIn
  <2>2. CASE e.kind # "changed"
    <3>1. e.id \in I
      BY <1>2, <2>2 DEF EventsIn
    <3>2. <<e.id>> \in Seq(I) /\ job = [pc |-> "scrobble", todo |-> <<e.id>>, failed |-> <<>>]
      BY <2>2, <3>1
    <3> HIDE DEF e, job
    <3> QED
      BY <2>0, <3>2 DEF JobIn
  <2> QED
    BY <2>1, <2>2
<1> HIDE DEF job
<1>4. r \in TaskIn(I) /\ WritesOK(r)
  BY <1>0, <1>2 DEF TaskIn, WritesOK
<1> HIDE DEF r
<1>5. TasksTyped'
  BY <1>0, <1>1, <1>4, TaskMoves DEF I
<1>6. jobs' \in Seq(JobIn(I))
  BY <1>0, <1>1, <1>3 DEF PluginTyped, I
<1>7. PluginTyped'
  BY <1>0, <1>1, <1>6 DEF PluginTyped, I
<1> QED
  BY <1>1, <1>5, <1>7 DEF TypeInv, CoreTyped, WsTyped, wsVars, dbVars

LEMMA PersistTyped ==
  ASSUME TypeInv, NEW t \in Tasks, SaveGlobal(t) \/ SaveNode(t) \/ Prune(t) \/ SaveFails(t)
  PROVE  TypeInv'
<1>0. /\ TasksTyped /\ task[t].snap \in States /\ task[t] \in TaskIn(DOMAIN points)
      /\ WritesOK(task[t])
      /\ rows \in [global : Globals, nodes : Tables(NodeRows)] /\ holder \in Tasks \cup {None}
  BY TaskFields DEF TypeInv, CoreTyped
<1>1. DOMAIN task[t].snap.nodes \subseteq Nodes /\ GlobalRow(task[t].snap) \in Globals
      /\ RowsOf(task[t].snap).nodes \in Tables(NodeRows)
  BY <1>0, StateIs
<1>2. rows.nodes \in Tables(NodeRows)
  BY <1>0
<1>3. CASE SaveGlobal(t)
  <2> DEFINE r == [task[t] EXCEPT !.pc = "save", !.write = DOMAIN task[t].snap.nodes]
  <2>1. /\ task' = [task EXCEPT ![t] = r] /\ rows' = [rows EXCEPT !.global = GlobalRow(task[t].snap)]
        /\ holder' = t /\ UNCHANGED <<state, wsVars, pluginVars, files>>
    BY <1>3 DEF SaveGlobal
  <2>2. r \in TaskIn(DOMAIN points) /\ WritesOK(r)
    BY <1>0, <1>1 DEF TaskIn, WritesOK, PCs
  <2> HIDE DEF r
  <2>3. TasksTyped'
    BY <1>0, <2>1, <2>2, TaskMoves DEF pluginVars
  <2>4. rows' \in [global : Globals, nodes : Tables(NodeRows)]
    BY <1>0, <1>1, <2>1
  <2> QED
    BY <2>1, <2>3, <2>4 DEF TypeInv, CoreTyped, WsTyped, PluginTyped, wsVars, pluginVars
<1>4. CASE SaveNode(t)
  <2>0. PICK n \in task[t].write :
          /\ task[t].pc = "save"
          /\ rows' = [rows EXCEPT !.nodes = [m \in DOMAIN @ \cup {n} |->
                                       IF m = n THEN NodeRow(task[t].snap.nodes[n]) ELSE @[m]]]
          /\ task' = [task EXCEPT ![t].write = @ \ {n}]
          /\ UNCHANGED <<state, wsVars, pluginVars, holder, files>>
    BY <1>4 DEF SaveNode
  <2> DEFINE r  == [task[t] EXCEPT !.write = task[t].write \ {n}]
             ns == [m \in DOMAIN rows.nodes \cup {n} |->
                      IF m = n THEN NodeRow(task[t].snap.nodes[n]) ELSE rows.nodes[m]]
  <2>1. task' = [task EXCEPT ![t] = r] /\ rows' = [rows EXCEPT !.nodes = ns]
    BY <2>0
  <2>2. n \in DOMAIN task[t].snap.nodes /\ n \in Nodes
    BY <1>0, <1>1 DEF WritesOK
  <2>3. NodeRow(task[t].snap.nodes[n]) \in NodeRows
    <3>1. task[t].snap.nodes[n] \in NodeRecord
      BY <1>0, <2>2, StateIs, TableIs
    <3> QED
      BY <3>1 DEF NodeRow, NodeRows, NodeRecord
  <2>4. ns \in Tables(NodeRows)
    BY <1>2, <2>2, <2>3, TableWith
  <2>5. r \in TaskIn(DOMAIN points) /\ WritesOK(r)
    BY <1>0, <2>0 DEF TaskIn, WritesOK
  <2> HIDE DEF r, ns
  <2>6. TasksTyped'
    BY <1>0, <2>0, <2>1, <2>5, TaskMoves DEF pluginVars
  <2>7. rows' \in [global : Globals, nodes : Tables(NodeRows)]
    BY <1>0, <2>1, <2>4
  <2> QED
    BY <2>0, <2>6, <2>7 DEF TypeInv, CoreTyped, WsTyped, PluginTyped, wsVars, pluginVars
<1>5. CASE Prune(t) \/ SaveFails(t)
  <2>1. /\ task' = [task EXCEPT ![t] = Idle] /\ holder' = None
        /\ UNCHANGED <<state, wsVars, pluginVars, files>>
    BY <1>5 DEF Prune, SaveFails
  <2>2. TasksTyped'
    BY <1>0, <2>1, TaskMoves, IdleType DEF pluginVars, WritesOK
  <2>3. rows' \in [global : Globals, nodes : Tables(NodeRows)]
    <3>1. CASE rows' = rows
      BY <1>0, <3>1
    <3>2. CASE Prune(t)
      <4> DEFINE ns == Restrict(rows.nodes, DOMAIN rows.nodes \cap DOMAIN task[t].snap.nodes)
      <4>1. ns \in Tables(NodeRows)
        BY <1>2, TableWithout
      <4>2. rows' = [rows EXCEPT !.nodes = ns]
        BY <3>2 DEF Prune
      <4> HIDE DEF ns
      <4> QED
        BY <1>0, <4>1, <4>2
    <3> QED
      BY <1>5, <3>1, <3>2 DEF SaveFails
  <2> QED
    BY <2>1, <2>2, <2>3 DEF TypeInv, CoreTyped, WsTyped, PluginTyped, wsVars, pluginVars
<1> QED
  BY <1>3, <1>4, <1>5

-----------------------------------------------------------------------------
(* The plugin, clients, starts *)
LEMMA LastFmTyped ==
  ASSUME TypeInv, JobsOK, NEW j \in DOMAIN jobs, LastFm(j)
  PROVE  TypeInv'
<1> DEFINE I == DOMAIN points
           b == jobs[j]
<1>0. /\ PluginTyped /\ UNCHANGED <<points, prev, coreVars, wsVars, dbVars, files>>
  BY DEF TypeInv, LastFm, Scrobble, PushPending, Drain, Retry, PutBack
<1>1. /\ jobs \in Seq(JobIn(I)) /\ pending \in Seq(I) /\ accepted \subseteq I
      /\ DOMAIN jobs = 1..Len(jobs) /\ Len(jobs) \in Nat
  BY <1>0 DEF PluginTyped
<1> HIDE DEF I
<1>2. b \in JobIn(I) /\ b.todo \in Seq(I) /\ b.failed \in Seq(I)
  <2>1. b \in JobIn(I)
    BY <1>1
  <2> QED
    BY <2>1 DEF JobIn
<1>3. ASSUME jobs' \in Seq(JobIn(I)), pending' \in Seq(I), accepted' \subseteq I
      PROVE  TypeInv'
  <2>1. PluginTyped'
    BY <1>0, <1>3 DEF PluginTyped, I
  <2>2. CoreTyped' /\ TasksTyped' /\ WsTyped'
    BY <1>0 DEF TypeInv, CoreTyped, TasksTyped, WsTyped, coreVars, wsVars, dbVars
  <2> QED
    BY <2>1, <2>2 DEF TypeInv
<1>4. Ends(j) => jobs' \in Seq(JobIn(I))
  BY <1>1, Others DEF Ends
<1>5. \A r \in JobIn(I) : jobs' = [jobs EXCEPT ![j] = r] => jobs' \in Seq(JobIn(I))
  BY <1>1
<1>6. \A s \in Seq(I) : s # <<>> => Head(s) \in I /\ Tail(s) \in Seq(I)
  OBVIOUS
<1>7. CASE Scrobble(j)
  <2>1. b.todo # <<>> /\ Head(b.todo) \in I
    BY <1>2, <1>6, <1>7 DEF Scrobble, JobsOK
  <2>2. accepted' \subseteq I /\ pending' = pending
    BY <1>1, <1>7, <2>1 DEF Scrobble, Call
  <2>3. CASE Ends(j)
    BY <1>1, <1>3, <1>4, <2>2, <2>3
  <2>4. CASE jobs' = [jobs EXCEPT ![j].pc = "push"]
    <3> DEFINE r == [b EXCEPT !.pc = "push"]
    <3>1. r \in JobIn(I)
      BY <1>2 DEF JobIn
    <3>2. jobs' = [jobs EXCEPT ![j] = r]
      BY <2>4
    <3> HIDE DEF r
    <3> QED
      BY <1>1, <1>3, <1>5, <2>2, <3>1, <3>2
  <2> QED
    BY <1>7, <2>3, <2>4 DEF Scrobble
<1>8. CASE PushPending(j)
  <2>1. pending' = pending \o b.todo /\ Ends(j) /\ accepted' = accepted
    BY <1>8 DEF PushPending
  <2>2. pending' \in Seq(I)
    BY <1>1, <1>2, <2>1
  <2> QED
    BY <1>1, <1>3, <1>4, <2>1, <2>2
<1>9. CASE Drain(j)
  <2> DEFINE n == IF Len(pending) < BatchSize THEN Len(pending) ELSE BatchSize
             r == [b EXCEPT !.pc = "retry", !.todo = SubSeq(pending, 1, n)]
  <2>0. n \in 0..Len(pending) /\ Len(pending) \in Nat
    BY <1>1, FanoutConstants
  <2>1. /\ pending' = SubSeq(pending, n + 1, Len(pending)) /\ accepted' = accepted
        /\ Ends(j) \/ jobs' = [jobs EXCEPT ![j] = r]
    BY <1>9 DEF Drain
  <2> HIDE DEF n
  <2>2. SubSeq(pending, n + 1, Len(pending)) \in Seq(I) /\ SubSeq(pending, 1, n) \in Seq(I)
    BY <1>1, <2>0
  <2>3. r \in JobIn(I)
    BY <1>2, <2>2 DEF JobIn
  <2> HIDE DEF r
  <2> QED
    BY <1>1, <1>3, <1>4, <1>5, <2>1, <2>2, <2>3
<1>10. CASE Retry(j)
  <2>1. b.todo # <<>> /\ Head(b.todo) \in I /\ Tail(b.todo) \in Seq(I)
    BY <1>2, <1>6, <1>10 DEF Retry
  <2>2. accepted' \subseteq I /\ pending' = pending
    BY <1>1, <1>10, <2>1 DEF Retry, Call
  <2>3. PICK ok \in BOOLEAN :
           jobs' = [jobs EXCEPT ![j].todo = Tail(@),
                                ![j].failed = IF ok THEN @ ELSE Append(@, Head(jobs[j].todo))]
    BY <1>10 DEF Retry
  <2> DEFINE failed == IF ok THEN b.failed ELSE Append(b.failed, Head(b.todo))
             r == [b EXCEPT !.todo = Tail(b.todo), !.failed = failed]
  <2>4. failed \in Seq(I)
    BY <1>2, <2>1
  <2>5. jobs' = [jobs EXCEPT ![j] = r]
    BY <1>1, <2>3
  <2> HIDE DEF failed
  <2>6. r \in JobIn(I)
    BY <1>2, <2>1, <2>4 DEF JobIn
  <2> HIDE DEF r
  <2> QED
    BY <1>1, <1>3, <1>5, <2>2, <2>5, <2>6
<1>11. CASE PutBack(j)
  <2>1. pending' = b.failed \o pending /\ Ends(j) /\ accepted' = accepted
    BY <1>11 DEF PutBack
  <2>2. pending' \in Seq(I)
    BY <1>1, <1>2, <2>1
  <2> QED
    BY <1>1, <1>3, <1>4, <2>1, <2>2
<1> QED
  BY <1>7, <1>8, <1>9, <1>10, <1>11 DEF LastFm

LEMMA ClientTyped ==
  ASSUME TypeInv, NEW c \in Clients, Subscribe(c) \/ Client(c) \/ Leave(c)
  PROVE  TypeInv'
<1> DEFINE Views == [pc : {"none", "subscribed", "open"}, at : Nat, view : States]
<1>0. UNCHANGED <<coreVars, sent, pluginVars, dbVars, files>>
  BY DEF Subscribe, Client, Greet, Read, Leave
<1>1. /\ sent.count \in Nat /\ sent.held \in Seq(States) /\ Len(sent.held) <= sent.count
      /\ client \in [Clients -> Views] /\ client[c] \in Views /\ client[c].at \in Nat
      /\ client[c].at <= sent.count /\ state \in States
  BY DEF TypeInv, WsTyped, CoreTyped
<1>2. ASSUME NEW r \in Views, r.at <= sent.count, client' = [client EXCEPT ![c] = r]
      PROVE  TypeInv'
  <2>1. WsTyped'
    BY <1>0, <1>2 DEF TypeInv, WsTyped
  <2> QED
    BY <1>0, <2>1 DEF TypeInv, CoreTyped, TasksTyped, PluginTyped, coreVars, pluginVars, dbVars
<1>3. CASE Subscribe(c)
  <2> DEFINE r == [pc |-> "subscribed", at |-> sent.count, view |-> NoState]
  <2>1. r \in Views /\ r.at <= sent.count
    BY <1>1, NoStateType
  <2>2. client' = [client EXCEPT ![c] = r]
    BY <1>3 DEF Subscribe
  <2> HIDE DEF r, Views
  <2> QED
    BY <1>2, <2>1, <2>2
<1>4. CASE Greet(c)
  <2> DEFINE r == [client[c] EXCEPT !.pc = "open", !.view = state]
  <2>1. r \in Views /\ r.at <= sent.count
    BY <1>1
  <2>2. client' = [client EXCEPT ![c] = r]
    BY <1>4 DEF Greet
  <2> HIDE DEF r, Views
  <2> QED
    BY <1>2, <2>1, <2>2
<1>5. CASE Read(c)
  <2>0. Oldest \in Nat /\ Oldest <= sent.count /\ client[c].at < sent.count
    BY <1>1, <1>5 DEF Oldest, Read
  <2>1. CASE client[c].at < Oldest
    <3> DEFINE r == [client[c] EXCEPT !.at = Oldest]
    <3>1. r \in Views /\ r.at <= sent.count
      BY <1>1, <2>0
    <3>2. client' = [client EXCEPT ![c] = r]
      BY <1>5, <2>1 DEF Read
    <3> HIDE DEF r, Views
    <3> QED
      BY <1>2, <3>1, <3>2
  <2>2. CASE ~(client[c].at < Oldest)
    <3> DEFINE v == sent.held[client[c].at - Oldest + 1]
               r == [client[c] EXCEPT !.at = client[c].at + 1, !.view = v]
    <3>1. v \in States
      <4>1. client[c].at - Oldest + 1 \in 1..Len(sent.held)
        BY <1>1, <2>0, <2>2 DEF Oldest
      <4> QED
        BY <1>1, <4>1
    <3>2. client' = [client EXCEPT ![c] = r]
      BY <1>5, <2>2 DEF Read
    <3> HIDE DEF v
    <3> DEFINE n == client[c].at + 1
    <3>3. n \in Nat /\ n <= sent.count
      BY <1>1, <2>0
    <3>4. r = [client[c] EXCEPT !.at = n, !.view = v]
      OBVIOUS
    <3> HIDE DEF n, r
    <3>5. r \in Views /\ r.at <= sent.count
      BY <1>1, <3>1, <3>3, <3>4
    <3> HIDE DEF r, Views
    <3> QED
      BY <1>2, <3>2, <3>5
  <2> QED
    BY <2>1, <2>2
<1>6. CASE Leave(c)
  <2>1. Away \in Views /\ Away.at <= sent.count
    BY <1>1, NoStateType DEF Away
  <2>2. client' = [client EXCEPT ![c] = Away]
    BY <1>6 DEF Leave
  <2> HIDE DEF Views
  <2> QED
    BY <1>2, <2>1, <2>2
<1> QED
  BY <1>3, <1>4, <1>5, <1>6 DEF Client

\* What a start of the server makes of everything but the state.
LEMMA FreshTyped ==
  /\ Idle \in TaskIn(DOMAIN <<>>) /\ WritesOK(Idle)
  /\ NothingSent \in [count : Nat, held : Seq(States)] /\ Len(NothingSent.held) <= NothingSent.count
  /\ Away \in [pc : {"none", "subscribed", "open"}, at : Nat, view : States]
  /\ Away.at <= NothingSent.count
  /\ NothingSeen \in [index : Indexes, node : BOOLEAN, scrobbled : SUBSET Tracks]
<1>1. <<>> \in Seq(States)
  OBVIOUS
<1>2. Idle \in TaskIn(DOMAIN <<>>) /\ WritesOK(Idle)
  BY IdleType DEF WritesOK
<1> QED
  BY <1>1, <1>2, NoStateType DEF NothingSent, Away, NothingSeen, Indexes

LEMMA RestartTyped ==
  ASSUME TypeInv, Restart
  PROVE  TypeInv'
<1>1. Restored(rows) \in States
  <2>1. rows.global \in Globals /\ rows.nodes \in Tables(NodeRows)
    BY DEF TypeInv, CoreTyped
  <2> QED
    BY <2>1, RestoredType
<1>2. /\ state' = Restored(rows) /\ task' = [t \in Tasks |-> Idle]
      /\ sent' = NothingSent /\ client' = [c \in Clients |-> Away]
      /\ prev' = NothingSeen /\ points' = <<>> /\ jobs' = <<>> /\ pending' = <<>> /\ accepted' = {}
      /\ holder' = None /\ rows' = rows /\ files' = files
  BY DEF Restart
<1>3. CoreTyped'
  BY <1>1, <1>2 DEF TypeInv, CoreTyped
<1>4. TasksTyped'
  BY <1>2, FreshTyped DEF TasksTyped
<1>5. WsTyped'
  BY <1>2, FreshTyped DEF WsTyped
<1>6. PluginTyped'
  BY <1>2, FreshTyped DEF PluginTyped
<1> QED
  BY <1>3, <1>4, <1>5, <1>6 DEF TypeInv

LEMMA InitTyped == Init => TypeInv
<1> SUFFICES ASSUME Init PROVE TypeInv
  OBVIOUS
<1>1. PICK i \in Instances : persisted = i.start
  BY DEF Init
<1>2. PlaybackState(persisted)
  BY <1>1, FanoutConstants
<1>3. rows.global \in Globals /\ rows.nodes \in Tables(NodeRows) /\ rows \in [global : Globals, nodes : Tables(NodeRows)]
  <2> DEFINE ns == [n \in DOMAIN persisted.nodes |-> NodeRow(persisted.nodes[n])]
  <2>1. \A n \in DOMAIN persisted.nodes : NodeRow(persisted.nodes[n]) \in NodeRows
    BY <1>2 DEF PlaybackState, NodeRow, NodeRows, NodeRecord
  <2>2. DOMAIN ns \subseteq Nodes /\ ns \in [DOMAIN ns -> NodeRows]
    BY <1>2, <2>1 DEF PlaybackState
  <2>3. rows = [global |-> GlobalRow(persisted), nodes |-> ns]
    BY DEF Init, RowsOf
  <2> HIDE DEF ns
  <2>4. ns \in Tables(NodeRows)
    BY <2>2, TableIs
  <2>5. GlobalRow(persisted) \in Globals
    BY <1>2 DEF PlaybackState, GlobalRow, Globals
  <2> QED
    BY <2>3, <2>4, <2>5
<1>4. CoreTyped
  <2>1. state \in States
    BY <1>3, RestoredType DEF Init
  <2> QED
    BY <1>3, <2>1 DEF Init, CoreTyped
<1>5. TasksTyped
  BY FreshTyped DEF Init, TasksTyped
<1>6. WsTyped
  BY FreshTyped DEF Init, WsTyped
<1>7. PluginTyped
  BY FreshTyped DEF Init, PluginTyped
<1> QED
  BY <1>4, <1>5, <1>6, <1>7 DEF TypeInv

LEMMA NextTyped ==
  ASSUME TypeInv, JobsOK, [Next]_vars
  PROVE  TypeInv'
<1>1. ASSUME NEW t \in Tasks, Change(t) \/ Broadcast(t) \/ SaveFails(t)
      PROVE  TypeInv'
  BY <1>1, ChangeTyped, BroadcastTyped, DiffTyped, OnEventTyped, PersistTyped DEF Broadcast
<1>2. CASE DeleteTrack
  BY <1>2 DEF DeleteTrack, TypeInv, CoreTyped, TasksTyped, WsTyped, PluginTyped,
              coreVars, wsVars, pluginVars, dbVars
<1>3. CASE UNCHANGED vars
  BY <1>3 DEF vars, TypeInv, CoreTyped, TasksTyped, WsTyped, PluginTyped,
              coreVars, wsVars, pluginVars, dbVars
<1> QED
  BY <1>1, <1>2, <1>3, LastFmTyped, ClientTyped, RestartTyped DEF Next

\* Every variable keeps its type, and a queue that is restored from a database whose library
\* has lost tracks (main.rs, restore_state) holds tracks of the library only.
THEOREM TypesHold == Spec => []TypeOK
<1> DEFINE Inv == TasksOK /\ PointsOK /\ ScrobbleInv /\ TypeInv
<1>1. Init => Inv
  <2>1. Init => ScrobbleInv
    BY DEF Init, ScrobbleInv, JobsOK, EventsOK, MarkedOnce, PointsHeld, Idle
  <2> QED
    BY <2>1, TasksInit, InitTyped
<1>2. Inv /\ [Next]_vars => Inv'
  BY TasksNext, NextScrobbles, NextTyped DEF ScrobbleInv
<1>3. Inv => TypeOK
  BY TypeInvIs
<1> QED
  BY <1>1, <1>2, <1>3, PTL DEF Spec
=============================================================================
