------------------------ MODULE LocalSessions_proofs ------------------------
(***************************************************************************)
(* Theorems about LocalSessions, for any connections, devices and bounds.  *)
(***************************************************************************)
EXTENDS LocalSessions, TLAPS

(* What a task holds agrees with where it is.                              *)
TasksOK ==
    \A c \in Conns :
        /\ pc[c] \in {"started", "adopt", "claim"} => arg[c] # None
        /\ pc[c] = "claim" => local[c] = arg[c]
        /\ pc[c] \in {"stop", "stopped", "release", "update", "disconnect"}
             => local[c] # None
        /\ pc[c] = "disconnected" => local[c] = None

(* A selection that is restored finds its node.                            *)
StoredSelectionIsListed ==
    stored.selected = None \/ stored.selected \in DOMAIN stored.rows

SelectionInv == SelectedIsListed /\ (~ mixed => StoredSelectionIsListed)

-----------------------------------------------------------------------------
(* Types *)

LEMMA RestoredType ==
  ASSUME NEW db,
         DOMAIN db.rows \subseteq Ids,
         \A id \in DOMAIN db.rows : db.rows[id] \in Rows
  PROVE  LET ns == Restored(db)
         IN  /\ DOMAIN ns \subseteq Ids
             /\ ns = [id \in DOMAIN ns |-> ns[id]]
             /\ \A id \in DOMAIN ns : ns[id] \in NodeRecords
<1>1. ASSUME NEW id \in DOMAIN db.rows
      PROVE  RestoredNode(id, db.rows[id]) \in NodeRecords
  <2>1. NodeType(id) = "local" => id \in LocalIds
    BY DEF NodeType, Ids
  <2> QED
    BY <2>1 DEF RestoredNode, Node, Rows, NodeRecords
<1> QED
  BY <1>1 DEF Restored

LEMMA InitType == Init => TypeOK
<1> SUFFICES ASSUME Init PROVE TypeOK
  OBVIOUS
<1>1. StoredType
  <2>1. PICK left \in SUBSET ({OldDevice} \cup Duplicates), sel \in Remotes \cup {None} :
          stored = FirstDatabase(left, sel)
    BY DEF Init
  <2> QED
    BY <2>1, IdsAssumption DEF FirstDatabase, StoredType, Rows, Ages, Ids, LocalIds
<1>2. NodesType
  BY <1>1, RestoredType DEF Init, NodesType, Listed, StoredType
<1>3. selected \in Ids \cup {None}
  BY <1>1 DEF Init, StoredType
<1>4. mixed \in BOOLEAN
  BY DEF Init
<1> QED
  BY <1>1, <1>2, <1>3, <1>4, MaxRestartsAssumption DEF Init, TypeOK, PCs

LEMMA SnapshotType ==
  ASSUME TypeOK
  PROVE  /\ stored' = Snapshot => StoredType'
         /\ stored' \in PartlySaved(Snapshot, stored) => StoredType'
<1> USE DEF StoredType
<1>1. /\ DOMAIN Snapshot.rows = Listed /\ Listed \subseteq Ids
      /\ \A id \in Listed : Snapshot.rows[id] \in Rows
      /\ Snapshot.selected \in Ids \cup {None}
  BY DEF TypeOK, NodesType, Snapshot, Row, NodeRecords, Rows, Listed
<1>2. /\ DOMAIN stored.rows \subseteq Ids
      /\ \A id \in DOMAIN stored.rows : stored.rows[id] \in Rows
  BY DEF TypeOK
<1>3. ASSUME NEW ids \in SUBSET Listed, stored' = PartOf(Snapshot, stored, ids)
      PROVE  StoredType'
  BY <1>1, <1>2, <1>3 DEF PartOf
<1>4. ASSUME stored' \in PartlySaved(Snapshot, stored)
      PROVE  StoredType'
  <2>1. CASE stored' = stored
    BY <2>1 DEF TypeOK
  <2>2. CASE \E ids \in SUBSET Listed : stored' = PartOf(Snapshot, stored, ids)
    BY <1>3, <2>2
  <2> QED
    BY <1>1, <1>4, <2>1, <2>2 DEF PartlySaved
<1> QED
  BY <1>1, <1>4

\* Functions of the tasks and of the sessions after a step of one of them.
LEMMA UpdateTypes ==
  ASSUME TypeOK
  PROVE  /\ \A c \in Conns, s \in PCs : Stay(c, s) => pc' \in [Conns -> PCs]
         /\ \A c \in Conns, id \in LocalIds \cup {None} :
              /\ [local EXCEPT ![c] = id] \in [Conns -> LocalIds \cup {None}]
              /\ [arg EXCEPT ![c] = id] \in [Conns -> LocalIds \cup {None}]
         /\ \A c \in Conns, id \in LocalIds :
              Released(c, id) \in [LocalIds -> Conns \cup {None}]
BY DEF TypeOK, Stay, Released

\* Nodes that were removed, or changed in place.
LEMMA WithoutType ==
  ASSUME NodesType, NEW ids, nodes' = Without(ids)
  PROVE  /\ Listed' = Listed \ ids
         /\ \A id \in Listed' : nodes'[id] = nodes[id]
         /\ NodesType'
BY DEF NodesType, Without, Listed

LEMMA MarkedType ==
  ASSUME NodesType, NEW id \in Listed, NEW up \in BOOLEAN, NEW at \in Ages,
         nodes' = Marked(id, up, at)
  PROVE  /\ Listed' = Listed
         /\ \A n \in Listed : nodes'[n].device = nodes[n].device
         /\ NodesType'
BY DEF NodesType, Marked, Listed, Node, NodeRecords

LEMMA TakeUpType ==
  ASSUME TypeOK, NEW c \in Conns, NEW id \in LocalIds, TakeUp(c, id)
  PROVE  /\ Listed' = Listed \ (NodesOf(arg[c]) \ {id})
         /\ id \in Listed /\ nodes[id].device = arg[c] /\ arg[c] # None
         /\ nodes'[id].device = arg[c]
         /\ \A n \in Listed' : n # id => nodes'[n] = nodes[n]
         /\ NodesType'
         /\ selected' \in Ids \cup {None} /\ spent' \subseteq Uuids
<1>1. Node(TRUE, arg[c], None) \in NodeRecords
  BY DEF TypeOK, Node, NodeRecords, Ages
<1> QED
  BY <1>1 DEF TypeOK, NodesType, TakeUp, Without, NodesOf, Listed, Node, Ids

LEMMA MakeNodeType ==
  ASSUME TypeOK, NEW c \in Conns, NEW id \in LocalIds, MakeNode(c, id)
  PROVE  /\ Listed' = Listed \cup {id}
         /\ nodes'[id].device = arg[c]
         /\ \A n \in Listed' : n # id => nodes'[n] = nodes[n]
         /\ NodesType'
         /\ selected' \in Ids \cup {None} /\ spent' \subseteq Uuids
<1>1. Node(TRUE, arg[c], None) \in NodeRecords
  BY DEF TypeOK, Node, NodeRecords, Ages
<1> QED
  BY <1>1 DEF TypeOK, NodesType, MakeNode, Listed, Node, Ids

LEMMA ReturnsType == \A s \in DOMAIN Returns : Returns[s] \in PCs
BY DEF Returns, PCs

\* Where a task goes after its broadcast.
LEMMA BroadcastMoves ==
  ASSUME NEW c \in Conns, Broadcast(c)
  PROVE  \/ pc[c] = "started" /\ Stay(c, "adopt")
         \/ pc[c] = "stopped" /\ Stay(c, "release")
         \/ pc[c] \in {"updated", "selected"} /\ Stay(c, "idle")
         \/ pc[c] = "disconnected" /\ Stay(c, "closed")
<1>1. pc[c] \in {"started", "stopped", "updated", "disconnected", "selected"}
  BY DEF Broadcast, Returns
<1>2. /\ Returns["started"] = "adopt" /\ Returns["stopped"] = "release"
      /\ Returns["updated"] = "idle" /\ Returns["selected"] = "idle"
      /\ Returns["disconnected"] = "closed"
  BY DEF Returns
<1> QED
  BY <1>1, <1>2 DEF Broadcast

LEMMA FirstConnectedType ==
  ASSUME NEW ns, NEW n \in FirstConnected(ns)
  PROVE  n = None \/ n \in DOMAIN ns
BY DEF FirstConnected

\* A step of a connection's task.
LEMMA TaskStepType ==
  ASSUME TypeOK, NEW c \in Conns, TaskStep(c)
  PROVE  TypeOK'
<1> USE DEF TypeOK, StoredType, NodesType, Listed, core, database
<1>0. pc[c] \in PCs
  BY DEF TypeOK
<1>1. CASE LocalSessionStart(c)
  <2>1. PICK id \in LocalIds : /\ TakeUp(c, id) \/ MakeNode(c, id)
                               /\ arg' = [arg EXCEPT ![c] = id]
    BY <1>1 DEF LocalSessionStart
  <2>2. /\ NodesType' /\ selected' \in Ids \cup {None} /\ spent' \subseteq Uuids
    BY <2>1, TakeUpType, MakeNodeType
  <2>3. arg' \in [Conns -> LocalIds \cup {None}]
    BY <2>1, UpdateTypes
  <2>4. pc' \in [Conns -> PCs]
    BY <1>1, UpdateTypes DEF LocalSessionStart, PCs, Returns
  <2> QED
    BY <1>1, <2>2, <2>3, <2>4 DEF LocalSessionStart
<1>2. CASE Adopt(c)
  <2>1. arg[c] \in LocalIds \cup {None} /\ local[c] \in LocalIds \cup {None}
    OBVIOUS
  <2> QED
    BY <1>2, <2>1, UpdateTypes DEF Adopt, PCs
<1>3. CASE Claim(c)
  <2>1. owners' \in [LocalIds -> Conns \cup {None}]
    BY <1>3 DEF Claim
  <2> QED
    BY <1>3, <2>1, UpdateTypes DEF Claim, PCs
<1>4. CASE LocalSessionStop(c)
  <2>1. CASE local[c] \in Listed
    <3>1. NodesType' /\ Listed' \subseteq Listed
      BY <1>4, <2>1, WithoutType DEF LocalSessionStop
    <3>2. selected' \in Ids \cup {None}
      BY <1>4, <2>1, <3>1, FirstConnectedType DEF LocalSessionStop
    <3>3. pc' \in [Conns -> PCs]
      BY <1>4, <2>1, UpdateTypes DEF LocalSessionStop, PCs, Returns
    <3> QED
      BY <1>4, <3>1, <3>2, <3>3 DEF LocalSessionStop
  <2>2. CASE local[c] \notin Listed
    BY <1>4, <2>2, UpdateTypes DEF LocalSessionStop, PCs
  <2> QED
    BY <2>1, <2>2
<1>5. CASE Release(c)
  <2>1. owners' \in [LocalIds -> Conns \cup {None}]
    BY <1>5 DEF Release, Released
  <2> QED
    BY <1>5, <2>1, UpdateTypes DEF Release, PCs
<1>6. CASE LocalSessionUpdate(c)
  <2>1. NodesType'
    BY <1>6, MarkedType DEF LocalSessionUpdate, Ages
  <2>2. pc' \in [Conns -> PCs]
    BY <1>6, UpdateTypes DEF LocalSessionUpdate, PCs, Returns
  <2> QED
    BY <1>6, <2>1, <2>2 DEF LocalSessionUpdate
<1>7. CASE LocalSessionDisconnect(c)
  <2>1. NodesType'
    BY <1>7, MarkedType DEF LocalSessionDisconnect, Ages
  <2>2. pc' \in [Conns -> PCs]
    BY <1>7, UpdateTypes DEF LocalSessionDisconnect, PCs, Returns
  <2> QED
    BY <1>7, <2>1, <2>2, UpdateTypes DEF LocalSessionDisconnect
<1>8. CASE Broadcast(c)
  <2>1. StoredType'
    BY <1>8, SnapshotType DEF Broadcast
  <2>2. pc' \in [Conns -> PCs]
    BY <1>8, UpdateTypes, ReturnsType DEF Broadcast
  <2> QED
    BY <1>8, <2>1, <2>2 DEF Broadcast
<1> QED
  BY <1>1, <1>2, <1>3, <1>4, <1>5, <1>6, <1>7, <1>8 DEF TaskStep

\* A message or the end of a connection.
LEMMA ClientStepType ==
  ASSUME TypeOK, NEW c \in Conns, ClientStep(c)
  PROVE  TypeOK'
<1> USE DEF TypeOK, StoredType, NodesType, Listed, core, database
<1>1. CASE Accept(c)
  BY <1>1, UpdateTypes DEF Accept, PCs
<1>2. ASSUME NEW d \in Devices \cup {None}, RequestStart(c, d)
      PROVE  TypeOK'
  <2>1. d \in LocalIds \cup {None}
    BY DEF LocalIds
  <2> QED
    BY <1>2, <2>1, UpdateTypes DEF RequestStart, PCs
<1>3. ASSUME NEW op \in {"stop", "update"}, RequestOwned(c, op)
      PROVE  TypeOK'
  BY <1>3, UpdateTypes DEF RequestOwned, PCs
<1>4. ASSUME NEW id \in Ids, SelectNode(c, id)
      PROVE  TypeOK'
  BY <1>4, UpdateTypes DEF SelectNode, PCs, Returns
<1>5. CASE Close(c)
  <2>1. owners' \in [LocalIds -> Conns \cup {None}]
    BY <1>5 DEF Close, Released
  <2> QED
    BY <1>5, <2>1, UpdateTypes DEF Close, PCs
<1> QED
  BY <1>1, <1>2, <1>3, <1>4, <1>5 DEF ClientStep

LEMMA NextType == TypeOK /\ [Next]_vars => TypeOK'
<1> SUFFICES ASSUME TypeOK, [Next]_vars PROVE TypeOK'
  OBVIOUS
<1> USE DEF TypeOK, StoredType, NodesType, Listed, core, tasks, database
<1>1. ASSUME NEW c \in Conns, TaskStep(c) \/ ClientStep(c)
      PROVE  TypeOK'
  BY <1>1, TaskStepType, ClientStepType
<1>2. CASE CleanupDisconnectedNodes
  <2>1. NodesType' /\ Listed' \subseteq Listed
    BY <1>2, WithoutType DEF CleanupDisconnectedNodes
  <2>2. selected' \in Ids \cup {None}
    BY <1>2, <2>1, FirstConnectedType DEF CleanupDisconnectedNodes
  <2> QED
    BY <1>2, <2>1, <2>2 DEF CleanupDisconnectedNodes
<1>3. CASE CleanerBroadcast
  BY <1>3, SnapshotType DEF CleanerBroadcast
<1>4. ASSUME NEW id \in Ids, Expire(id)
      PROVE  TypeOK'
  <2>1. nodes[id].connected \in BOOLEAN /\ id \in Listed
    BY <1>4 DEF Expire, NodeRecords
  <2>2. NodesType'
    BY <1>4, <2>1, MarkedType DEF Expire, Ages
  <2> QED
    BY <1>4, <2>2 DEF Expire
<1>5. ASSUME NEW id \in Ids, RemoteChanges(id)
      PROVE  TypeOK'
  <2>1. (~ nodes[id].connected) \in BOOLEAN /\ nodes[id].at \in Ages /\ id \in Listed
    BY <1>5 DEF RemoteChanges, NodeRecords
  <2>2. NodesType'
    BY <1>5, <2>1, MarkedType DEF RemoteChanges
  <2> QED
    BY <1>5, <2>2 DEF RemoteChanges
<1>6. CASE Restart
  <2>1. StoredType'
    BY <1>6, SnapshotType DEF Restart
  <2>2. NodesType'
    BY <1>6, <2>1, RestoredType DEF Restart
  <2>3. restarts' \in 0 .. MaxRestarts
    BY <1>6, MaxRestartsAssumption DEF Restart
  <2>4. mixed' \in BOOLEAN
    BY <1>6 DEF Restart
  <2> QED
    BY <1>6, <2>1, <2>2, <2>3, <2>4 DEF Restart, PCs
<1>7. CASE UNCHANGED vars
  BY <1>7 DEF vars
<1> QED
  BY <1>1, <1>2, <1>3, <1>4, <1>5, <1>6, <1>7 DEF Next

(* Every variable keeps its type.                                          *)
THEOREM TypeCorrect == Spec => []TypeOK
<1>1. Init => TypeOK
  BY InitType
<1>2. TypeOK /\ [Next]_vars => TypeOK'
  BY NextType
<1> QED
  BY <1>1, <1>2, PTL DEF Spec

-----------------------------------------------------------------------------
(* Ownership.  OwnersHoldTheirSession is inductive together with TasksOK:  *)
(* a claim is made for the session just adopted, and whatever a connection *)
(* gives up it has released.                                               *)

LEMMA NextTasksOK == TypeOK /\ TasksOK /\ [Next]_vars => TasksOK'
<1> SUFFICES ASSUME TypeOK, TasksOK, [Next]_vars PROVE TasksOK'
  OBVIOUS
<1> USE IdsAssumption DEF TypeOK, TasksOK, Stay, Returns
<1>1. ASSUME NEW c \in Conns, TaskStep(c)
      PROVE  TasksOK'
  <2>1. CASE LocalSessionStart(c)
    BY <2>1 DEF LocalSessionStart, Ids
  <2>2. CASE Adopt(c)
    BY <2>2 DEF Adopt
  <2>3. CASE Claim(c)
    BY <2>3 DEF Claim
  <2>4. CASE LocalSessionStop(c)
    BY <2>4 DEF LocalSessionStop
  <2>5. CASE Release(c)
    BY <2>5 DEF Release
  <2>6. CASE LocalSessionUpdate(c)
    BY <2>6 DEF LocalSessionUpdate
  <2>7. CASE LocalSessionDisconnect(c)
    BY <2>7 DEF LocalSessionDisconnect
  <2>8. CASE Broadcast(c)
    BY <2>8 DEF Broadcast
  <2> QED
    BY <1>1, <2>1, <2>2, <2>3, <2>4, <2>5, <2>6, <2>7, <2>8 DEF TaskStep
<1>2. ASSUME NEW c \in Conns, ClientStep(c)
      PROVE  TasksOK'
  <2>1. CASE Accept(c)
    BY <2>1 DEF Accept
  <2>2. ASSUME NEW d \in Devices \cup {None}, RequestStart(c, d)
        PROVE  TasksOK'
    BY <2>2 DEF RequestStart
  <2>3. ASSUME NEW op \in {"stop", "update"}, RequestOwned(c, op)
        PROVE  TasksOK'
    BY <2>3 DEF RequestOwned
  <2>4. ASSUME NEW id \in Ids, SelectNode(c, id)
        PROVE  TasksOK'
    BY <2>4 DEF SelectNode
  <2>5. CASE Close(c)
    BY <2>5 DEF Close
  <2> QED
    BY <1>2, <2>1, <2>2, <2>3, <2>4, <2>5 DEF ClientStep
<1>3. CASE Restart
  BY <1>3 DEF Restart
<1>4. CASE UNCHANGED tasks
  BY <1>4 DEF tasks
<1> QED
  BY <1>1, <1>2, <1>3, <1>4
  DEF Next, CleanupDisconnectedNodes, CleanerBroadcast, Expire, RemoteChanges, vars, tasks

LEMMA NextOwners ==
  TypeOK /\ TasksOK /\ OwnersHoldTheirSession /\ [Next]_vars => OwnersHoldTheirSession'
<1> SUFFICES ASSUME TypeOK, TasksOK, OwnersHoldTheirSession, [Next]_vars
             PROVE  OwnersHoldTheirSession'
  OBVIOUS
<1> USE IdsAssumption DEF TypeOK, TasksOK, OwnersHoldTheirSession, Stay, Returns, Ids
<1>1. ASSUME NEW c \in Conns, TaskStep(c)
      PROVE  OwnersHoldTheirSession'
  <2>1. CASE LocalSessionStart(c)
    BY <2>1 DEF LocalSessionStart
  <2>2. CASE Adopt(c)
    BY <2>2 DEF Adopt, Released
  <2>3. CASE Claim(c)
    BY <2>3 DEF Claim
  <2>4. CASE LocalSessionStop(c)
    BY <2>4 DEF LocalSessionStop
  <2>5. CASE Release(c)
    BY <2>5 DEF Release, Released
  <2>6. CASE LocalSessionUpdate(c)
    <3>1. /\ UNCHANGED <<owners, local>>
          /\ Stay(c, "updated") \/ Stay(c, "release")
      BY <2>6 DEF LocalSessionUpdate
    <3> QED
      BY <3>1
  <2>7. CASE LocalSessionDisconnect(c)
    <3>1. /\ UNCHANGED owners /\ pc[c] = "disconnect"
          /\ local' = [local EXCEPT ![c] = None]
          /\ Stay(c, "disconnected") \/ Stay(c, "closed")
      BY <2>7 DEF LocalSessionDisconnect
    <3>2. \A id \in LocalIds : owners[id] # c
      BY <3>1
    <3> QED
      BY <3>1, <3>2
  <2>8. CASE Broadcast(c)
    <3>1. /\ UNCHANGED <<owners, local>>
          /\ \/ Stay(c, "adopt") \/ Stay(c, "release") \/ Stay(c, "idle")
             \/ pc[c] = "disconnected" /\ Stay(c, "closed")
      BY <2>8, BroadcastMoves DEF Broadcast
    <3>2. pc[c] = "disconnected" => \A id \in LocalIds : owners[id] # c
      OBVIOUS
    <3> QED
      BY <3>1, <3>2
  <2> QED
    BY <1>1, <2>1, <2>2, <2>3, <2>4, <2>5, <2>6, <2>7, <2>8 DEF TaskStep
<1>2. ASSUME NEW c \in Conns, ClientStep(c)
      PROVE  OwnersHoldTheirSession'
  <2>1. CASE Accept(c)
    BY <2>1 DEF Accept
  <2>2. ASSUME NEW d \in Devices \cup {None}, RequestStart(c, d)
        PROVE  OwnersHoldTheirSession'
    BY <2>2 DEF RequestStart
  <2>3. ASSUME NEW op \in {"stop", "update"}, RequestOwned(c, op)
        PROVE  OwnersHoldTheirSession'
    BY <2>3 DEF RequestOwned
  <2>4. ASSUME NEW id \in Ids, SelectNode(c, id)
        PROVE  OwnersHoldTheirSession'
    BY <2>4 DEF SelectNode
  <2>5. CASE Close(c)
    BY <2>5 DEF Close, Released
  <2> QED
    BY <1>2, <2>1, <2>2, <2>3, <2>4, <2>5 DEF ClientStep
<1>3. CASE Restart
  BY <1>3 DEF Restart
<1>4. CASE UNCHANGED <<owners, tasks>>
  BY <1>4 DEF tasks
<1> QED
  BY <1>1, <1>2, <1>3, <1>4
  DEF Next, CleanupDisconnectedNodes, CleanerBroadcast, Expire, RemoteChanges, vars, tasks

(* A session is owned by an open connection that holds it (server.rs:      *)
(* claim_local_session_owner, release_local_session_owner and their uses). *)
THEOREM OwnersAlwaysHold == Spec => []OwnersHoldTheirSession
<1> DEFINE Inv == TypeOK /\ TasksOK /\ OwnersHoldTheirSession
<1>1. Init => Inv
  BY InitType, IdsAssumption DEF Init, TasksOK, OwnersHoldTheirSession, Ids
<1>2. Inv /\ [Next]_vars => Inv'
  BY NextType, NextTasksOK, NextOwners
<1> QED
  BY <1>1, <1>2, PTL DEF Spec

-----------------------------------------------------------------------------
(* Deduplication.                                                          *)

\* What HeldNodeIsTheOnlyOne says, without the set of the device's nodes.
OnlyNode(id) ==
    \A n \in Listed \ Remotes : nodes[n].device = nodes[id].device => n = id

HeldNodesAreOnly ==
    \A c \in Conns, id \in Listed \cap LocalIds :
        Holds(c, id) /\ nodes[id].device # None => OnlyNode(id)

LEMMA HeldIsOnly == TypeOK /\ HeldNodesAreOnly => HeldNodeIsTheOnlyOne
<1> SUFFICES ASSUME TypeOK, HeldNodesAreOnly, NEW c \in Conns, NEW id \in Listed,
                    Holds(c, id), nodes[id].device # None
             PROVE  NodesOf(nodes[id].device) = {id}
  BY DEF HeldNodeIsTheOnlyOne
<1>1. id \in LocalIds
  BY IdsAssumption DEF TypeOK, NodesType, Holds, Ids
<1>2. OnlyNode(id)
  BY <1>1 DEF HeldNodesAreOnly
<1> QED
  BY <1>1, <1>2, IdsAssumption DEF OnlyNode, NodesOf, NodeType

\* A step that removes nodes, or leaves them with their devices, and gives
\* no connection a session it did not hold.
LEMMA OnlyNodesStay ==
  ASSUME HeldNodesAreOnly,
         Listed' \subseteq Listed,
         \A n \in Listed' : nodes'[n].device = nodes[n].device,
         \A c \in Conns, id \in LocalIds : Holds(c, id)' => Holds(c, id)
  PROVE  HeldNodesAreOnly'
<1> SUFFICES ASSUME NEW c \in Conns, NEW id \in Listed' \cap LocalIds,
                    Holds(c, id)', nodes'[id].device # None
             PROVE  OnlyNode(id)'
  BY DEF HeldNodesAreOnly
<1>1. OnlyNode(id)
  BY DEF HeldNodesAreOnly
<1> QED
  BY <1>1 DEF OnlyNode

LEMMA StartKeepsOnlyNodes ==
  ASSUME TypeOK, HeldNodesAreOnly, NEW c \in Conns, LocalSessionStart(c)
  PROVE  HeldNodesAreOnly'
<1>1. PICK id \in LocalIds : /\ TakeUp(c, id) \/ MakeNode(c, id)
                             /\ arg' = [arg EXCEPT ![c] = id]
  BY DEF LocalSessionStart
<1> SUFFICES ASSUME NEW k \in Conns, NEW x \in Listed' \cap LocalIds,
                    Holds(k, x)', nodes'[x].device # None,
                    NEW n \in Listed' \ Remotes, nodes'[n].device = nodes'[x].device
             PROVE  n = x
  BY DEF HeldNodesAreOnly, OnlyNode
<1>2. x = id \/ Holds(k, x)
  BY <1>1 DEF LocalSessionStart, Holds, Stay, TypeOK
<1>3. x # id /\ x \in Listed /\ nodes[x] = nodes'[x] => OnlyNode(x)
  BY <1>2 DEF HeldNodesAreOnly
<1>4. CASE TakeUp(c, id)
  BY <1>3, <1>4, TakeUpType, IdsAssumption DEF NodesOf, NodeType, OnlyNode
<1>5. CASE MakeNode(c, id)
  <2>1. NodesOf(arg[c]) = {} \/ arg[c] = None
    BY <1>5 DEF MakeNode
  <2> QED
    BY <1>3, <1>5, <2>1, MakeNodeType, IdsAssumption DEF NodesOf, NodeType, OnlyNode
<1> QED
  BY <1>1, <1>4, <1>5

LEMMA TaskStepKeepsOnlyNodes ==
  ASSUME TypeOK, TasksOK, HeldNodesAreOnly, NEW c \in Conns, TaskStep(c)
  PROVE  HeldNodesAreOnly'
<1>1. CASE LocalSessionStart(c)
  BY <1>1, StartKeepsOnlyNodes
<1> USE IdsAssumption DEF TypeOK, Holds, Stay, Ids
<1>2. CASE Adopt(c) \/ Claim(c) \/ Release(c)
  <2>1. UNCHANGED nodes
    BY <1>2 DEF Adopt, Claim, Release, core
  <2>2. \A k \in Conns, id \in LocalIds : Holds(k, id)' => Holds(k, id)
    BY <1>2 DEF Adopt, Claim, Release, TasksOK
  <2> QED
    BY <2>1, <2>2, OnlyNodesStay DEF Listed
<1>3. CASE LocalSessionStop(c)
  <2>1. /\ Listed' \subseteq Listed
        /\ \A n \in Listed' : nodes'[n].device = nodes[n].device
    BY <1>3, WithoutType DEF LocalSessionStop, core, Listed
  <2>2. \A k \in Conns, id \in LocalIds : Holds(k, id)' => Holds(k, id)
    BY <1>3 DEF LocalSessionStop
  <2> QED
    BY <2>1, <2>2, OnlyNodesStay
<1>4. CASE LocalSessionUpdate(c)
  <2>1. /\ Listed' \subseteq Listed
        /\ \A n \in Listed' : nodes'[n].device = nodes[n].device
    BY <1>4, MarkedType DEF LocalSessionUpdate, Listed, Ages
  <2>2. \A k \in Conns, id \in LocalIds : Holds(k, id)' => Holds(k, id)
    <3>1. UNCHANGED <<local, arg>> /\ (Stay(c, "updated") \/ Stay(c, "release"))
      BY <1>4 DEF LocalSessionUpdate
    <3> QED
      BY <3>1
  <2> QED
    BY <2>1, <2>2, OnlyNodesStay
<1>5. CASE LocalSessionDisconnect(c)
  <2>1. /\ Listed' \subseteq Listed
        /\ \A n \in Listed' : nodes'[n].device = nodes[n].device
    BY <1>5, MarkedType DEF LocalSessionDisconnect, Listed, Ages
  <2>2. \A k \in Conns, id \in LocalIds : Holds(k, id)' => Holds(k, id)
    <3>1. /\ local' = [local EXCEPT ![c] = None] /\ UNCHANGED arg
          /\ Stay(c, "disconnected") \/ Stay(c, "closed")
      BY <1>5 DEF LocalSessionDisconnect
    <3> QED
      BY <3>1
  <2> QED
    BY <2>1, <2>2, OnlyNodesStay
<1>6. CASE Broadcast(c)
  <2>1. UNCHANGED <<nodes, local, arg>>
    BY <1>6 DEF Broadcast, core
  <2>2. \A k \in Conns, id \in LocalIds : Holds(k, id)' => Holds(k, id)
    BY <1>6, <2>1, BroadcastMoves
  <2> QED
    BY <2>1, <2>2, OnlyNodesStay DEF Listed
<1> QED
  BY <1>1, <1>2, <1>3, <1>4, <1>5, <1>6 DEF TaskStep

LEMMA ClientStepKeepsOnlyNodes ==
  ASSUME TypeOK, HeldNodesAreOnly, NEW c \in Conns, ClientStep(c)
  PROVE  HeldNodesAreOnly'
<1>1. UNCHANGED nodes
  BY DEF ClientStep, Accept, RequestStart, RequestOwned, SelectNode, Close, core
<1>2. \A k \in Conns, id \in LocalIds : Holds(k, id)' => Holds(k, id)
  <2>1. /\ pc[c] \in {"new", "idle"}
        /\ \A k \in Conns : k # c => arg'[k] = arg[k] /\ pc'[k] = pc[k]
        /\ pc'[c] \in {"idle", "start", "stop", "update", "selected", "closed", "disconnect"}
    BY DEF ClientStep, Accept, RequestStart, RequestOwned, SelectNode, Close, Stay, TypeOK
  <2>2. \A k \in Conns, id \in LocalIds : local'[k] = id => local[k] = id
    BY IdsAssumption
    DEF ClientStep, Accept, RequestStart, RequestOwned, SelectNode, Close, TypeOK, Ids
  <2> QED
    BY <2>1, <2>2 DEF Holds
<1> QED
  BY <1>1, <1>2, OnlyNodesStay DEF Listed

LEMMA NextKeepsOnlyNodes ==
  TypeOK /\ TasksOK /\ HeldNodesAreOnly /\ [Next]_vars => HeldNodesAreOnly'
<1> SUFFICES ASSUME TypeOK, TasksOK, HeldNodesAreOnly, [Next]_vars
             PROVE  HeldNodesAreOnly'
  OBVIOUS
<1>1. ASSUME NEW c \in Conns, TaskStep(c) \/ ClientStep(c)
      PROVE  HeldNodesAreOnly'
  BY <1>1, TaskStepKeepsOnlyNodes, ClientStepKeepsOnlyNodes
<1>2. CASE Restart
  BY <1>2, IdsAssumption DEF Restart, HeldNodesAreOnly, Holds, TypeOK, Ids
<1>3. CASE UNCHANGED tasks
  <2>1. \A c \in Conns, id \in LocalIds : Holds(c, id)' => Holds(c, id)
    BY <1>3 DEF tasks, Holds
  <2>2. CASE CleanupDisconnectedNodes
    BY <2>1, <2>2, WithoutType, OnlyNodesStay DEF CleanupDisconnectedNodes, TypeOK
  <2>3. ASSUME NEW id \in Ids, Expire(id)
        PROVE  HeldNodesAreOnly'
    <3>1. nodes[id].connected \in BOOLEAN /\ id \in Listed
      BY <2>3 DEF Expire, TypeOK, NodesType, NodeRecords
    <3> QED
      BY <2>1, <2>3, <3>1, MarkedType, OnlyNodesStay DEF Expire, TypeOK, Ages
  <2>4. ASSUME NEW id \in Ids, RemoteChanges(id)
        PROVE  HeldNodesAreOnly'
    <3>1. /\ (~ nodes[id].connected) \in BOOLEAN /\ nodes[id].at \in Ages
          /\ id \in Listed
      BY <2>4 DEF RemoteChanges, TypeOK, NodesType, NodeRecords
    <3> QED
      BY <2>1, <2>4, <3>1, MarkedType, OnlyNodesStay DEF RemoteChanges, TypeOK
  <2>5. CASE UNCHANGED nodes
    BY <2>1, <2>5, OnlyNodesStay DEF Listed
  <2> QED
    BY <1>1, <1>2, <2>2, <2>3, <2>4, <2>5 DEF Next, CleanerBroadcast, vars, core
<1> QED
  BY <1>1, <1>2, <1>3
  DEF Next, CleanupDisconnectedNodes, CleanerBroadcast, Expire, RemoteChanges, vars

(* Whichever connections start sessions for a device, and whatever is left *)
(* of it in the database, a session that is held is the device's only node *)
(* (Core::local_session_start).                                            *)
THEOREM HeldNodeIsAlwaysTheOnlyOne == Spec => []HeldNodeIsTheOnlyOne
<1> DEFINE Inv == TypeOK /\ TasksOK /\ HeldNodesAreOnly
<1>1. Init => Inv
  BY InitType, IdsAssumption DEF Init, TasksOK, HeldNodesAreOnly, Holds, Ids
<1>2. Inv /\ [Next]_vars => Inv'
  BY NextType, NextTasksOK, NextKeepsOnlyNodes
<1>3. Inv => HeldNodeIsTheOnlyOne
  BY HeldIsOnly
<1> QED
  BY <1>1, <1>2, <1>3, PTL DEF Spec

-----------------------------------------------------------------------------
(* The selection.                                                          *)

LEMMA NextSelection == TypeOK /\ SelectionInv /\ [Next]_vars => SelectionInv'
<1> SUFFICES ASSUME TypeOK, SelectionInv, [Next]_vars PROVE SelectionInv'
  OBVIOUS
<1> USE DEF SelectionInv, SelectedIsListed, StoredSelectionIsListed
<1>1. ASSUME UNCHANGED <<selected, database>>, Listed' = Listed
      PROVE  SelectionInv'
  BY <1>1 DEF database
<1>2. ASSUME UNCHANGED <<core, mixed>>, stored' = Snapshot
      PROVE  SelectionInv'
  BY <1>2 DEF core, Snapshot, Listed
<1>3. ASSUME NEW ids, nodes' = Without(ids), UNCHANGED database,
             selected' \in IF selected \in ids THEN FirstConnected(nodes') ELSE {selected}
      PROVE  SelectionInv'
  <2>1. Listed' = Listed \ ids
    BY <1>3, WithoutType DEF TypeOK
  <2> QED
    BY <1>3, <2>1, FirstConnectedType DEF Listed, database
<1>4. ASSUME NEW c \in Conns, TaskStep(c)
      PROVE  SelectionInv'
  <2>1. CASE LocalSessionStart(c)
    <3>1. PICK id \in LocalIds : TakeUp(c, id) \/ MakeNode(c, id)
      BY <2>1 DEF LocalSessionStart
    <3>2. CASE TakeUp(c, id)
      <4>1. selected' = IF selected \in NodesOf(arg[c]) \ {id} THEN id ELSE selected
        BY <3>2 DEF TakeUp
      <4>2. Listed' = Listed \ (NodesOf(arg[c]) \ {id}) /\ id \in Listed
        BY <3>2, TakeUpType
      <4>3. UNCHANGED <<stored, mixed>>
        BY <2>1 DEF LocalSessionStart, database
      <4> QED
        BY <4>1, <4>2, <4>3
    <3>3. CASE MakeNode(c, id)
      BY <2>1, <3>3, MakeNodeType DEF LocalSessionStart, MakeNode, database
    <3> QED
      BY <3>1, <3>2, <3>3
  <2>2. CASE Adopt(c) \/ Claim(c) \/ Release(c)
    BY <1>1, <2>2 DEF Adopt, Claim, Release, core, Listed
  <2>3. CASE LocalSessionStop(c)
    <3>1. CASE local[c] \in Listed
      <4>1. selected' \in IF selected \in {local[c]} THEN FirstConnected(nodes')
                                                    ELSE {selected}
        BY <2>3, <3>1 DEF LocalSessionStop
      <4> QED
        BY <1>3, <2>3, <3>1, <4>1 DEF LocalSessionStop
    <3>2. CASE local[c] \notin Listed
      BY <1>1, <2>3, <3>2 DEF LocalSessionStop, core, Listed
    <3> QED
      BY <3>1, <3>2
  <2>4. CASE LocalSessionUpdate(c) \/ LocalSessionDisconnect(c)
    <3>1. Listed' = Listed
      BY <2>4, MarkedType DEF LocalSessionUpdate, LocalSessionDisconnect, TypeOK, Ages, Listed
    <3> QED
      BY <1>1, <2>4, <3>1 DEF LocalSessionUpdate, LocalSessionDisconnect
  <2>5. CASE Broadcast(c)
    BY <1>2, <2>5 DEF Broadcast
  <2> QED
    BY <1>4, <2>1, <2>2, <2>3, <2>4, <2>5 DEF TaskStep
<1>5. ASSUME NEW c \in Conns, ClientStep(c)
      PROVE  SelectionInv'
  <2>1. ASSUME NEW id \in Ids, SelectNode(c, id)
        PROVE  SelectionInv'
    BY <2>1 DEF SelectNode, Listed, database
  <2>2. CASE UNCHANGED <<core, database>>
    BY <1>1, <2>2 DEF core, Listed
  <2> QED
    BY <1>5, <2>1, <2>2 DEF ClientStep, Accept, RequestStart, RequestOwned, Close
<1>6. CASE CleanupDisconnectedNodes
  BY <1>3, <1>6 DEF CleanupDisconnectedNodes
<1>7. CASE CleanerBroadcast
  BY <1>2, <1>7 DEF CleanerBroadcast
<1>8. ASSUME NEW id \in Ids, Expire(id) \/ RemoteChanges(id)
      PROVE  SelectionInv'
  <2>1. /\ nodes[id].connected \in BOOLEAN /\ (~ nodes[id].connected) \in BOOLEAN
        /\ nodes[id].at \in Ages /\ id \in Listed
    BY <1>8 DEF Expire, RemoteChanges, TypeOK, NodesType, NodeRecords
  <2>2. Listed' = Listed
    BY <1>8, <2>1, MarkedType DEF Expire, RemoteChanges, TypeOK, Ages
  <2> QED
    BY <1>1, <1>8, <2>2 DEF Expire, RemoteChanges
<1>9. CASE Restart
  <2>1. Listed' = DOMAIN stored'.rows /\ selected' = stored'.selected
    BY <1>9 DEF Restart, Restored, Listed
  <2>2. ~ mixed' => ~ mixed /\ stored' \in {stored, Snapshot}
    BY <1>9 DEF Restart, TypeOK
  <2>3. DOMAIN Snapshot.rows = Listed /\ Snapshot.selected = selected
    BY DEF Snapshot
  <2> QED
    BY <2>1, <2>2, <2>3
<1>10. CASE UNCHANGED vars
  BY <1>1, <1>10 DEF vars, core, Listed
<1> QED
  BY <1>4, <1>5, <1>6, <1>7, <1>8, <1>9, <1>10 DEF Next

(* The selection is never left on a node that is no longer listed, not     *)
(* after a restart either, unless the server stopped in the middle of a    *)
(* save (local_session_stop, cleanup_disconnected_nodes,                   *)
(* local_session_start, persist, restore_state).                           *)
THEOREM SelectedIsAlwaysListed == Spec => []SelectedIsListed
<1> DEFINE Inv == TypeOK /\ SelectionInv
<1>1. Init => Inv
  <2>1. Init => SelectionInv
    BY DEF Init, SelectionInv, SelectedIsListed, StoredSelectionIsListed, Listed,
           FirstDatabase, Restored
  <2> QED
    BY <2>1, InitType
<1>2. Inv /\ [Next]_vars => Inv'
  BY NextType, NextSelection
<1>3. Inv => SelectedIsListed
  BY DEF SelectionInv
<1> QED
  BY <1>1, <1>2, <1>3, PTL DEF Spec
=============================================================================
