--------------------------- MODULE LocalSessions ---------------------------
(***************************************************************************)
(* Local playback sessions.  A device that plays by itself opens a session *)
(* over its client connection; the core lists it as a node of type Local,  *)
(* the WebSocket adapter remembers which connection owns it, and a node    *)
(* whose connection was lost is kept for a while so that the device can    *)
(* come back to it.                                                        *)
(*                                                                         *)
(* Every connection has a task that handles one message at a time; it      *)
(* awaits between its look at the owners, the call of the core, and the    *)
(* broadcast at the end of the call, and other tasks run in between.  A    *)
(* broadcast persists the state row by row, and the server may crash       *)
(* between any two of these steps and restart from what was saved.         *)
(*                                                                         *)
(* Left out: what a session plays, names, a save that fails though the     *)
(* server runs on (Fanout has it), and the order of the nodes ("the first  *)
(* node such that" is any such node here).  "local-" ++ device is modelled *)
(* by the device itself.                                                   *)
(***************************************************************************)
EXTENDS Naturals, FiniteSets

CONSTANTS
    Conns,       \* client connections, each accepted at most once
    Devices,     \* the device ids that clients send
    Uuids,       \* the ids made for sessions started without a device id
    Duplicates,  \* node ids of an older database for the device OldDevice
    OldDevice,
    Remotes,     \* ids of remote nodes, listed all the time
    MaxRestarts, \* bound: restarts of the server
    None

LocalIds == Devices \cup Uuids \cup Duplicates
Ids      == LocalIds \cup Remotes

ASSUME IdsAssumption ==
    /\ None \notin Ids \cup Conns
    /\ LocalIds \cap Remotes = {}
    /\ Devices \cap Uuids = {}
    /\ Duplicates \cap (Devices \cup Uuids) = {}
    /\ OldDevice \in Devices
ASSUME MaxRestartsAssumption == MaxRestarts \in Nat

VARIABLES
    nodes,     \* PlaybackState.nodes: connected, device_id, disconnected_at
    selected,  \* selected_node_id
    owners,    \* AppState.local_session_owners
    local,     \* the local_node_id of each connection's task
    pc,        \* where each connection's task is
    arg,       \* the device id of the start, then the node id it returned
    cleaner,   \* where the cleanup task is
    stored,    \* the node rows and the selection in the database
    mixed,     \* history: whether a restart met a snapshot saved half-way
    spent,     \* the uuids made so far
    restarts   \* bound

core     == <<nodes, selected>>
tasks    == <<local, pc, arg>>
database == <<stored, mixed>>
vars     == <<core, owners, tasks, cleaner, database, spent, restarts>>

NodeType(id) == IF id \in Remotes THEN "remote" ELSE "local"

Node(connected, device, at) ==
    [connected |-> connected, device |-> device, at |-> at]

(* disconnected_at is a time; only whether it is max_age ago is told apart. *)
Ages == {None, "recent", "expired"}

Listed       == DOMAIN nodes
NodesOf(d)   == {id \in Listed : NodeType(id) = "local" /\ nodes[id].device = d}
Without(ids) == [id \in Listed \ ids |-> nodes[id]]
Marked(id, connected, at) ==
    [nodes EXCEPT ![id] = Node(connected, nodes[id].device, at)]

(* What find(|n| n.connected) may return from the nodes ns.                *)
FirstConnected(ns) ==
    LET up == {id \in DOMAIN ns : ns[id].connected}
    IN  IF up = {} THEN {None} ELSE up

Stay(c, next) == pc' = [pc EXCEPT ![c] = next]

Released(c, id) == [owners EXCEPT ![id] = IF @ = c THEN None ELSE @]

-----------------------------------------------------------------------------
(* What the database holds, and what a server makes of it when it starts.  *)
(* A Local node without device_id gets the rest of its id for one.         *)

Row(n) == [device |-> n.device, at |-> n.at]

Snapshot == [rows |-> [id \in Listed |-> Row(nodes[id])], selected |-> selected]

(* DatabaseStatePersister::persist commits the selection, the row of each  *)
(* node and the removal of the other rows one by one: what is left of it   *)
(* when it stops after the rows of ids, or before the selection.           *)
PartOf(s, db, ids) ==
    [rows     |-> [id \in ids \cup DOMAIN db.rows |->
                     IF id \in ids THEN s.rows[id] ELSE db.rows[id]],
     selected |-> s.selected]

PartlySaved(s, db) == {db} \cup {PartOf(s, db, ids) : ids \in SUBSET DOMAIN s.rows}

\* Mutant: a remote node gets a device id, too.
WrongRestoredNode(id, row) ==
    Node(FALSE, IF row.device = None THEN id ELSE row.device, row.at)

RestoredNode(id, row) ==
    Node(FALSE,
         IF NodeType(id) = "local" /\ row.device = None THEN id ELSE row.device,
         row.at)

Restored(db) == [id \in DOMAIN db.rows |-> RestoredNode(id, db.rows[id])]

(* A database with the remote nodes and what a device left behind: its node *)
(* and perhaps duplicates of it.                                           *)
FirstDatabase(left, sel) ==
    [rows |-> [id \in Remotes \cup left |->
                 [device |-> IF id \in left THEN OldDevice ELSE None, at |-> None]],
     selected |-> sel]

Init ==
    /\ \E left \in SUBSET ({OldDevice} \cup Duplicates), sel \in Remotes \cup {None} :
         stored = FirstDatabase(left, sel)
    /\ nodes = Restored(stored)
    /\ selected = stored.selected
    /\ mixed = FALSE
    /\ owners = [id \in LocalIds |-> None]
    /\ local = [c \in Conns |-> None]
    /\ pc = [c \in Conns |-> "new"]
    /\ arg = [c \in Conns |-> None]
    /\ cleaner = "waiting"
    /\ spent = {}
    /\ restarts = 0

-----------------------------------------------------------------------------
(* broadcast, the end of most calls: the state is pushed to the clients    *)
(* and persisted, then the call returns to where it was made.  The snapshot *)
(* is taken and saved in one action, which Restart may cut short (Fanout   *)
(* has the two apart, and the failures of a save).                         *)

Returns ==
    [started |-> "adopt", stopped |-> "release", updated |-> "idle",
     disconnected |-> "closed", selected |-> "idle"]

Broadcast(c) ==
    /\ pc[c] \in DOMAIN Returns
    /\ stored' = Snapshot
    /\ Stay(c, Returns[pc[c]])
    /\ UNCHANGED <<core, owners, local, arg, cleaner, mixed, spent, restarts>>

CleanerBroadcast ==
    /\ cleaner = "cleaned"
    /\ stored' = Snapshot
    /\ cleaner' = "waiting"
    /\ UNCHANGED <<core, owners, tasks, mixed, spent, restarts>>

-----------------------------------------------------------------------------
(* Connections *)

Accept(c) ==
    /\ pc[c] = "new"
    /\ Stay(c, "idle")
    /\ UNCHANGED <<core, owners, local, arg, cleaner, database, spent, restarts>>

(* local_session_start with a device id is refused while another           *)
(* connection owns a node of that device; a refusal changes nothing.       *)
Conflict(c, d) ==
    d # None /\ \E id \in NodesOf(d) : owners[id] \notin {None, c}

RequestStart(c, d) ==
    /\ pc[c] = "idle"
    /\ ~ Conflict(c, d)
    /\ arg' = [arg EXCEPT ![c] = d]
    /\ Stay(c, "start")
    /\ UNCHANGED <<core, owners, local, cleaner, database, spent, restarts>>

\* Mutant: the duplicates stay.
WrongTakeUp(c, id) ==
    LET d == arg[c]
    IN  /\ d # None /\ id \in NodesOf(d)
        /\ nodes[id].connected \/ \A other \in NodesOf(d) : ~ nodes[other].connected
        /\ nodes' = [nodes EXCEPT ![id] = Node(TRUE, d, None)]
        /\ UNCHANGED <<selected, spent>>

(* Core::local_session_start: the device's node is taken up again and its  *)
(* duplicates are dropped, under one lock.  (What follows drops their      *)
(* outputs and projections, which local nodes do not have.)                *)
TakeUp(c, id) ==
    LET d   == arg[c]
        dup == NodesOf(d) \ {id}
    IN  /\ d # None /\ id \in NodesOf(d)
        /\ nodes[id].connected \/ \A other \in NodesOf(d) : ~ nodes[other].connected
        /\ nodes' = [Without(dup) EXCEPT ![id] = Node(TRUE, d, None)]
        /\ selected' = IF selected \in dup THEN id ELSE selected
        /\ UNCHANGED spent

(* ... or a node is made for it.                                           *)
MakeNode(c, id) ==
    LET d == arg[c]
    IN  /\ d = None \/ NodesOf(d) = {}
        /\ IF d = None THEN id \in Uuids \ spent ELSE id = d
        /\ nodes' = [n \in Listed \cup {id} |->
                       IF n = id THEN Node(TRUE, d, None) ELSE nodes[n]]
        /\ spent' = IF d = None THEN spent \cup {id} ELSE spent
        /\ UNCHANGED selected

LocalSessionStart(c) ==
    /\ pc[c] = "start"
    /\ \E id \in LocalIds : /\ TakeUp(c, id) \/ MakeNode(c, id)
                            /\ arg' = [arg EXCEPT ![c] = id]
    /\ Stay(c, "started")
    /\ UNCHANGED <<owners, local, cleaner, database, restarts>>

\* Mutant: the session held before is not released.
WrongAdopt(c) ==
    /\ pc[c] = "adopt"
    /\ local' = [local EXCEPT ![c] = arg[c]]
    /\ Stay(c, "claim")
    /\ UNCHANGED <<core, owners, arg, cleaner, database, spent, restarts>>

(* Back in dispatch_command: local_node_id.replace, release the old ...    *)
Adopt(c) ==
    LET old == local[c]
    IN  /\ pc[c] = "adopt"
        /\ local' = [local EXCEPT ![c] = arg[c]]
        /\ owners' = IF old \notin {None, arg[c]} THEN Released(c, old) ELSE owners
        /\ Stay(c, "claim")
        /\ UNCHANGED <<core, arg, cleaner, database, spent, restarts>>

(* ... and claim the new one.                                              *)
Claim(c) ==
    /\ pc[c] = "claim"
    /\ owners' = [owners EXCEPT ![arg[c]] = c]
    /\ arg' = [arg EXCEPT ![c] = None]
    /\ Stay(c, "idle")
    /\ UNCHANGED <<core, local, cleaner, database, spent, restarts>>

(* local_session_stop and local_session_update look at the owner first; a  *)
(* connection that is not the owner forgets the session.                   *)
RequestOwned(c, op) ==
    /\ pc[c] = "idle"
    /\ local[c] # None
    /\ IF owners[local[c]] = c
         THEN Stay(c, op) /\ UNCHANGED local
         ELSE local' = [local EXCEPT ![c] = None] /\ UNCHANGED pc
    /\ UNCHANGED <<core, owners, arg, cleaner, database, spent, restarts>>

\* Mutant: the selection is not moved.
WrongLocalSessionStop(c) ==
    LET id == local[c]
    IN  /\ pc[c] = "stop"
        /\ IF id \in Listed
             THEN nodes' = Without({id}) /\ Stay(c, "stopped")
             ELSE Stay(c, "release") /\ UNCHANGED nodes
        /\ UNCHANGED <<selected, owners, local, arg, cleaner, database, spent, restarts>>

(* Core::local_session_stop, or its error when the node is gone.           *)
LocalSessionStop(c) ==
    LET id == local[c]
    IN  /\ pc[c] = "stop"
        /\ IF id \in Listed
             THEN /\ nodes' = Without({id})
                  /\ selected' \in IF selected = id THEN FirstConnected(nodes')
                                                    ELSE {selected}
                  /\ Stay(c, "stopped")
             ELSE Stay(c, "release") /\ UNCHANGED core
        /\ UNCHANGED <<owners, local, arg, cleaner, database, spent, restarts>>

Release(c) ==
    /\ pc[c] = "release"
    /\ owners' = Released(c, local[c])
    /\ local' = [local EXCEPT ![c] = None]
    /\ Stay(c, "idle")
    /\ UNCHANGED <<core, arg, cleaner, database, spent, restarts>>

(* Core::local_session_update, or LocalSessionNotFound.                    *)
LocalSessionUpdate(c) ==
    LET id == local[c]
    IN  /\ pc[c] = "update"
        /\ IF id \in Listed
             THEN /\ nodes' = Marked(id, TRUE, None)
                  /\ Stay(c, "updated")
             ELSE Stay(c, "release") /\ UNCHANGED nodes
        /\ UNCHANGED <<selected, owners, local, arg, cleaner, database, spent, restarts>>

(* run_ui_mode leaves its loop: the session is released, and its node      *)
(* marked as disconnected.                                                 *)
Close(c) ==
    /\ pc[c] = "idle"
    /\ IF local[c] = None
         THEN Stay(c, "closed") /\ UNCHANGED owners
         ELSE Stay(c, "disconnect") /\ owners' = Released(c, local[c])
    /\ UNCHANGED <<core, local, arg, cleaner, database, spent, restarts>>

\* Mutant: the time of the disconnection is not taken.
WrongLocalSessionDisconnect(c) ==
    LET id == local[c]
    IN  /\ pc[c] = "disconnect"
        /\ IF id \in Listed
             THEN nodes' = Marked(id, FALSE, nodes[id].at) /\ Stay(c, "disconnected")
             ELSE Stay(c, "closed") /\ UNCHANGED nodes
        /\ local' = [local EXCEPT ![c] = None]
        /\ UNCHANGED <<selected, owners, arg, cleaner, database, spent, restarts>>

LocalSessionDisconnect(c) ==
    LET id == local[c]
    IN  /\ pc[c] = "disconnect"
        /\ IF id \in Listed
             THEN /\ nodes' = Marked(id, FALSE, "recent")
                  /\ Stay(c, "disconnected")
             ELSE Stay(c, "closed") /\ UNCHANGED nodes
        /\ local' = [local EXCEPT ![c] = None]
        /\ UNCHANGED <<selected, owners, arg, cleaner, database, spent, restarts>>

(* select_node.  A local node has no output, so a switch from or to one    *)
(* returns before its broadcast (NodeSessions models the rest).            *)
SelectNode(c, id) ==
    /\ pc[c] = "idle"
    /\ id \in Listed \ {selected}
    /\ selected' = id
    /\ IF id \in Remotes /\ nodes[id].connected /\ selected \in Remotes \cup {None}
         THEN Stay(c, "selected")
         ELSE UNCHANGED pc
    /\ UNCHANGED <<nodes, owners, local, arg, cleaner, database, spent, restarts>>

-----------------------------------------------------------------------------
(* Cleanup, every 60 s, of what has been disconnected for 30 s.            *)

Expired == {id \in Listed : /\ NodeType(id) = "local"
                            /\ ~ nodes[id].connected
                            /\ nodes[id].at = "expired"}

CleanupDisconnectedNodes ==
    /\ cleaner = "waiting"
    /\ Expired # {}
    /\ nodes' = Without(Expired)
    /\ selected' \in IF selected \in Expired THEN FirstConnected(nodes') ELSE {selected}
    /\ cleaner' = "cleaned"
    /\ UNCHANGED <<owners, tasks, database, spent, restarts>>

(* The environment: 30 s pass, a remote node comes or goes (NodeSessions), *)
(* the server is restarted.                                                *)
Expire(id) ==
    /\ id \in Listed
    /\ nodes[id].at = "recent"
    /\ nodes' = Marked(id, nodes[id].connected, "expired")
    /\ UNCHANGED <<selected, owners, tasks, cleaner, database, spent, restarts>>

RemoteChanges(id) ==
    /\ id \in Remotes \cap Listed
    /\ nodes' = Marked(id, ~ nodes[id].connected, nodes[id].at)
    /\ UNCHANGED <<selected, owners, tasks, cleaner, database, spent, restarts>>

SomeoneSaves == cleaner = "cleaned" \/ \E c \in Conns : pc[c] \in DOMAIN Returns

Restart ==
    /\ restarts < MaxRestarts
    /\ restarts' = restarts + 1
    /\ stored' \in IF SomeoneSaves THEN PartlySaved(Snapshot, stored) ELSE {stored}
    /\ mixed' = (mixed \/ stored' \notin {stored, Snapshot})
    /\ nodes' = Restored(stored')
    /\ selected' = stored'.selected
    /\ owners' = [id \in LocalIds |-> None]
    /\ local' = [c \in Conns |-> None]
    /\ arg' = [c \in Conns |-> None]
    /\ pc' = [c \in Conns |-> IF pc[c] = "new" THEN "new" ELSE "closed"]
    /\ cleaner' = "waiting"
    /\ UNCHANGED spent

-----------------------------------------------------------------------------
(* What a connection's task does by itself, and what its client asks of it *)
TaskStep(c) ==
    \/ LocalSessionStart(c) \/ Adopt(c) \/ Claim(c)
    \/ LocalSessionStop(c) \/ Release(c) \/ LocalSessionUpdate(c)
    \/ LocalSessionDisconnect(c) \/ Broadcast(c)

ClientStep(c) ==
    \/ Accept(c)
    \/ \E d \in Devices \cup {None} : RequestStart(c, d)
    \/ \E op \in {"stop", "update"} : RequestOwned(c, op)
    \/ \E id \in Ids : SelectNode(c, id)
    \/ Close(c)

Next ==
    \/ \E c \in Conns : TaskStep(c) \/ ClientStep(c)
    \/ CleanupDisconnectedNodes
    \/ CleanerBroadcast
    \/ \E id \in Ids : Expire(id)
    \/ \E id \in Ids : RemoteChanges(id)
    \/ Restart

Spec == Init /\ [][Next]_vars

(* Tasks go on after an await, time passes, and the cleanup interval ticks. *)
(* Nothing is assumed of clients: a session may stay open for ever.         *)
Fairness ==
    /\ \A c \in Conns : WF_vars(TaskStep(c))
    /\ \A id \in Ids : WF_vars(Expire(id))
    /\ WF_vars(CleanupDisconnectedNodes)
    /\ WF_vars(CleanerBroadcast)

FairSpec == Spec /\ Fairness

-----------------------------------------------------------------------------
(* Properties *)

PCs == {"new", "idle", "start", "adopt", "claim", "stop", "release", "update",
        "disconnect", "closed"} \cup DOMAIN Returns

Rows        == [device : LocalIds \cup {None}, at : Ages]
NodeRecords == [connected : BOOLEAN, device : LocalIds \cup {None}, at : Ages]

NodesType ==
    /\ Listed \subseteq Ids
    /\ nodes = [id \in Listed |-> nodes[id]]
    /\ \A id \in Listed : nodes[id] \in NodeRecords

StoredType ==
    /\ DOMAIN stored.rows \subseteq Ids
    /\ \A id \in DOMAIN stored.rows : stored.rows[id] \in Rows
    /\ stored.selected \in Ids \cup {None}

(* Types: what is listed, owned, held and stored, and where tasks are.     *)
TypeOK ==
    /\ NodesType
    /\ selected \in Ids \cup {None}
    /\ owners \in [LocalIds -> Conns \cup {None}]
    /\ local \in [Conns -> LocalIds \cup {None}]
    /\ pc \in [Conns -> PCs]
    /\ arg \in [Conns -> LocalIds \cup {None}]
    /\ cleaner \in {"waiting", "cleaned"}
    /\ StoredType
    /\ mixed \in BOOLEAN
    /\ spent \subseteq Uuids
    /\ restarts \in 0 .. MaxRestarts

(* A session is owned by a connection that is open and holds it.  Were the *)
(* owner gone or on another session, nobody could release it and its       *)
(* device would be refused for ever (dispatch_command, server.rs).         *)
OwnersHoldTheirSession ==
    \A id \in LocalIds, c \in Conns :
        owners[id] = c => local[c] = id /\ pc[c] \notin {"new", "disconnect", "closed"}

(* The node a connection holds is the only one of its device, whatever the *)
(* device left behind in the database and however many connections start a *)
(* session for it at the same time (local_session_start's deduplication).  *)
Holds(c, id) == \/ local[c] = id
                \/ pc[c] \in {"started", "adopt", "claim"} /\ arg[c] = id

HeldNodeIsTheOnlyOne ==
    \A c \in Conns, id \in Listed :
        Holds(c, id) /\ nodes[id].device # None => NodesOf(nodes[id].device) = {id}

(* The selected node is listed: whoever removes a node moves the selection *)
(* (stop, cleanup, and the duplicates dropped by a start), and a restart   *)
(* restores a selection together with its node, unless a save that stopped *)
(* half-way was the last one before it: a selection is committed before    *)
(* the node's row (persist.rs), and main.rs takes both as they are.        *)
SelectedIsListed == ~ mixed => selected = None \/ selected \in Listed

(* A session whose connection was lost is not listed for ever: its device  *)
(* comes back or the cleanup removes it.  (While the server runs: a crash  *)
(* before the disconnection is persisted loses the time to count from.)    *)
LostSessionsExpire ==
    \A id \in LocalIds :
        (/\ restarts = MaxRestarts
         /\ \E c \in Conns : pc[c] = "disconnect" /\ local[c] = id)
        ~> (id \notin Listed \/ nodes[id].connected)

(* "Ephemeral (WS session)": while a connection owns a session and is not  *)
(* just stopping it, the session's node is listed.                         *)
SessionKeepsItsNode ==
    \A id \in LocalIds, c \in Conns :
        owners[id] = c /\ pc[c] = "idle" => id \in Listed
=============================================================================
