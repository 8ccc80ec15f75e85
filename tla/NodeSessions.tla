---------------------------- MODULE NodeSessions ----------------------------
(***************************************************************************)
(* The coming and going of output nodes: a kanade-node process connects,   *)
(* registers under the id it chose (its NODE_NAME), is brought to the      *)
(* state the core keeps for that id, relays commands and status, and is    *)
(* lost; the server waits RECONNECT_GRACE_MS before it gives the node up   *)
(* and lets another connected node carry on.                               *)
(*                                                                         *)
(* Every connection is served by a task of its own, which interleaves with *)
(* the other connections' tasks and with the clients' commands wherever it *)
(* awaits.  Queues, positions and volumes are left out (Projection models  *)
(* the queues); a node's queue is taken to be nonempty, so that play plays.*)
(***************************************************************************)
EXTENDS Naturals, Sequences, FiniteSetsExt

CONSTANTS
    Ids,         \* node ids, the NODE_NAMEs in use
    Procs,       \* kanade-node processes, each with an MPD of its own
    IdOf,        \* the NODE_NAME each process is started with
    Joined,      \* processes that are connected when a behaviour begins
    MaxConns,    \* bound: connections that exist at a time
    Clients,     \* tasks that run client commands
    Ops,         \* the operations the clients use
    MaxOps,      \* bound: client operations started in a behaviour
    MaxDrops,    \* bound: connections lost in a behaviour
    NoId         \* stands for Option::None

ASSUME IdOfAssumption == /\ Procs # {} /\ IdOf \in [Procs -> Ids]
                         /\ Joined \subseteq Procs
                         /\ IsFiniteSet(Joined) /\ Cardinality(Joined) <= MaxConns
                         /\ \A p, q \in Joined : IdOf[p] = IdOf[q] => p = q
ASSUME NoIdAssumption == NoId \notin Ids
ASSUME MaxAssumption  == MaxConns \in Nat /\ MaxOps \in Nat /\ MaxDrops \in Nat

NoConn == 0
Conns  == 1 .. MaxConns

VARIABLES
    order,      \* the ids in PlaybackState.nodes, in their order
    node,       \* Node.connected and Node.status of each id
    selected,   \* selected_node_id
    announced,  \* selected_node_id in the last state pushed to the clients
    slot,       \* Core.outputs: the connection that owns each id's output
    conn,       \* each connection: its process and its task on the server
    session,    \* the connection each process uses, or NoConn
    ready,      \* whether the process has cleared MPD and runs commands
    player,     \* what each process's MPD is doing
    task,       \* the client tasks
    ops, drops  \* how many operations and losses may still happen (bounds)

core == <<order, node, selected, announced, slot>>
process == <<session, ready, player>>
bounds == <<ops, drops>>
vars == <<core, conn, process, task, bounds>>

Status == {"playing", "paused", "stopped"}

Commands == {"set_queue", "play", "pause", "stop"}

Known(id) == \E i \in DOMAIN order : order[i] = id

-----------------------------------------------------------------------------
(* Outputs.  A send reaches the connection that owns the id's slot.        *)

HasOutput(id) == slot[id] # NoConn

\* conn with cmds on their way through id's output.  What is sent once the
\* socket is gone or the relay loop has ended is never delivered.
Delivers(k) == session[conn[k].proc] = k /\ conn[k].phase \notin {"grace", "unregister"}

Sent(id, cmds) ==
    [conn EXCEPT ![slot[id]].cmds = IF Delivers(slot[id]) THEN @ \o cmds ELSE @]

\* apply_output_runtime_state, and what select_node sends to resume
CommandsFor(status) ==
    CASE status = "playing" -> <<"play">>
      [] status = "paused"  -> <<"play", "pause">>
      [] status = "stopped" -> <<"stop">>

\* MPD (external): its status after a command; set_queue leaves it stopped.
PlayerAfter(status, cmd) ==
    CASE cmd = "play"  -> "playing"
      [] cmd = "pause" -> IF status = "playing" THEN "paused" ELSE status
      [] OTHER         -> "stopped"

-----------------------------------------------------------------------------
(* Connections.  A connection's task on the server runs through its phases: *)
(*   register, add, read, load, apply, (stopping,) check   registration     *)
(*   relay, (update)                                       the relay loop   *)
(*   grace, unregister, leave, (read .. stopping)          the way out      *)
(*   closed                                                                 *)
(* target is the node that read .. stopping bring to its logical state, and *)
(* after the phase that follows them: check for the connection's own node,  *)
(* closed for the fallback of a lost node.                                  *)

NodeIdOf(k) == IdOf[conn[k].proc]

In(k, phase) == conn[k].phase = phase

SomeProc == CHOOSE p \in Procs : TRUE

FreeConn == [phase |-> "free", proc |-> SomeProc, cmds |-> <<>>,
             target |-> NoId, after |-> "check", resume |-> "stopped", isSelected |-> FALSE]

ToPhase(k, phase) == conn' = [conn EXCEPT ![k].phase = phase]

\* The relay loop, and the way out after it, keep nothing of what came before.
Relaying(k) ==
    [conn EXCEPT ![k] = [FreeConn EXCEPT !.phase = "relay", !.proc = conn[k].proc,
                                         !.cmds = conn[k].cmds]]

LeaveRelay(k) == conn' = [conn EXCEPT ![k] = [FreeConn EXCEPT !.phase = "grace",
                                                  !.proc = conn[k].proc]]

\* The process connects, sends its registration and gets the ack.  Fresh
\* connection ids are all alike: the first free one is as good as any.
Connect(p, k) ==
    /\ session[p] = NoConn
    /\ In(k, "free")
    /\ \A j \in 1 .. k - 1 : ~In(j, "free")
    /\ conn' = [conn EXCEPT ![k] = [FreeConn EXCEPT !.phase = "register", !.proc = p,
                                                    !.target = IdOf[p]]]
    /\ session' = [session EXCEPT ![p] = k]
    /\ UNCHANGED <<core, ready, player, task, bounds>>

\* register_output: the slot's earlier owner is sent no more commands.
RegisterOutput(k) ==
    /\ In(k, "register")
    /\ slot' = [slot EXCEPT ![NodeIdOf(k)] = k]
    /\ ToPhase(k, "add")
    /\ UNCHANGED <<order, node, selected, announced, process, task, bounds>>

\* Mutant: a node that returns is listed once more.
WrongAddNode(k) ==
    LET id == NodeIdOf(k) IN
    /\ In(k, "add")
    /\ node' = [node EXCEPT ![id] = [connected |-> TRUE, status |-> "stopped"]]
    /\ order' = Append(order, id)
    /\ selected' = IF order = <<>> \/ selected = NoId THEN id ELSE selected
    /\ announced' = selected'
    /\ ToPhase(k, "read")
    /\ UNCHANGED <<slot, process, task, bounds>>

AddNode(k) ==
    LET id == NodeIdOf(k) IN
    /\ In(k, "add")
    /\ IF Known(id)
       THEN /\ node' = [node EXCEPT ![id].connected = TRUE]
            /\ UNCHANGED order
       ELSE /\ node' = [node EXCEPT ![id] = [connected |-> TRUE, status |-> "stopped"]]
            /\ order' = Append(order, id)
    /\ selected' = IF order = <<>> \/ selected = NoId THEN id ELSE selected
    /\ announced' = selected'
    /\ ToPhase(k, "read")
    /\ UNCHANGED <<slot, process, task, bounds>>

\* sync_connected_node_to_logical_state: what the core holds of the node
ReadLogicalState(k) ==
    LET id == conn[k].target IN
    /\ In(k, "read")
    /\ conn' = [conn EXCEPT ![k].phase = "load",
                            ![k].isSelected = (selected = id),
                            ![k].resume = node[id].status]
    /\ UNCHANGED <<core, process, task, bounds>>

\* sync_output_to_global; without an output the rest is skipped.
LoadQueue(k) ==
    LET id == conn[k].target IN
    /\ In(k, "load")
    /\ conn' = IF HasOutput(id)
               THEN [Sent(id, <<"set_queue">>) EXCEPT ![k].phase = "apply"]
               ELSE [conn EXCEPT ![k].phase = conn[k].after]
    /\ UNCHANGED <<core, process, task, bounds>>

\* The selected node resumes, any other is sent a stop.
ApplyStatus(k) ==
    LET id == conn[k].target IN
    /\ In(k, "apply")
    /\ conn' = IF ~HasOutput(id) THEN [conn EXCEPT ![k].phase = conn[k].after]
               ELSE IF conn[k].isSelected
               THEN [Sent(id, CommandsFor(conn[k].resume)) EXCEPT ![k].phase = conn[k].after]
               ELSE [Sent(id, <<"stop">>) EXCEPT ![k].phase = "stopping"]
    /\ UNCHANGED <<core, process, task, bounds>>

\* The write section of stop_node
WriteStopped(k) ==
    /\ In(k, "stopping")
    /\ node' = [node EXCEPT ![conn[k].target].status = "stopped"]
    /\ announced' = selected
    /\ IF conn[k].after = "relay" THEN conn' = Relaying(k) ELSE ToPhase(k, conn[k].after)
    /\ UNCHANGED <<order, selected, slot, process, task, bounds>>

\* A registered node that is not the selected one is stopped once more.
CheckSelected(k) ==
    LET id == NodeIdOf(k) IN
    /\ In(k, "check")
    /\ conn' = IF selected # id /\ HasOutput(id)
               THEN [Sent(id, <<"stop">>) EXCEPT ![k].phase = "stopping", ![k].after = "relay"]
               ELSE Relaying(k)
    /\ UNCHANGED <<core, process, task, bounds>>

\* A status update: what the node's poller saw of its MPD some time ago (the
\* write below may come any time later).  Updates that arrive once the output
\* belongs to another connection are ignored.
ReceiveUpdate(k) ==
    LET p == conn[k].proc IN
    /\ In(k, "relay")
    /\ session[p] = k /\ ready[p]
    /\ slot[NodeIdOf(k)] = k
    /\ conn' = [conn EXCEPT ![k].phase = "update", ![k].resume = player[p]]
    /\ UNCHANGED <<core, process, task, bounds>>

\* Mutant: the observed status is announced but not stored.
WrongWriteStatus(k) ==
    LET id == NodeIdOf(k) IN
    /\ In(k, "update")
    /\ announced' = IF node[id].status # conn[k].resume THEN selected ELSE announced
    /\ conn' = Relaying(k)
    /\ UNCHANGED <<order, node, selected, slot, process, task, bounds>>

\* sync_node_state: write it; a change is broadcast.
WriteStatus(k) ==
    LET id == NodeIdOf(k) IN
    /\ In(k, "update")
    /\ node' = [node EXCEPT ![id].status = conn[k].resume]
    /\ announced' = IF node[id].status # conn[k].resume THEN selected ELSE announced
    /\ conn' = Relaying(k)
    /\ UNCHANGED <<order, selected, slot, process, task, bounds>>

\* The relay loop ends when the socket is closed.  (Not when the output is
\* replaced: the handler holds the sending end of its own channel.)
EndRelay(k) ==
    /\ In(k, "relay")
    /\ session[conn[k].proc] # k
    /\ LeaveRelay(k)
    /\ UNCHANGED <<core, process, task, bounds>>

\* A ping, a heartbeat or a send times out; the process learns it at Close.
TimeOut(k) ==
    /\ In(k, "relay")
    /\ drops > 0
    /\ drops' = drops - 1
    /\ LeaveRelay(k)
    /\ UNCHANGED <<core, process, task, ops>>

\* Mutant: the way out ends without unregistering the output.
WrongEndGrace(k) ==
    /\ In(k, "grace")
    /\ ToPhase(k, "closed")
    /\ UNCHANGED <<core, process, task, bounds>>

\* After the grace period: is_same_output, unregister_output and
\* handle_node_disconnected each take their own lock.
EndGrace(k) ==
    /\ In(k, "grace")
    /\ ToPhase(k, IF slot[NodeIdOf(k)] = k THEN "unregister" ELSE "closed")
    /\ UNCHANGED <<core, process, task, bounds>>

UnregisterOutput(k) ==
    LET id == NodeIdOf(k) IN
    /\ In(k, "unregister")
    /\ slot' = [slot EXCEPT ![id] = IF @ = k THEN NoConn ELSE @]
    /\ ToPhase(k, "leave")
    /\ UNCHANGED <<order, node, selected, announced, process, task, bounds>>

\* The first other connected node in the order of nodes, or NoId.
FallbackFor(id) ==
    LET candidates == {i \in DOMAIN order : order[i] # id /\ node[order[i]].connected}
    IN  IF candidates = {} THEN NoId ELSE order[Min(candidates)]

\* The fallback takes over the status, every other node is stopped; with no
\* fallback a selected node stays selected and keeps its status.
HandleDisconnected(k) ==
    LET id       == NodeIdOf(k)
        fallback == IF selected = id THEN FallbackFor(id) ELSE NoId
        lost     == IF selected = id /\ fallback = NoId THEN node[id].status ELSE "stopped" IN
    /\ In(k, "leave")
    /\ IF fallback = NoId
       THEN /\ node' = [node EXCEPT ![id] = [connected |-> FALSE, status |-> lost]]
            /\ ToPhase(k, "closed")
            /\ UNCHANGED selected
       ELSE /\ node' = [m \in Ids |->
                          [connected |-> node[m].connected /\ m # id,
                           status    |-> IF m = fallback THEN node[id].status ELSE "stopped"]]
            /\ selected' = fallback
            /\ conn' = [conn EXCEPT ![k].phase = "read", ![k].target = fallback,
                                    ![k].after = "closed"]
    /\ announced' = IF fallback = NoId THEN selected ELSE announced
    /\ UNCHANGED <<order, slot, process, task, bounds>>

\* Mutant: the socket stays open after the handler has given the node up.
WrongClose(k) ==
    /\ In(k, "closed")
    /\ conn' = [conn EXCEPT ![k] = FreeConn]
    /\ announced' = IF conn[k].after = "closed" THEN selected ELSE announced
    /\ UNCHANGED <<order, node, selected, slot, process, task, bounds>>

\* The handler returns, which closes the socket; a broadcast ends the way out.
Close(k) ==
    /\ In(k, "closed")
    /\ conn' = [conn EXCEPT ![k] = FreeConn]
    /\ session' = [p \in Procs |-> IF session[p] = k THEN NoConn ELSE session[p]]
    /\ ready' = [p \in Procs |-> ready[p] /\ session[p] # k]
    /\ announced' = IF conn[k].after = "closed" THEN selected ELSE announced
    /\ UNCHANGED <<order, node, selected, slot, player, task, bounds>>

\* What the connection's task does without waiting for the node.
ServeStep(k) ==
    \/ RegisterOutput(k) \/ AddNode(k) \/ ReadLogicalState(k) \/ LoadQueue(k)
    \/ ApplyStatus(k) \/ WriteStopped(k) \/ CheckSelected(k)
    \/ WriteStatus(k) \/ EndRelay(k)
    \/ EndGrace(k) \/ UnregisterOutput(k) \/ HandleDisconnected(k) \/ Close(k)

-----------------------------------------------------------------------------
(* The node process (run_session).                                         *)

\* The connection breaks: what the node was sent and has not read is lost.
Drop(p) ==
    /\ session[p] # NoConn
    /\ drops > 0
    /\ drops' = drops - 1
    /\ session' = [session EXCEPT ![p] = NoConn]
    /\ ready' = [ready EXCEPT ![p] = FALSE]
    /\ conn' = [conn EXCEPT ![session[p]].cmds = <<>>]
    /\ UNCHANGED <<core, player, task, ops>>

\* A new session empties MPD before its relay loop starts.
ClearPlayer(p) ==
    /\ session[p] # NoConn
    /\ ~ready[p]
    /\ player' = [player EXCEPT ![p] = "stopped"]
    /\ ready' = [ready EXCEPT ![p] = TRUE]
    /\ UNCHANGED <<core, conn, session, task, bounds>>

Execute(p) ==
    LET k == session[p] IN
    /\ k # NoConn
    /\ ready[p]
    /\ conn[k].phase \in {"relay", "update"}
    /\ conn[k].cmds # <<>>
    /\ player' = [player EXCEPT ![p] = PlayerAfter(@, Head(conn[k].cmds))]
    /\ conn' = [conn EXCEPT ![k].cmds = Tail(@)]
    /\ UNCHANGED <<core, session, ready, task, bounds>>

ProcStep(p) == ClearPlayer(p) \/ Execute(p)

-----------------------------------------------------------------------------
(* Client commands: select_node, and play, pause and stop of the active    *)
(* node.  An output that is missing ends a command with an error.          *)

NoTask == [step |-> "idle", id |-> NoId, prev |-> NoId, resume |-> "stopped"]

Step(c, step) == task[c].step = step

ToStep(c, step) == task' = [task EXCEPT ![c].step = step]

Finish(c) == task' = [task EXCEPT ![c] = NoTask]

Begin(c, op) ==
    /\ op \in Ops
    /\ Step(c, "idle")
    /\ ops > 0
    /\ ops' = ops - 1

SelectNode(c, id) ==
    /\ Begin(c, "select")
    /\ Known(id) /\ id # selected
    /\ selected' = id
    /\ node' = [m \in Ids |-> [node[m] EXCEPT !.status = "stopped"]]
    /\ task' = [task EXCEPT ![c] =
                  [step |-> IF selected = NoId THEN "load" ELSE "stop_prev", id |-> id,
                   prev |-> selected,
                   resume |-> IF selected = NoId THEN "stopped" ELSE node[selected].status]]
    /\ UNCHANGED <<order, announced, slot, conn, process, drops>>

StopPrevious(c) ==
    /\ Step(c, "stop_prev")
    /\ IF HasOutput(task[c].prev)
       THEN conn' = Sent(task[c].prev, <<"stop">>) /\ ToStep(c, "load")
       ELSE Finish(c) /\ UNCHANGED conn
    /\ UNCHANGED <<core, process, bounds>>

LoadSelected(c) ==
    /\ Step(c, "load")
    /\ IF HasOutput(task[c].id)
       THEN /\ conn' = Sent(task[c].id, <<"set_queue">>)
            /\ ToStep(c, IF task[c].resume = "stopped" THEN "selected" ELSE "resume")
       ELSE Finish(c) /\ UNCHANGED conn
    /\ UNCHANGED <<core, process, bounds>>

ResumeSelected(c) ==
    /\ Step(c, "resume")
    /\ IF HasOutput(task[c].id)
       THEN conn' = Sent(task[c].id, CommandsFor(task[c].resume)) /\ ToStep(c, "selected")
       ELSE Finish(c) /\ UNCHANGED conn
    /\ UNCHANGED <<core, process, bounds>>

EndSelect(c) ==
    /\ Step(c, "selected")
    /\ node' = [node EXCEPT ![task[c].id].status =
                   IF task[c].resume = "stopped" THEN @ ELSE task[c].resume]
    /\ announced' = selected
    /\ Finish(c)
    /\ UNCHANGED <<order, selected, slot, conn, process, bounds>>

\* active_node_id: the selected node, if it is there and connected
Control(c, cmd) ==
    /\ cmd \in {"play", "pause", "stop"}
    /\ Begin(c, cmd)
    /\ selected # NoId
    /\ node[selected].connected
    /\ task' = [task EXCEPT ![c] = [NoTask EXCEPT !.step = cmd, !.id = selected]]
    /\ UNCHANGED <<core, conn, process, drops>>

\* Mutant: the command is stored where the status it leads to belongs.
WrongSendControl(c) ==
    /\ task[c].step \in {"play", "pause", "stop"}
    /\ IF HasOutput(task[c].id)
       THEN /\ conn' = Sent(task[c].id, <<task[c].step>>)
            /\ task' = [task EXCEPT ![c].step = "control", ![c].resume = task[c].step]
       ELSE Finish(c) /\ UNCHANGED conn
    /\ UNCHANGED <<core, process, bounds>>

\* play_node, pause_node, stop_node: to the output, then to the state
SendControl(c) ==
    /\ task[c].step \in {"play", "pause", "stop"}
    /\ IF HasOutput(task[c].id)
       THEN /\ conn' = Sent(task[c].id, <<task[c].step>>)
            /\ task' = [task EXCEPT ![c].step = "control",
                                    ![c].resume = CASE task[c].step = "play"  -> "playing"
                                                    [] task[c].step = "pause" -> "paused"
                                                    [] OTHER                  -> "stopped"]
       ELSE Finish(c) /\ UNCHANGED conn
    /\ UNCHANGED <<core, process, bounds>>

EndControl(c) ==
    /\ Step(c, "control")
    /\ node' = [node EXCEPT ![task[c].id].status = task[c].resume]
    /\ announced' = selected
    /\ Finish(c)
    /\ UNCHANGED <<order, selected, slot, conn, process, bounds>>

TaskStep(c) ==
    \/ StopPrevious(c) \/ LoadSelected(c) \/ ResumeSelected(c) \/ EndSelect(c)
    \/ SendControl(c) \/ EndControl(c)

-----------------------------------------------------------------------------
ProcOf(id) == CHOOSE p \in Joined : IdOf[p] = id

\* The processes of Joined are connected and relaying, and the selected one
\* of them is playing; the others have yet to start.
Init ==
    /\ order \in {o \in [1 .. Cardinality(Joined) -> {IdOf[p] : p \in Joined}] :
                      \A i, j \in DOMAIN o : o[i] = o[j] => i = j}
    /\ selected = IF order = <<>> THEN NoId ELSE order[1]
    /\ announced = selected
    /\ player = [p \in Procs |-> IF p \in Joined /\ IdOf[p] = selected
                                 THEN "playing" ELSE "stopped"]
    /\ session \in {f \in [Procs -> 0 .. Cardinality(Joined)] :
                       /\ \A p \in Procs : f[p] # NoConn <=> p \in Joined
                       /\ \A p, q \in Joined : f[p] = f[q] => p = q}
    /\ ready = [p \in Procs |-> p \in Joined]
    /\ node = [id \in Ids |->
                 IF \E p \in Joined : IdOf[p] = id
                 THEN [connected |-> TRUE, status |-> player[ProcOf(id)]]
                 ELSE [connected |-> FALSE, status |-> "stopped"]]
    /\ slot = [id \in Ids |-> IF \E p \in Joined : IdOf[p] = id THEN session[ProcOf(id)] ELSE NoConn]
    /\ conn = [k \in Conns |->
                 IF \E p \in Joined : session[p] = k
                 THEN [FreeConn EXCEPT !.phase = "relay",
                                       !.proc = CHOOSE p \in Joined : session[p] = k]
                 ELSE FreeConn]
    /\ task = [c \in Clients |-> NoTask]
    /\ ops = MaxOps
    /\ drops = MaxDrops

Next ==
    \/ \E p \in Procs, k \in Conns : Connect(p, k)
    \/ \E k \in Conns : ServeStep(k) \/ ReceiveUpdate(k) \/ TimeOut(k)
    \/ \E p \in Procs : ProcStep(p) \/ Drop(p)
    \/ \E c \in Clients : \/ TaskStep(c)
                          \/ \E id \in Ids : SelectNode(c, id)
                          \/ \E cmd \in {"play", "pause", "stop"} : Control(c, cmd)

(* The process reconnects whenever its session has ended, and it polls     *)
(* and reads its socket; every task on the server goes on to its end.      *)
Fairness ==
    /\ \A p \in Procs : /\ WF_vars(\E k \in Conns : Connect(p, k))
                        /\ WF_vars(ClearPlayer(p))
                        /\ WF_vars(Execute(p))
    /\ \A k \in Conns : WF_vars(ServeStep(k)) /\ WF_vars(ReceiveUpdate(k))
    /\ \A c \in Clients : WF_vars(TaskStep(c))

Spec == Init /\ [][Next]_vars
FairSpec == Spec /\ Fairness

-----------------------------------------------------------------------------
(* Properties.                                                             *)

Phases == {"free", "register", "add", "read", "load", "apply", "stopping", "check",
           "relay", "update", "grace", "unregister", "leave", "closed"}

\* Every variable keeps its type; a status is one MPD can have.
TypeOK ==
    /\ order \in Seq(Ids)
    /\ node \in [Ids -> [connected : BOOLEAN, status : Status]]
    /\ selected \in Ids \cup {NoId}
    /\ announced \in Ids \cup {NoId}
    /\ slot \in [Ids -> Conns \cup {NoConn}]
    /\ conn \in [Conns -> [phase : Phases, proc : Procs, cmds : Seq(Commands),
                           target : Ids \cup {NoId},
                           after : {"check", "relay", "closed"}, resume : Status,
                           isSelected : BOOLEAN]]
    /\ session \in [Procs -> Conns \cup {NoConn}]
    /\ ready \in [Procs -> BOOLEAN]
    /\ player \in [Procs -> Status]
    /\ task \in [Clients -> [step : {"idle", "stop_prev", "load", "resume", "selected",
                                     "play", "pause", "stop", "control"},
                             id : Ids \cup {NoId}, prev : Ids \cup {NoId}, resume : Status]]
    /\ ops \in 0 .. MaxOps
    /\ drops \in 0 .. MaxDrops

(* The output of an id belongs to a connection of that id whose task still  *)
(* runs its relay loop or has yet to unregister it: whichever way sessions  *)
(* overlap, none leaves its output behind when it is gone.                  *)
OutputsAreServed ==
    \A id \in Ids :
        slot[id] # NoConn => /\ NodeIdOf(slot[id]) = id
                             /\ conn[slot[id]].phase \notin {"free", "register", "leave", "closed"}

(* The state lists a node once, however often it registers, and it always  *)
(* has a selected node, one of the list, once a node has registered.       *)
SelectedIsListed ==
    /\ \A i, j \in DOMAIN order : order[i] = order[j] => i = j
    /\ IF order = <<>> THEN selected = NoId ELSE Known(selected)

(* When connections are no longer lost, every process ends up with a       *)
(* session that owns the output of its id.                                 *)
SessionsSettle ==
    <>[](\A p \in Procs : session[p] # NoConn /\ slot[IdOf[p]] = session[p])

(* ... and the status the server shows of it is the status of its MPD.     *)
StatusSettles ==
    <>[](\A p \in Procs : node[IdOf[p]].status = player[p])

Settled == /\ \A c \in Clients : Step(c, "idle")
           /\ \A k \in Conns : conn[k].phase \in {"free", "relay"}

(* The clients have been told which node is selected, whenever no command  *)
(* and no connection is half-way through.                                  *)
SelectionIsPushed == Settled => announced = selected
=============================================================================
