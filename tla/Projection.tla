----------------------------- MODULE Projection -----------------------------
(***************************************************************************)
(* How the server's queue of a node reaches the node's MPD and how MPD's   *)
(* progress comes back.                                                    *)
(*                                                                         *)
(* kanade-core keeps one queue and one current index per node and loads a  *)
(* projection of it (the tracks from the current one on) into the node's   *)
(* MPD with set_queue, numbered by a generation.  The node polls MPD and   *)
(* reports the song index stamped with the generation it last loaded; the  *)
(* controller maps it back only if that is its latest generation.          *)
(*                                                                         *)
(* The tasks that serve the clients run concurrently and take the locks of *)
(* the core (state, outputs, transport_state) one after the other, so each *)
(* lock section and each send is an action.  All nodes are remote nodes    *)
(* that stay connected: NodeSessions models their coming and going.        *)
(* Status, position and volume are left out: nothing here depends on them. *)
(***************************************************************************)
EXTENDS QueueOps, FiniteSets

CONSTANTS
    Nodes,          \* the remote nodes
    Clients,        \* tasks that run client commands (WebSocket, OpenHome)
    Tracks,         \* the tracks a client may queue
    InitialQueues,  \* the queues the nodes may start with
    Starts,         \* the start indices clients send with a list (not usize::MAX)
    Pollers,        \* the nodes whose poller still has its connection to MPD
    Ops,            \* the operations the clients use
    MaxOps,         \* bound: operations started in a behaviour
    MaxChannel,     \* capacity of a node's command channel
    MaxUpdates,     \* capacity of a node's update channel (0: every report is lost)
    FaultyMpd       \* whether MPD may fail a command

ASSUME NodesAssumption   == Nodes # {} /\ IsFiniteSet(Nodes)
ASSUME PollersAssumption == Pollers \subseteq Nodes
ASSUME ClientsAssumption == Clients # {}
ASSUME QueuesAssumption  == InitialQueues \subseteq Seq(Tracks) /\ InitialQueues # {}
ASSUME StartsAssumption  == Starts \subseteq Nat
ASSUME BoundsAssumption  == /\ MaxOps \in Nat
                            /\ MaxChannel \in Nat \ {0}
                            /\ MaxUpdates \in Nat
                            /\ FaultyMpd \in BOOLEAN

VARIABLES
    queue,      \* Node.queue
    index,      \* Node.current_index
    repeat,     \* Node.repeat
    selected,   \* PlaybackState.selected_node_id
    transport,  \* Core.transport_state
    task,       \* what each client task still has to do
    budget,     \* operations that may still start (bounds the model)
    channel,    \* the mpsc channel and WebSocket from the core to each node
    mpd,        \* MPD's queue and current song
    storing,    \* generation the node still has to store, or None
    nodeGen,    \* the node's projection_generation atomic
    sample,     \* the song the poller read and has not reported, or NoSample
    updates,    \* NodeStateUpdates on their way to the server
    projected   \* index sync_node_state has computed and not yet written

coreVars == <<queue, index, repeat, selected, transport>>
nodeVars == <<mpd, storing, nodeGen, sample>>
vars == <<coreVars, task, budget, channel, nodeVars, updates, projected>>

NoSample == -2
NoUpdate == -2

(***************************************************************************)
(* Tasks.  todo is what is left of an operation, node the node whose queue *)
(* it changes, out the node whose output and transport entry it uses,      *)
(* proj the projection it builds and pos, to the positions it sends.       *)
(***************************************************************************)
NoProjection == [start |-> None, paths |-> <<>>, loaded |-> 0]

SomeNode == CHOOSE n \in Nodes : TRUE

NoTask == [todo |-> <<>>, node |-> SomeNode, out |-> SomeNode, gen |-> 0,
           proj |-> NoProjection, tracks |-> <<>>, pos |-> 0, to |-> 0]

Idle(c) == task[c].todo = <<>>

At(c, step) == ~Idle(c) /\ Head(task[c].todo) = step

\* t is the task after its head step; a finished task is forgotten.
Advance(c, t) ==
    task' = [task EXCEPT ![c] =
                IF Tail(t.todo) = <<>> THEN NoTask ELSE [t EXCEPT !.todo = Tail(@)]]

Abort(c) == task' = [task EXCEPT ![c] = NoTask]

Begin(c, op, t) ==
    /\ op \in Ops
    /\ Idle(c)
    /\ budget > 0
    /\ budget' = budget - 1
    /\ task' = [task EXCEPT ![c] = t]

\* A task on the selected node; active_node_id succeeds as nodes are connected.
TaskOnSelected(todo) ==
    [NoTask EXCEPT !.todo = todo, !.node = selected, !.out = selected]

ProjectionFrom(q, i) ==
    [start |-> i, paths |-> Suffix(q, i), loaded |-> Len(Suffix(q, i))]

\* A start that is no position of the list projects nothing.
ProjectionAt(q, i) == IF i \in Positions(q) THEN ProjectionFrom(q, i) ELSE NoProjection

-----------------------------------------------------------------------------
(* The operations: the part before their first release of a lock.          *)

playSteps == <<"rebuild", "outputs", "set_queue", "outputs", "play">>

PlayIndex(c, i) ==
    /\ Begin(c, "play_index", [TaskOnSelected(<<"go_to">> \o playSteps) EXCEPT !.pos = i])
    /\ UNCHANGED <<coreVars, channel, nodeVars, updates, projected>>

Skip(c, step) ==  \* next and previous
    /\ step \in {"next", "previous"}
    /\ Begin(c, step, TaskOnSelected(<<step>> \o playSteps))
    /\ UNCHANGED <<coreVars, channel, nodeVars, updates, projected>>

Play(c) ==
    /\ Begin(c, "play", TaskOnSelected(<<"play", "start">>))
    /\ UNCHANGED <<coreVars, channel, nodeVars, updates, projected>>

AddToQueue(c, t) ==
    /\ Begin(c, "add", [TaskOnSelected(<<"push", "outputs", "add", "outputs", "extend">>)
                            EXCEPT !.tracks = <<t>>])
    /\ UNCHANGED <<coreVars, channel, nodeVars, updates, projected>>

ClearQueue(c) ==
    /\ Begin(c, "clear", TaskOnSelected(<<"rebuild", "set_queue", "wipe">>))
    /\ UNCHANGED <<coreVars, channel, nodeVars, updates, projected>>

\* set_queue stores the start index as it was sent, a position of q or not.
SetQueue(c, q, i) ==
    /\ Begin(c, "set_queue",
             [TaskOnSelected(<<"outputs", "rebuild", "set_queue", "replace",
                               "outputs", "play">>)
                 EXCEPT !.tracks = q, !.pos = i, !.proj = ProjectionAt(q, i)])
    /\ UNCHANGED <<coreVars, channel, nodeVars, updates, projected>>

RemoveFromQueue(c, i) ==
    /\ i \in Positions(queue[selected])
    /\ Begin(c, "remove",
             [TaskOnSelected(<<"outputs", "remove", "outputs", "shrink">>)
                 EXCEPT !.pos = OutputPosition(i, index[selected])])
    /\ index' = [index EXCEPT ![selected] = IndexAfterRemove(@, i, queue[selected])]
    /\ queue' = [queue EXCEPT ![selected] = Removed(@, i)]
    /\ UNCHANGED <<repeat, selected, transport, channel, nodeVars, updates, projected>>

MoveInQueue(c, i, j) ==
    /\ i \in Positions(queue[selected]) /\ j \in Positions(queue[selected])
    /\ Begin(c, "move",
             [TaskOnSelected(<<"outputs", "move_track">>)
                 EXCEPT !.pos = OutputPosition(i, index[selected]),
                        !.to  = OutputPosition(j, index[selected])])
    /\ index' = [index EXCEPT ![selected] = IndexAfterMove(@, i, j)]
    /\ queue' = [queue EXCEPT ![selected] = Moved(@, i, j)]
    /\ UNCHANGED <<repeat, selected, transport, channel, nodeVars, updates, projected>>

SetRepeat(c, mode) ==
    /\ Begin(c, "set_repeat", NoTask)
    /\ repeat' = [repeat EXCEPT ![selected] = mode]
    /\ UNCHANGED <<queue, index, selected, transport, channel, nodeVars, updates, projected>>

\* resume: whether the previous node was playing (its status is not modelled).
SelectNode(c, n, resume) ==
    /\ n # selected
    /\ Begin(c, "select",
             [NoTask EXCEPT !.todo = <<"stop", "load", "rebuild", "set_queue">>
                                     \o (IF resume THEN <<"play">> ELSE <<>>),
                            !.node = n, !.out = selected])
    /\ selected' = n
    /\ UNCHANGED <<queue, index, repeat, transport, channel, nodeVars, updates, projected>>

-----------------------------------------------------------------------------
(* The steps of a task: one lock section or one send each.                 *)

\* The write section of play_index, next and previous; None is their early return.
GoTo(c, step, i) ==
    LET n == task[c].node IN
    /\ At(c, step)
    /\ IF i # None
       THEN /\ index' = [index EXCEPT ![n] = i]
            /\ Advance(c, [task[c] EXCEPT !.proj = ProjectionFrom(queue[n], i)])
       ELSE Abort(c) /\ UNCHANGED index
    /\ UNCHANGED <<queue, repeat, selected, transport, budget, channel, nodeVars, updates, projected>>

GoToTarget(c) ==
    LET n == task[c].node IN
    \/ GoTo(c, "go_to", IF task[c].pos \in Positions(queue[n]) THEN task[c].pos ELSE None)
    \/ GoTo(c, "next", NextIndex(index[n], Len(queue[n]), repeat[n]))
    \/ GoTo(c, "previous", PrevIndex(index[n], Len(queue[n]), repeat[n]))

Rebuild(c) ==
    LET n == task[c].out
        g == transport[n].gen + 1 IN
    /\ At(c, "rebuild")
    /\ transport' = [transport EXCEPT ![n] = [gen    |-> g,
                                              start  |-> task[c].proj.start,
                                              loaded |-> task[c].proj.loaded]]
    /\ Advance(c, [task[c] EXCEPT !.gen = g])
    /\ UNCHANGED <<queue, index, repeat, selected, budget, channel, nodeVars, updates, projected>>

\* active_node_id, read again each time an operation asks for its outputs
ReadOutputs(c) ==
    /\ At(c, "outputs")
    /\ Advance(c, [task[c] EXCEPT !.out = selected])
    /\ UNCHANGED <<coreVars, budget, channel, nodeVars, updates, projected>>

CommandOf(t) ==
    LET type == Head(t.todo) IN
    CASE type = "set_queue"  -> [type |-> type, paths |-> t.proj.paths, gen |-> t.gen]
      [] type = "add"        -> [type |-> type, paths |-> t.tracks]
      [] type = "remove"     -> [type |-> type, pos |-> t.pos]
      [] type = "move_track" -> [type |-> type, pos |-> t.pos, to |-> t.to]
      [] OTHER               -> [type |-> type]

CommandTypes == {"play", "stop", "set_queue", "add", "remove", "move_track"}

Sending(c) == \E type \in CommandTypes : At(c, type)

Send(c) ==
    LET n == task[c].out IN
    /\ Sending(c)
    /\ Len(channel[n]) < MaxChannel
    /\ channel' = [channel EXCEPT ![n] = Append(@, CommandOf(task[c]))]
    /\ Advance(c, task[c])
    /\ UNCHANGED <<coreVars, budget, nodeVars, updates, projected>>

\* The channel stays full for two seconds: the operation returns the error.
SendTimeout(c) ==
    /\ Sending(c)
    /\ Len(channel[task[c].out]) = MaxChannel
    /\ Abort(c)
    /\ UNCHANGED <<coreVars, budget, channel, nodeVars, updates, projected>>

Push(c) ==
    /\ At(c, "push")
    /\ queue' = [queue EXCEPT ![task[c].node] = @ \o task[c].tracks]
    /\ Advance(c, task[c])
    /\ UNCHANGED <<index, repeat, selected, transport, budget, channel, nodeVars, updates, projected>>

Extend(c) ==
    /\ At(c, "extend")
    /\ transport' = [transport EXCEPT ![task[c].out].loaded = @ + Len(task[c].tracks)]
    /\ Advance(c, task[c])
    /\ UNCHANGED <<queue, index, repeat, selected, budget, channel, nodeVars, updates, projected>>

Shrink(c) ==
    LET n == task[c].out
        l == SaturatingSub(transport[n].loaded, 1) IN
    /\ At(c, "shrink")
    /\ transport' = [transport EXCEPT ![n].loaded = l,
                                      ![n].start  = IF l = 0 THEN None ELSE @]
    /\ Advance(c, task[c])
    /\ UNCHANGED <<queue, index, repeat, selected, budget, channel, nodeVars, updates, projected>>

\* clear_queue empties whatever node is selected by now.
Wipe(c) ==
    /\ At(c, "wipe")
    /\ queue' = [queue EXCEPT ![selected] = <<>>]
    /\ index' = [index EXCEPT ![selected] = None]
    /\ Advance(c, task[c])
    /\ UNCHANGED <<repeat, selected, transport, budget, channel, nodeVars, updates, projected>>

Replace(c) ==
    LET n == task[c].node IN
    /\ At(c, "replace")
    /\ queue' = [queue EXCEPT ![n] = task[c].tracks]
    /\ index' = [index EXCEPT ![n] = task[c].pos]
    /\ Advance(c, task[c])
    /\ UNCHANGED <<repeat, selected, transport, budget, channel, nodeVars, updates, projected>>

\* The write section of play_node
StartIndex(c) ==
    LET n == task[c].node IN
    /\ At(c, "start")
    /\ index' = [index EXCEPT ![n] = IF @ = None /\ queue[n] # <<>> THEN 0 ELSE @]
    /\ Advance(c, task[c])
    /\ UNCHANGED <<queue, repeat, selected, transport, budget, channel, nodeVars, updates, projected>>

\* Mutant: the queue is loaded into the node that was selected before.
WrongLoad(c) ==
    LET n == task[c].node IN
    /\ At(c, "load")
    /\ Advance(c, [task[c] EXCEPT
                      !.proj = [ProjectionFrom(queue[n], index[n])
                                   EXCEPT !.loaded = Len(queue[n])]])
    /\ UNCHANGED <<coreVars, budget, channel, nodeVars, updates, projected>>

\* The read section of sync_output_to_global; it counts the whole queue as loaded.
Load(c) ==
    LET n == task[c].node IN
    /\ At(c, "load")
    /\ Advance(c, [task[c] EXCEPT
                      !.out  = n,
                      !.proj = [ProjectionFrom(queue[n], index[n])
                                   EXCEPT !.loaded = Len(queue[n])]])
    /\ UNCHANGED <<coreVars, budget, channel, nodeVars, updates, projected>>

TaskStep(c) ==
    \/ GoToTarget(c) \/ Rebuild(c) \/ ReadOutputs(c) \/ Send(c) \/ SendTimeout(c)
    \/ Push(c) \/ Extend(c) \/ Shrink(c) \/ Wipe(c) \/ Replace(c) \/ StartIndex(c) \/ Load(c)

-----------------------------------------------------------------------------
(* The node: execute_command against MPD, and the poller.                  *)

\* MPD (external).
EmptyMpd == [queue |-> <<>>, song |-> None]

MpdDelete(m, i) ==
    IF i \notin Positions(m.queue) THEN m
    ELSE [m EXCEPT !.queue = Removed(@, i),
                   !.song  = IF @ # i THEN IndexAfterRemove(@, i, m.queue)
                             ELSE IF i + 1 < Len(m.queue) THEN i ELSE None]

MpdMove(m, i, j) ==
    IF {i, j} \subseteq Positions(m.queue)
    THEN [m EXCEPT !.queue = Moved(@, i, j), !.song = IndexAfterMove(@, i, j)]
    ELSE m

MpdAfter(m, cmd) ==
    CASE cmd.type = "set_queue"  -> [queue |-> cmd.paths, song |-> None]
      [] cmd.type = "add"        -> [m EXCEPT !.queue = @ \o cmd.paths]
      [] cmd.type = "play"       -> [m EXCEPT !.song = IF @ = None /\ m.queue # <<>> THEN 0 ELSE @]
      [] cmd.type = "remove"     -> MpdDelete(m, cmd.pos)
      [] cmd.type = "move_track" -> MpdMove(m, cmd.pos, cmd.to)
      [] OTHER                   -> m

\* The generation is stored after MPD has answered, not with the queue.
ExecuteCommand(n) ==
    /\ channel[n] # <<>>
    /\ storing[n] = None
    /\ LET cmd == Head(channel[n]) IN
       /\ mpd' = [mpd EXCEPT ![n] = MpdAfter(@, cmd)]
       /\ storing' = [storing EXCEPT ![n] = IF cmd.type = "set_queue" THEN cmd.gen ELSE None]
    /\ channel' = [channel EXCEPT ![n] = Tail(@)]
    /\ UNCHANGED <<coreVars, task, budget, nodeGen, sample, updates, projected>>

StoreGeneration(n) ==
    /\ storing[n] # None
    /\ nodeGen' = [nodeGen EXCEPT ![n] = storing[n]]
    /\ storing' = [storing EXCEPT ![n] = None]
    /\ UNCHANGED <<coreVars, task, budget, channel, mpd, sample, updates, projected>>

\* What a failed command leaves: MPD runs a command list up to the entry it
\* refuses, and the answer to what it did carry out may be lost.
MpdAfterFailure(m, cmd) ==
    {m} \cup
    CASE cmd.type = "set_queue" ->
            {MpdAfter(m, [cmd EXCEPT !.paths = SubSeq(@, 1, k)]) : k \in 0 .. Len(cmd.paths)}
      [] cmd.type = "add" ->
            {MpdAfter(m, [cmd EXCEPT !.paths = SubSeq(@, 1, k)]) : k \in 0 .. Len(cmd.paths)}
      [] OTHER -> {MpdAfter(m, cmd)}

\* MPD refuses the command or cannot be reached: a warning, nothing stored.
CommandFails(n) ==
    /\ FaultyMpd
    /\ channel[n] # <<>>
    /\ storing[n] = None
    /\ \E m \in MpdAfterFailure(mpd[n], Head(channel[n])) : mpd' = [mpd EXCEPT ![n] = m]
    /\ channel' = [channel EXCEPT ![n] = Tail(@)]
    /\ UNCHANGED <<coreVars, task, budget, storing, nodeGen, sample, updates, projected>>

\* MPD (external) goes on to the next song, or stops after the last.
SongEnds(n) ==
    /\ mpd[n].song # None
    /\ mpd' = [mpd EXCEPT ![n].song = IF @ + 1 < Len(mpd[n].queue) THEN @ + 1 ELSE None]
    /\ UNCHANGED <<coreVars, task, budget, channel, storing, nodeGen, sample, updates, projected>>

\* poll_status reads MPD's status and then, elsewhere, loads the generation.
PollStatus(n) ==
    /\ n \in Pollers
    /\ sample[n] = NoSample
    /\ sample' = [sample EXCEPT ![n] = mpd[n].song]
    /\ UNCHANGED <<coreVars, task, budget, channel, mpd, storing, nodeGen, updates, projected>>

\* NodeEventBroadcaster: try_send drops the update when the channel is full.
Report(n) ==
    /\ sample[n] # NoSample
    /\ sample' = [sample EXCEPT ![n] = NoSample]
    /\ updates' = [updates EXCEPT ![n] =
                      IF Len(@) < MaxUpdates
                      THEN Append(@, [song |-> sample[n], gen |-> nodeGen[n]])
                      ELSE @]
    /\ UNCHANGED <<coreVars, task, budget, channel, mpd, storing, nodeGen, projected>>

-----------------------------------------------------------------------------
(* sync_node_state: the projected index is computed under the transport    *)
(* lock and written, if it is a position of the queue, under the state one.*)

\* Mutant: MPD's song is taken for a position of the queue.
WrongProjectedIndex(t, u) ==
    IF u.gen = t.gen /\ u.song < t.loaded /\ t.start # None THEN u.song ELSE None

ProjectedIndex(t, u) ==
    IF /\ u.gen = t.gen
       /\ u.song # None
       /\ u.song < t.loaded
       /\ t.start # None
    THEN t.start + u.song
    ELSE None

ReceiveUpdate(n) ==
    /\ updates[n] # <<>>
    /\ projected[n] = NoUpdate
    /\ projected' = [projected EXCEPT ![n] = ProjectedIndex(transport[n], Head(updates[n]))]
    /\ updates' = [updates EXCEPT ![n] = Tail(@)]
    /\ UNCHANGED <<coreVars, task, budget, channel, nodeVars>>

\* Mutant: the index is written without looking at the queue it is now for.
WrongApplyUpdate(n) ==
    /\ projected[n] # NoUpdate
    /\ index' = [index EXCEPT ![n] = IF projected[n] # None THEN projected[n] ELSE @]
    /\ projected' = [projected EXCEPT ![n] = NoUpdate]
    /\ UNCHANGED <<queue, repeat, selected, transport, task, budget, channel, nodeVars, updates>>

ApplyUpdate(n) ==
    /\ projected[n] # NoUpdate
    /\ index' = [index EXCEPT ![n] =
                    IF projected[n] \in Positions(queue[n]) THEN projected[n] ELSE @]
    /\ projected' = [projected EXCEPT ![n] = NoUpdate]
    /\ UNCHANGED <<queue, repeat, selected, transport, task, budget, channel, nodeVars, updates>>

-----------------------------------------------------------------------------
(* A start right after the nodes connected: sync_output_to_global has put  *)
(* each node's projection, generation 1, on its channel.                   *)
Init ==
    /\ queue \in [Nodes -> InitialQueues]
    /\ index \in {f \in [Nodes -> {None, 0}] : \A n \in Nodes : ValidIndex(f[n], queue[n])}
    /\ repeat = [n \in Nodes |-> "off"]
    /\ selected \in Nodes
    /\ transport = [n \in Nodes |-> [gen |-> 1, start |-> index[n], loaded |-> Len(queue[n])]]
    /\ task = [c \in Clients |-> NoTask]
    /\ budget = MaxOps
    /\ channel = [n \in Nodes |-> <<[type |-> "set_queue", gen |-> 1,
                                     paths |-> Suffix(queue[n], index[n])]>>]
    /\ mpd = [n \in Nodes |-> EmptyMpd]
    /\ storing = [n \in Nodes |-> None]
    /\ nodeGen = [n \in Nodes |-> 0]
    /\ sample = [n \in Nodes |-> NoSample]
    /\ updates = [n \in Nodes |-> <<>>]
    /\ projected = [n \in Nodes |-> NoUpdate]

Request(c) ==
    \/ \E i \in Positions(queue[selected]) : PlayIndex(c, i) \/ RemoveFromQueue(c, i)
    \/ \E i, j \in Positions(queue[selected]) : MoveInQueue(c, i, j)
    \/ \E step \in {"next", "previous"} : Skip(c, step)
    \/ Play(c) \/ ClearQueue(c)
    \/ \E t \in Tracks : AddToQueue(c, t)
    \/ \E q \in InitialQueues, i \in Starts : SetQueue(c, q, i)
    \/ \E mode \in RepeatModes : SetRepeat(c, mode)
    \/ \E n \in Nodes, resume \in BOOLEAN : SelectNode(c, n, resume)

NodeStep(n) ==
    \/ ExecuteCommand(n) \/ StoreGeneration(n) \/ CommandFails(n) \/ SongEnds(n)
    \/ PollStatus(n) \/ Report(n) \/ ReceiveUpdate(n) \/ ApplyUpdate(n)

Next == (\E c \in Clients : Request(c) \/ TaskStep(c)) \/ (\E n \in Nodes : NodeStep(n))

(* Spawned tasks run to their end, the node executes what it receives and  *)
(* polls forever, the server reads its sockets (of the two steps joined at *)
(* most one is enabled).  Clients owe us nothing and songs need not end.   *)
Fairness ==
    /\ \A c \in Clients : WF_vars(TaskStep(c))
    /\ \A n \in Nodes : WF_vars(ExecuteCommand(n) \/ StoreGeneration(n))
    /\ \A n \in Pollers : /\ WF_vars(PollStatus(n) \/ Report(n))
                          /\ WF_vars(ReceiveUpdate(n) \/ ApplyUpdate(n))

Spec == Init /\ [][Next]_vars
FairSpec == Spec /\ Fairness

-----------------------------------------------------------------------------
(* Properties.                                                             *)

Steps == {"go_to", "next", "previous", "rebuild", "outputs", "set_queue", "play", "stop",
          "start", "push", "add", "extend", "wipe", "replace", "remove", "shrink",
          "move_track", "load"}

Index == Nat \cup {None}

ProjectionType == [start : Index, paths : Seq(Tracks), loaded : Nat]

TaskType ==
    [todo : Seq(Steps), node : Nodes, out : Nodes, gen : Nat, tracks : Seq(Tracks),
     proj : ProjectionType, pos : Nat, to : Nat]

Command ==
    [type : {"set_queue"}, paths : Seq(Tracks), gen : Nat]
    \cup [type : {"add"}, paths : Seq(Tracks)]
    \cup [type : {"remove"}, pos : Nat]
    \cup [type : {"move_track"}, pos : Nat, to : Nat]
    \cup [type : {"play", "stop"}]

MpdType == [queue : Seq(Tracks), song : Index]

UpdateType == [song : Index, gen : Nat]

\* Every variable keeps its type through every step of every operation.
TypeOK ==
    /\ queue \in [Nodes -> Seq(Tracks)]
    /\ index \in [Nodes -> Index]
    /\ repeat \in [Nodes -> RepeatModes]
    /\ selected \in Nodes
    /\ transport \in [Nodes -> [gen : Nat, start : Index, loaded : Nat]]
    /\ task \in [Clients -> TaskType]
    /\ budget \in Nat
    /\ channel \in [Nodes -> Seq(Command)]
    /\ mpd \in [Nodes -> MpdType]
    /\ storing \in [Nodes -> Index]
    /\ nodeGen \in [Nodes -> Nat]
    /\ sample \in [Nodes -> Index \cup {NoSample}]
    /\ updates \in [Nodes -> Seq(UpdateType)]
    /\ projected \in [Nodes -> Index \cup {NoUpdate}]

StoresBadStart(c) == Replace(c) /\ task[c].pos \notin Positions(task[c].tracks)

(* A node's index that is a position of its queue stays one, whatever      *)
(* removals, clears, lists and late state updates interleave: only a       *)
(* set_queue whose client sent a start outside its list breaks it.         *)
IndexStaysInRange ==
    [][\A n \in Nodes : ValidIndex(index[n], queue[n]) =>
          \/ ValidIndex(index'[n], queue'[n])
          \/ \E c \in Clients : task[c].node = n /\ StoresBadStart(c)]_vars

Quiescent == /\ \A c \in Clients : Idle(c)
             /\ \A n \in Nodes : channel[n] = <<>> /\ storing[n] = None

(* Once every command has been carried out, each node reports with the     *)
(* generation the core expects and its MPD holds the queue from the        *)
(* projection's start on.                                                  *)
MirrorAgrees ==
    Quiescent => \A n \in Nodes : /\ nodeGen[n] = transport[n].gen
                                  /\ mpd[n].queue = Suffix(queue[n], transport[n].start)

(* When the clients have stopped, the current track of a node that is      *)
(* polled becomes and remains the song its MPD is at, wherever the         *)
(* projection has a start.                                                 *)
IndexCatchesUp ==
    <>[](\A n \in Pollers : mpd[n].song # None /\ transport[n].start # None
                             => index[n] = transport[n].start + mpd[n].song)

(* PER_NODE_QUEUE.md's "No queue operation ever touches another node's     *)
(* queue implicitly": an operation changes the queue of its own node only. *)
QueueOpsStayOnNode ==
    [][\A c \in Clients : ~Idle(c) /\ task'[c] # task[c]
          => \A n \in Nodes \ {task[c].node} : queue'[n] = queue[n]]_vars

(* Removing or moving another track leaves the current track current.      *)
EditsKeepCurrentTrack ==
    [][\A c \in Clients : LET cur == index[selected] IN
          /\ cur \in Positions(queue[selected])
          /\ \/ \E i \in Positions(queue[selected]) \ {cur} : RemoveFromQueue(c, i)
             \/ \E i, j \in Positions(queue[selected]) : MoveInQueue(c, i, j)
          => TrackAt(queue'[selected], index'[selected]) = TrackAt(queue[selected], cur)]_vars
=============================================================================
