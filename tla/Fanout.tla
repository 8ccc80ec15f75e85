------------------------------- MODULE Fanout -------------------------------
(* What becomes of a change of the core's state: Core::broadcast and the   *)
(* subscribers it calls in turn, which are the channel of the WebSocket    *)
(* clients (kanade-adapter-ws), the PluginBridge with the Last.fm plugin,  *)
(* and the persister, which writes the database the state is restored from *)
(* at the next start (kanade/src/main.rs).                                 *)
(*                                                                         *)
(* What the operations of the core do is the subject of Projection,        *)
(* NodeSessions and LocalSessions: here a change makes some node record    *)
(* into another, and every interleaving of concurrent broadcasts follows.  *)
EXTENDS Integers, Sequences, FiniteSets, Functions, SequencesExt

CONSTANTS
    Nodes, Tracks,
    Tasks,          \* connections whose operations broadcast
    Clients,        \* WebSocket clients
    Records,        \* records that operations give a node: NodeRecord
    Capacity,       \* of the channel of messages to clients
    BatchSize,      \* most pending scrobbles that are retried at once
    None,
    Instances       \* bound: [start, left]: the state that an earlier life of the server
                    \* stored last, and how often each kind of event happens

Status     == {"playing", "paused", "stopped"}
Indexes    == Nat \cup {None}
\* late: the position is past the scrobble threshold of the current track.
NodeRecord == [queue : Seq(Tracks), index : Indexes, status : Status, late : BOOLEAN]

PlaybackState(s) ==
    /\ DOMAIN s.nodes \subseteq Nodes /\ \A n \in DOMAIN s.nodes : s.nodes[n] \in NodeRecord
    /\ s.selected \in Nodes \cup {None} /\ s.queue \in Seq(Tracks) /\ s.index \in Indexes

ASSUME FanoutConstants ==
    /\ Capacity \in Nat \ {0} /\ BatchSize \in Nat \ {0}
    /\ None \notin Nodes \cup Tracks \cup Tasks
    /\ Records \subseteq NodeRecord /\ \A i \in Instances : PlaybackState(i.start)

VARIABLES
    state,      \* the core's PlaybackState: [nodes, selected, queue, index]
    task,       \* operations under way, with their snapshot
    sent,       \* the channel of messages: how many were sent, and the last of them
    client,     \* WebSocket clients: what they have read and what they show
    prev,       \* PluginBridge.prev: of the state, its index and if it had a selected node
    points,     \* the track of every scrobble point found since the start
    jobs,       \* tasks that the Last.fm plugin has spawned
    pending,    \* pending_scrobbles
    accepted,   \* points that Last.fm has taken
    rows,       \* table playback_state: global row and a row for each node
    holder,     \* whose persist holds the database
    persisted,  \* snapshot whose persist was the last to end, None after one was cut short
    files,      \* tracks that the library has
    left        \* budget of every bounded kind of event

coreVars   == <<state, task>>
wsVars     == <<sent, client>>
pluginVars == <<prev, points, jobs, pending, accepted>>
dbVars     == <<rows, holder, persisted>>
vars       == <<coreVars, wsVars, pluginVars, dbVars, files, left>>

Spend(kind) == left[kind] > 0 /\ left' = [left EXCEPT ![kind] = @ - 1]

-----------------------------------------------------------------------------
(* PlaybackState *)

TrackOf(queue, index) ==
    IF index # None /\ index < Len(queue) THEN queue[index + 1] ELSE None

Selected(s) == IF s.selected \in DOMAIN s.nodes THEN s.nodes[s.selected] ELSE None

\* sync_top_level_from_selected_node.
Synced(s) ==
    IF Selected(s) = None THEN [s EXCEPT !.queue = <<>>, !.index = None]
    ELSE [s EXCEPT !.queue = Selected(s).queue, !.index = Selected(s).index]

\* current_track: that of the selected node, else that of the top level.
CurrentTrack(s) ==
    LET own == IF Selected(s) = None THEN None ELSE TrackOf(Selected(s).queue, Selected(s).index)
    IN  IF own # None THEN own ELSE TrackOf(s.queue, s.index)

NoState == [nodes |-> [n \in {} |-> None], selected |-> None, queue |-> <<>>, index |-> None]

-----------------------------------------------------------------------------
(* Core::broadcast *)

Idle == [pc |-> "idle", snap |-> NoState, events |-> <<>>, write |-> {}]
Go(t, pc) == task' = [task EXCEPT ![t].pc = pc]

WithNode(n, r) == [state EXCEPT !.nodes = [m \in DOMAIN @ \cup {n} |-> IF m = n THEN r ELSE @[m]]]

\* An operation changes the record of a node, adds one, selects one, or removes one.
Change(t) ==
    /\ task[t].pc = "idle"
    /\ \/ /\ Spend("changes")
          /\ \E n \in DOMAIN state.nodes, r \in Records : state' = WithNode(n, r)
       \/ /\ Spend("joins")
          /\ \E n \in Nodes \ DOMAIN state.nodes, r \in Records : state' = WithNode(n, r)
       \/ /\ Spend("selects")
          /\ \E n \in DOMAIN state.nodes : state' = [state EXCEPT !.selected = n]
       \/ /\ Spend("removes")
          /\ \E n \in DOMAIN state.nodes :
                state' = [state EXCEPT !.nodes = Restrict(@, DOMAIN @ \ {n}),
                                       !.selected = IF @ = n THEN None ELSE @]
    /\ Go(t, "sync")
    /\ UNCHANGED <<wsVars, pluginVars, dbVars, files>>

SyncTopLevel(t) ==
    /\ task[t].pc = "sync"
    /\ state' = Synced(state)
    /\ Go(t, "clone")
    /\ UNCHANGED <<wsVars, pluginVars, dbVars, files, left>>

\* The lock was released in between: the nodes may have changed since.
Snapshot(t) ==
    /\ task[t].pc = "clone"
    /\ task' = [task EXCEPT ![t].pc = "ws", ![t].snap = state]
    /\ UNCHANGED <<state, wsVars, pluginVars, dbVars, files, left>>

\* The channel holds the last messages only.
Sent(s) ==
    LET all == Append(sent.held, s)
    IN  [count |-> sent.count + 1,
         held  |-> IF Len(all) > Capacity THEN Tail(all) ELSE all]

ToClients(t) ==
    /\ task[t].pc = "ws"
    /\ sent' = Sent(task[t].snap)
    /\ Go(t, "bridge")
    /\ UNCHANGED <<state, client, pluginVars, dbVars, files, left>>

-----------------------------------------------------------------------------
(* PluginBridge *)

\* diff_events: the two kinds of event that the plugin acts on.
Announced(s) ==
    IF s.index # prev.index /\ CurrentTrack(s) # None THEN <<[kind |-> "changed"]>> ELSE <<>>

Scrobbles(s) ==
    /\ prev.node /\ Selected(s) # None
    /\ Selected(s).status = "playing" /\ Selected(s).late
    /\ CurrentTrack(s) \notin prev.scrobbled \cup {None}

\* on_state_changed, under the lock of prev.
Diff(t) ==
    LET s   == task[t].snap
        new == Scrobbles(s)
    IN  /\ task[t].pc = "bridge"
        /\ points' = IF new THEN Append(points, CurrentTrack(s)) ELSE points
        /\ prev' = [index |-> s.index, node |-> Selected(s) # None,
                    scrobbled |-> prev.scrobbled \cup IF new THEN {CurrentTrack(s)} ELSE {}]
        /\ task' = [task EXCEPT ![t].pc = "events",
                                ![t].events = Announced(s) \o
                                    IF new THEN <<[kind |-> "point", id |-> Len(points')]>> ELSE <<>>]
        /\ UNCHANGED <<state, wsVars, jobs, pending, accepted, dbVars, files, left>>

\* One event reaches the plugin, which spawns a task for it.
OnEvent(t) ==
    /\ task[t].pc = "events" /\ task[t].events # <<>>
    /\ LET e == Head(task[t].events) IN
       jobs' = Append(jobs, IF e.kind = "changed" THEN [pc |-> "flush", todo |-> <<>>, failed |-> <<>>]
                            ELSE [pc |-> "scrobble", todo |-> <<e.id>>, failed |-> <<>>])
    /\ task' = [task EXCEPT ![t].events = Tail(@)]
    /\ UNCHANGED <<state, wsVars, prev, points, pending, accepted, dbVars, files, left>>

-----------------------------------------------------------------------------
(* The Last.fm plugin; update_now_playing has no state here. *)

\* scrobble(): Last.fm has it, or the call failed. A call whose answer was lost has failed,
\* too: the point is sent again although Last.fm has it.
Call(id, ok) ==
    \/ ok /\ accepted' = accepted \cup {id} /\ UNCHANGED left
    \/ ~ok /\ Spend("api") /\ accepted' \in {accepted, accepted \cup {id}}

Ends(j) == jobs' = RemoveAt(jobs, j)

\* ScrobblePoint; a failure goes to the end of what is pending.
Scrobble(j) ==
    /\ jobs[j].pc = "scrobble"
    /\ \E ok \in BOOLEAN :
          /\ Call(Head(jobs[j].todo), ok)
          /\ IF ok THEN Ends(j) ELSE jobs' = [jobs EXCEPT ![j].pc = "push"]
    /\ UNCHANGED <<coreVars, wsVars, prev, points, pending, dbVars, files>>

PushPending(j) ==
    /\ jobs[j].pc = "push"
    /\ pending' = pending \o jobs[j].todo
    /\ Ends(j)
    /\ UNCHANGED <<coreVars, wsVars, prev, points, accepted, dbVars, files, left>>

\* TrackChanged: flush_pending_scrobbles.
Drain(j) ==
    LET n == IF Len(pending) < BatchSize THEN Len(pending) ELSE BatchSize
    IN  /\ jobs[j].pc = "flush"
        /\ pending' = SubSeq(pending, n + 1, Len(pending))
        /\ IF n = 0 THEN Ends(j)
           ELSE jobs' = [jobs EXCEPT ![j].pc = "retry", ![j].todo = SubSeq(pending, 1, n)]
        /\ UNCHANGED <<coreVars, wsVars, prev, points, accepted, dbVars, files, left>>

Retry(j) ==
    /\ jobs[j].pc = "retry" /\ jobs[j].todo # <<>>
    /\ \E ok \in BOOLEAN :
          /\ Call(Head(jobs[j].todo), ok)
          /\ jobs' = [jobs EXCEPT ![j].todo = Tail(@),
                                  ![j].failed = IF ok THEN @ ELSE Append(@, Head(jobs[j].todo))]
    /\ UNCHANGED <<coreVars, wsVars, prev, points, pending, dbVars, files>>

\* Mutant: what became pending meanwhile is overwritten.
PutBackOver(j) ==
    /\ jobs[j].pc = "retry" /\ jobs[j].todo = <<>>
    /\ pending' = IF jobs[j].failed = <<>> THEN pending ELSE jobs[j].failed
    /\ Ends(j)
    /\ UNCHANGED <<coreVars, wsVars, prev, points, accepted, dbVars, files, left>>

\* Those that failed again go before what became pending meanwhile.
PutBack(j) ==
    /\ jobs[j].pc = "retry" /\ jobs[j].todo = <<>>
    /\ pending' = jobs[j].failed \o pending
    /\ Ends(j)
    /\ UNCHANGED <<coreVars, wsVars, prev, points, accepted, dbVars, files, left>>

-----------------------------------------------------------------------------
(* run_ui_mode: the client is subscribed before it is sent the state. *)

Subscribe(c) ==
    /\ client[c].pc = "none"
    /\ Spend("clients")
    /\ client' = [client EXCEPT ![c] = [pc |-> "subscribed", at |-> sent.count, view |-> NoState]]
    /\ UNCHANGED <<coreVars, sent, pluginVars, dbVars, files>>

Greet(c) ==
    /\ client[c].pc = "subscribed"
    /\ client' = [client EXCEPT ![c].pc = "open", ![c].view = state]
    /\ UNCHANGED <<coreVars, sent, pluginVars, dbVars, files, left>>

Oldest == sent.count - Len(sent.held)

\* Mutant: a client that lags goes on with what is sent from now on.
ReadResubscribed(c) ==
    /\ client[c].pc = "open" /\ client[c].at < sent.count
    /\ client' = IF client[c].at < Oldest THEN [client EXCEPT ![c].at = sent.count]
                 ELSE [client EXCEPT ![c].at = @ + 1, ![c].view = sent.held[client[c].at - Oldest + 1]]
    /\ UNCHANGED <<coreVars, sent, pluginVars, dbVars, files, left>>

\* recv: Lagged when the next message is no longer held, else that message.
Read(c) ==
    /\ client[c].pc = "open" /\ client[c].at < sent.count
    /\ client' = IF client[c].at < Oldest THEN [client EXCEPT ![c].at = Oldest]
                 ELSE [client EXCEPT ![c].at = @ + 1, ![c].view = sent.held[client[c].at - Oldest + 1]]
    /\ UNCHANGED <<coreVars, sent, pluginVars, dbVars, files, left>>

Away == [pc |-> "none", at |-> 0, view |-> NoState]

Leave(c) ==
    /\ client[c].pc # "none"
    /\ client' = [client EXCEPT ![c] = Away]
    /\ UNCHANGED <<coreVars, sent, pluginVars, dbVars, files, left>>

-----------------------------------------------------------------------------
(* DatabaseStatePersister: the statements are transactions of their own. *)

GlobalRow(s) == [queue |-> s.queue, index |-> s.index, selected |-> s.selected]
NodeRow(r)   == [queue |-> r.queue, index |-> r.index]
RowsOf(s)    == [global |-> GlobalRow(s), nodes |-> [n \in DOMAIN s.nodes |-> NodeRow(s.nodes[n])]]

\* The database is locked, and save_playback_state.
SaveGlobal(t) ==
    /\ task[t].pc = "events" /\ task[t].events = <<>> /\ holder = None
    /\ holder' = t
    /\ rows' = [rows EXCEPT !.global = GlobalRow(task[t].snap)]
    /\ task' = [task EXCEPT ![t].pc = "save", ![t].write = DOMAIN task[t].snap.nodes]
    /\ UNCHANGED <<state, wsVars, pluginVars, persisted, files, left>>

SaveNode(t) ==
    \E n \in task[t].write :
       /\ task[t].pc = "save"
       /\ rows' = [rows EXCEPT !.nodes = [m \in DOMAIN @ \cup {n} |->
                                             IF m = n THEN NodeRow(task[t].snap.nodes[n]) ELSE @[m]]]
       /\ task' = [task EXCEPT ![t].write = @ \ {n}]
       /\ UNCHANGED <<state, wsVars, pluginVars, holder, persisted, files, left>>

\* Mutant: rows of nodes that are gone stay.
PruneNothing(t) ==
    /\ task[t].pc = "save" /\ task[t].write = {}
    /\ holder' = None /\ persisted' = task[t].snap
    /\ task' = [task EXCEPT ![t] = Idle]
    /\ UNCHANGED <<state, wsVars, pluginVars, rows, files, left>>

\* prune_node_states_except, and the end of the broadcast.
Prune(t) ==
    /\ task[t].pc = "save" /\ task[t].write = {}
    /\ rows' = [rows EXCEPT !.nodes = Restrict(@, DOMAIN @ \cap DOMAIN task[t].snap.nodes)]
    /\ holder' = None /\ persisted' = task[t].snap
    /\ task' = [task EXCEPT ![t] = Idle]
    /\ UNCHANGED <<state, wsVars, pluginVars, files, left>>

\* A statement fails: the rest is not written, and the failure is only logged.
SaveFails(t) ==
    /\ task[t].pc = "save"
    /\ Spend("db")
    /\ holder' = None /\ persisted' = None
    /\ task' = [task EXCEPT ![t] = Idle]
    /\ UNCHANGED <<state, wsVars, pluginVars, rows, files>>

\* The library loses a track: a commit of the scanner, which has a connection of its own
\* to the database.
DeleteTrack ==
    /\ Spend("deletes")
    /\ \E x \in files : files' = files \ {x}
    /\ UNCHANGED <<coreVars, wsVars, pluginVars, dbVars>>

-----------------------------------------------------------------------------
(* The start of the server: the state is restored from the rows. *)

\* The tracks of a queue that the library still has, in their order.
Kept(queue) ==
    LET kept[i \in 0..Len(queue)] ==
           IF i = 0 THEN <<>>
           ELSE IF queue[i] \in files THEN Append(kept[i - 1], queue[i]) ELSE kept[i - 1]
    IN  kept[Len(queue)]

InRange(index, q)  == IF index # None /\ index < Len(q) THEN index ELSE None

\* Mutant: a track that the library lost is restored all the same.
RestoredUnfiltered(r) ==
    [nodes    |-> [n \in DOMAIN r.nodes |->
                     [queue |-> [i \in DOMAIN r.nodes[n].queue |->
                                   IF r.nodes[n].queue[i] \in files THEN r.nodes[n].queue[i] ELSE None],
                      index |-> r.nodes[n].index, status |-> "stopped", late |-> FALSE]],
     selected |-> r.global.selected, queue |-> Kept(r.global.queue),
     index    |-> InRange(r.global.index, Kept(r.global.queue))]

\* Tracks that the library lost are left out; an index stays while it is one of the list.
Restored(r) ==
    [nodes    |-> [n \in DOMAIN r.nodes |->
                     [queue |-> Kept(r.nodes[n].queue), status |-> "stopped", late |-> FALSE,
                      index |-> InRange(r.nodes[n].index, Kept(r.nodes[n].queue))]],
     selected |-> r.global.selected, queue |-> Kept(r.global.queue),
     index    |-> InRange(r.global.index, Kept(r.global.queue))]

NothingSent == [count |-> 0, held |-> <<>>]
NothingSeen == [index |-> None, node |-> FALSE, scrobbled |-> {}]

\* The server dies, and starts again.
Restart ==
    /\ Spend("crashes")
    /\ state' = Restored(rows)
    /\ task' = [t \in Tasks |-> Idle]
    /\ sent' = NothingSent /\ client' = [c \in Clients |-> Away]
    /\ prev' = NothingSeen /\ points' = <<>> /\ jobs' = <<>> /\ pending' = <<>> /\ accepted' = {}
    /\ holder' = None /\ persisted' = (IF holder = None THEN persisted ELSE None)
    /\ UNCHANGED <<rows, files>>

Init ==
    /\ files = Tracks
    /\ \E i \in Instances : persisted = i.start /\ left = i.left
    /\ rows = RowsOf(persisted)
    /\ state = Restored(rows)
    /\ task = [t \in Tasks |-> Idle]
    /\ sent = NothingSent /\ client = [c \in Clients |-> Away]
    /\ prev = NothingSeen /\ points = <<>> /\ jobs = <<>> /\ pending = <<>> /\ accepted = {}
    /\ holder = None

Broadcast(t) == \/ SyncTopLevel(t) \/ Snapshot(t) \/ ToClients(t) \/ Diff(t) \/ OnEvent(t)
                \/ SaveGlobal(t) \/ SaveNode(t) \/ Prune(t)
LastFm(j)    == Scrobble(j) \/ PushPending(j) \/ Drain(j) \/ Retry(j) \/ PutBack(j)
Client(c)    == Greet(c) \/ Read(c)

Next == \/ \E t \in Tasks : Change(t) \/ Broadcast(t) \/ SaveFails(t)
        \/ \E j \in DOMAIN jobs : LastFm(j)
        \/ \E c \in Clients : Subscribe(c) \/ Client(c) \/ Leave(c)
        \/ DeleteTrack \/ Restart

\* The runtime polls every task that can go on, and the clients read their sockets.
Spec     == Init /\ [][Next]_vars
FairSpec == Spec /\ \A t \in Tasks : WF_vars(Broadcast(t)) /\ \A c \in Clients : WF_vars(Client(c))

-----------------------------------------------------------------------------
(* Properties *)

\* Every variable keeps its type: lists hold tracks only, also those that were restored
\* from a database whose library changed.
TypeOK ==
    /\ PlaybackState(state)
    /\ \A t \in Tasks : PlaybackState(task[t].snap) /\ task[t].write \subseteq DOMAIN task[t].snap.nodes
    /\ \A i \in DOMAIN sent.held : PlaybackState(sent.held[i])
    /\ \A c \in Clients : PlaybackState(client[c].view) /\ client[c].at \in 0..sent.count
    /\ points \in Seq(Tracks) /\ pending \in Seq(DOMAIN points) /\ accepted \subseteq DOMAIN points
    /\ prev \in [index : Indexes, node : BOOLEAN, scrobbled : SUBSET Tracks]
    /\ holder \in Tasks \cup {None} /\ files \subseteq Tracks
    /\ DOMAIN rows.nodes \subseteq Nodes

\* From a persist that succeeds to the next one the database holds one snapshot, whole and
\* nothing else: whichever persists waited meanwhile, and whatever a crash or a failure had
\* left before. (Of what a persist that failed or crashed leaves it claims nothing.)
StoredIsOneSnapshot == holder = None /\ persisted # None => rows = RowsOf(persisted)

InFlight(id) ==
    \/ \E t \in Tasks : \E i \in DOMAIN task[t].events : task[t].events[i] = [kind |-> "point", id |-> id]
    \/ \E j \in DOMAIN jobs : id \in ToSet(jobs[j].todo) \cup ToSet(jobs[j].failed)

\* While the server runs no scrobble point is lost, however failures, retries and new
\* points overlap, and a track has one at most. (Last.fm may be sent a point twice.)
NoScrobbleLost ==
    /\ \A id \in DOMAIN points : id \in accepted \cup ToSet(pending) \/ InFlight(id)
    /\ \A i, k \in DOMAIN points : points[i] = points[k] => i = k

\* When operations stop, every client that stays comes to show what was sent last, or the
\* state it was greeted with when nothing was sent since: also one that lagged.
ClientsCatchUp ==
    <>[](\A c \in Clients : client[c].pc = "open" =>
            client[c].view \in {state} \cup {sent.held[i] : i \in {Len(sent.held)} \ {0}})
=============================================================================
