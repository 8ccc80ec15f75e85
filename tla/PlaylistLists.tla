--------------------------- MODULE PlaylistLists ---------------------------
(***************************************************************************)
(* What playlists are to clients.  A normal playlist is a list of tracks;  *)
(* a command that was sent takes effect at once on one playlist and is     *)
(* then over, or is dropped without any effect, and nothing else changes   *)
(* the lists.  (Commands are not answered: a client sees the result when   *)
(* it asks for the list.)  Library implements this.                        *)
(***************************************************************************)
EXTENDS QueueOps

CONSTANTS Clients, Playlists, Smart, Nothing

VARIABLES
    lists,   \* the playlists there are: a sequence of tracks each, or Smart
    pending  \* the command each client is waiting for, or Nothing

vars == <<lists, pending>>

Normal(p) == p \in DOMAIN lists /\ lists[p] # Smart

Change(p, list) == lists' = [lists EXCEPT ![p] = list]

Create(p, kind) ==
    /\ p \notin DOMAIN lists
    /\ lists' = [q \in DOMAIN lists \cup {p} |->
                   IF q # p THEN lists[q] ELSE IF kind = "smart" THEN Smart ELSE <<>>]

Delete(p) == lists' = [q \in DOMAIN lists \ {p} |-> lists[q]]

Set(p, ids) == Normal(p) /\ Change(p, ids)

Extend(p, ids) == Normal(p) /\ Change(p, lists[p] \o ids)

Remove(p, i) ==
    /\ Normal(p) /\ i \in Positions(lists[p])
    /\ Change(p, Removed(lists[p], i))

(* A target after the end is the end.                                      *)
Move(p, from, to) ==
    LET last == Len(lists[p]) - 1
    IN  /\ Normal(p) /\ from \in Positions(lists[p])
        /\ Change(p, Moved(lists[p], from, IF to > last THEN last ELSE to))

Effect(cmd) ==
    \/ cmd.op = "create" /\ \E p \in Playlists : Create(p, cmd.kind)
    \/ cmd.op = "delete" /\ Delete(cmd.p)
    \/ cmd.op = "set"    /\ Set(cmd.p, cmd.ids)
    \/ cmd.op = "append" /\ Extend(cmd.p, cmd.ids)
    \/ cmd.op = "remove" /\ Remove(cmd.p, cmd.from)
    \/ cmd.op = "move"   /\ Move(cmd.p, cmd.from, cmd.to)

Send(c) ==
    /\ pending[c] = Nothing
    /\ pending' = [pending EXCEPT ![c] = pending'[c]]
    /\ UNCHANGED lists

Over(c) == pending' = [pending EXCEPT ![c] = Nothing]

Apply(c) == pending[c] # Nothing /\ Effect(pending[c]) /\ Over(c)
Drop(c)  == pending[c] # Nothing /\ Over(c) /\ UNCHANGED lists

Init == pending = [c \in Clients |-> Nothing] /\ DOMAIN lists \subseteq Playlists

Next == \E c \in Clients : Send(c) \/ Apply(c) \/ Drop(c)

Spec == Init /\ [][Next]_vars
=============================================================================
