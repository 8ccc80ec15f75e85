------------------------------ MODULE MCFanout ------------------------------
(* Fanout on small instances: who watches, what is stored, what is scrobbled. *)
EXTENDS Fanout

CONSTANTS n1, n2, a, b, t1, t2, c1

Rec(index, late) == [queue |-> <<a, b>>, index |-> index, status |-> "playing", late |-> late]
SomeRecords == {Rec(0, TRUE), Rec(1, TRUE)}

OneNode    == [nodes |-> (n1 :> Rec(0, FALSE)), selected |-> n1, queue |-> <<a, b>>, index |-> 0]
Unselected == [OneNode EXCEPT !.selected = None, !.queue = <<>>, !.index = None]

Nothing == [changes |-> 0, joins |-> 0, selects |-> 0, removes |-> 0, clients |-> 0,
            api |-> 0, db |-> 0, crashes |-> 0, deletes |-> 0]

\* More changes than a client that does not read can catch up with, and one that returns.
Watched   == [start |-> Unselected, left |-> [Nothing EXCEPT !.changes = 3, !.clients = 2]]
\* Persists that overlap or are cut short, a node that comes and one that goes.
Stored    == [start |-> OneNode, left |-> [Nothing EXCEPT !.changes = 1, !.joins = 1, !.removes = 1, !.db = 1]]
\* A crash at any moment, and a library that changed before the restart.
Revived   == [start |-> OneNode, left |-> [Nothing EXCEPT !.joins = 1, !.selects = 1,
                                                          !.crashes = 1, !.deletes = 1]]
\* A point whose scrobble fails while another is flushed and fails again.
Scrobbled == [start |-> OneNode, left |-> [Nothing EXCEPT !.changes = 3, !.api = 3]]

All == {Watched, Stored, Revived, Scrobbled}
=============================================================================
