------------------------ MODULE NodeSessions_proofs ------------------------
(* Theorems about NodeSessions, for any nodes, processes and clients.      *)
EXTENDS NodeSessions, WellFoundedInduction, SequenceTheorems, FiniteSetTheorems, TLAPS

-----------------------------------------------------------------------------
(* The first candidate of handle_node_disconnected.                        *)

Below == {p \in Nat \X Nat : p[1] < p[2]}

\* Every nonempty set of naturals has a least element.
LEMMA LeastNatural ==
  ASSUME NEW S \in SUBSET Nat, S # {}
  PROVE  Min(S) \in S
<1>1. Below = OpToRel(<, Nat)
  BY Zenon DEF Below, OpToRel
<1>2. IsWellFoundedOn(Below, Nat)
  BY <1>1, NatLessThanWellFounded, Zenon
<1>3. PICK m \in S : \A k \in S : ~(<<k, m>> \in Below)
  BY <1>2, WFMin, Zenon
<1>4. \A k \in S : ~(k < m)
  BY <1>3 DEF Below
<1>5. \A k \in S : m <= k
  BY <1>4
<1> QED BY <1>5, Zenon DEF Min

\* The fallback is a node of the list other than the one that is lost.
LEMMA FallbackListed ==
  ASSUME order \in Seq(Ids), NEW id, FallbackFor(id) # NoId
  PROVE  FallbackFor(id) \in Ids /\ Known(FallbackFor(id)) /\ FallbackFor(id) # id
<1> DEFINE candidates == {i \in DOMAIN order : order[i] # id /\ node[order[i]].connected}
<1>1. candidates # {} /\ FallbackFor(id) = order[Min(candidates)]
  BY DEF FallbackFor
<1>2. candidates \in SUBSET Nat
  OBVIOUS
<1>3. Min(candidates) \in candidates
  BY <1>1, <1>2, LeastNatural
<1>4. PICK i \in candidates : FallbackFor(id) = order[i]
  BY <1>1, <1>3, Zenon
<1>5. i \in DOMAIN order /\ order[i] # id /\ order[i] \in Ids
  OBVIOUS
<1> QED BY <1>4, <1>5 DEF Known

-----------------------------------------------------------------------------
(* Types.                                                                  *)

Steps == {"idle", "stop_prev", "load", "resume", "selected", "play", "pause", "stop", "control"}

ConnType == [phase : Phases, proc : Procs, cmds : Seq(Commands), target : Ids \cup {NoId},
             after : {"check", "relay", "closed"}, resume : Status, isSelected : BOOLEAN]

TaskType == [step : Steps, id : Ids \cup {NoId}, prev : Ids \cup {NoId}, resume : Status]

\* The phases in which a connection's task has a node to bring to its state
Serving == {"register", "add", "read", "load", "apply", "stopping", "check"}

\* What a task on the server is about while it is at work.
TargetsOK == \A k \in Conns : conn[k].phase \in Serving => conn[k].target \in Ids
TasksOK   == \A c \in Clients : /\ task[c].step # "idle" => task[c].id \in Ids
                                /\ task[c].step = "stop_prev" => task[c].prev \in Ids

TypeInv == TypeOK /\ TargetsOK /\ TasksOK

LEMMA FreeConnType == FreeConn \in ConnType
<1>1. SomeProc \in Procs
  BY IdOfAssumption DEF SomeProc
<1>2. <<>> \in Seq(Commands)
  OBVIOUS
<1> QED BY <1>1, <1>2 DEF FreeConn, ConnType, Phases, Status

LEMMA CommandsType ==
  ASSUME NEW status \in Status
  PROVE  CommandsFor(status) \in Seq(Commands)
<1>1. /\ <<"play">> \in Seq(Commands) /\ <<"stop">> \in Seq(Commands)
      /\ <<"play", "pause">> \in Seq(Commands)
  BY DEF Commands
<1> QED BY <1>1, Zenon DEF Status, CommandsFor

LEMMA PlayerType ==
  ASSUME NEW status \in Status, NEW cmd
  PROVE  PlayerAfter(status, cmd) \in Status
BY DEF Status, PlayerAfter

\* What a step of task k may do to the connections: to another phase; on another
\* way on; to a node's state; and what others do: to send, or to lose commands.
Move(f, g, k, phase)  == g = [f EXCEPT ![k].phase = phase]
Turn(f, g, k, after)  == g = [f EXCEPT ![k].after = after]
Mails(f, g, k, cmds)  == g = [f EXCEPT ![k].cmds = cmds]
Stays(f, g, k, r)     == g = [f EXCEPT ![k] = r]

\* The fields that those steps leave alone
SameBut(f, g, j) == /\ g[j].proc = f[j].proc /\ g[j].target = f[j].target
                    /\ g[j].resume = f[j].resume /\ g[j].isSelected = f[j].isSelected

LEMMA FieldTypes ==
  ASSUME NEW r \in ConnType
  PROVE  /\ r.phase \in Phases /\ r.proc \in Procs /\ r.cmds \in Seq(Commands)
         /\ r.target \in Ids \cup {NoId} /\ r.after \in {"check", "relay", "closed"}
         /\ r.after \in Phases /\ r.resume \in Status /\ r.isSelected \in BOOLEAN
BY DEF ConnType, Phases

LEMMA MoveProperties ==
  ASSUME NEW f \in [Conns -> ConnType], NEW k \in Conns, NEW phase \in Phases,
         NEW g, Move(f, g, k, phase)
  PROVE  /\ g \in [Conns -> ConnType]
         /\ \A j \in Conns : /\ SameBut(f, g, j) /\ g[j].after = f[j].after
                              /\ g[j].phase = IF j = k THEN phase ELSE f[j].phase
BY DEF ConnType, SameBut, Move

LEMMA TurnProperties ==
  ASSUME NEW f \in [Conns -> ConnType], NEW k \in Conns,
         NEW after \in {"check", "relay", "closed"}, NEW g, Turn(f, g, k, after)
  PROVE  /\ g \in [Conns -> ConnType]
         /\ \A j \in Conns : /\ SameBut(f, g, j) /\ g[j].phase = f[j].phase
                              /\ g[j].after = IF j = k THEN after ELSE f[j].after
BY DEF ConnType, SameBut, Turn

LEMMA MailsProperties ==
  ASSUME NEW f \in [Conns -> ConnType], NEW k \in Conns, NEW cmds \in Seq(Commands),
         NEW g, Mails(f, g, k, cmds)
  PROVE  /\ g \in [Conns -> ConnType]
         /\ \A j \in Conns : /\ SameBut(f, g, j) /\ g[j].phase = f[j].phase
                              /\ g[j].after = f[j].after
BY DEF ConnType, SameBut, Mails

LEMMA StaysProperties ==
  ASSUME NEW f \in [Conns -> ConnType], NEW k \in Conns, NEW r \in ConnType,
         NEW g, Stays(f, g, k, r)
  PROVE  /\ g \in [Conns -> ConnType]
         /\ g[k] = r /\ \A j \in Conns \ {k} : g[j] = f[j]
BY DEF Stays

\* What is sent changes the commands on their way and nothing else.
LEMMA SentProperties ==
  ASSUME conn \in [Conns -> ConnType], slot \in [Ids -> Conns \cup {NoConn}],
         NEW id \in Ids, HasOutput(id), NEW cmds \in Seq(Commands)
  PROVE  \E g \in [Conns -> ConnType] :
            /\ Sent(id, cmds) = g
            /\ \A j \in Conns : /\ SameBut(conn, g, j) /\ g[j].phase = conn[j].phase
                                 /\ g[j].after = conn[j].after
<1>1. PICK i \in Conns : i = slot[id]
  BY DEF HasOutput
<1>2. PICK new \in Seq(Commands) :
        new = IF Delivers(slot[id]) THEN conn[slot[id]].cmds \o cmds ELSE conn[slot[id]].cmds
  <2>1. conn[slot[id]].cmds \in Seq(Commands)
    BY <1>1, FieldTypes
  <2>2. conn[slot[id]].cmds \o cmds \in Seq(Commands)
    BY <2>1
  <2> QED BY <2>1, <2>2
<1>3. PICK g : g = Sent(id, cmds)
  OBVIOUS
<1>4. Mails(conn, g, i, new)
  BY <1>1, <1>2, <1>3 DEF Sent, Mails
<1> QED BY <1>3, <1>4, MailsProperties

-----------------------------------------------------------------------------
(* Steps of a connection's task.                                           *)

\* The other connections may lose commands or be sent some.
Alike(f, g, j) == SameBut(f, g, j) /\ g[j].phase = f[j].phase /\ g[j].after = f[j].after

OthersAlike(k) == \A j \in Conns \ {k} : Alike(conn, conn', j)

\* What a connection that owns an output is, whatever its node
OwnerLike(r) == r.phase \notin {"free", "register", "leave", "closed"} /\ r.after # "closed"

LEMMA MoveEffect ==
  ASSUME TargetsOK, NEW k \in Conns, NEW f \in [Conns -> ConnType],
         \A j \in Conns : Alike(conn, f, j),
         NEW phase \in Phases, Move(f, conn', k, phase), phase \in Serving => conn[k].target \in Ids
  PROVE  /\ conn' \in [Conns -> ConnType] /\ OthersAlike(k) /\ TargetsOK'
         /\ conn'[k].proc = conn[k].proc /\ conn'[k].phase = phase
         /\ conn'[k].after = conn[k].after
<1>1. /\ conn' \in [Conns -> ConnType]
      /\ \A j \in Conns : /\ SameBut(f, conn', j) /\ conn'[j].after = f[j].after
                           /\ conn'[j].phase = IF j = k THEN phase ELSE f[j].phase
  BY MoveProperties
<1>2. \A j \in Conns : SameBut(conn, conn', j) /\ conn'[j].after = conn[j].after
  BY <1>1 DEF SameBut, Alike
<1>3. \A j \in Conns : conn'[j].phase = IF j = k THEN phase ELSE conn[j].phase
  BY <1>1 DEF Alike
<1>4. \A j \in Conns : conn'[j].target = conn[j].target /\ conn'[j].proc = conn[j].proc
  BY <1>2 DEF SameBut
<1>5. TargetsOK'
  BY <1>3, <1>4 DEF TargetsOK
<1> QED BY <1>1, <1>2, <1>3, <1>4, <1>5 DEF OthersAlike, Alike

LEMMA StayEffect ==
  ASSUME TargetsOK, NEW k \in Conns, conn \in [Conns -> ConnType],
         NEW r \in ConnType, Stays(conn, conn', k, r), r.phase \in Serving => r.target \in Ids
  PROVE  /\ conn' \in [Conns -> ConnType] /\ OthersAlike(k) /\ TargetsOK'
         /\ conn'[k] = r
<1>1. /\ conn' \in [Conns -> ConnType]
      /\ conn'[k] = r /\ \A j \in Conns \ {k} : conn'[j] = conn[j]
  BY StaysProperties
<1>2. OthersAlike(k)
  BY <1>1 DEF OthersAlike, Alike, SameBut
<1>3. TargetsOK'
  BY <1>1 DEF TargetsOK
<1> QED BY <1>1, <1>2, <1>3

\* What every step of a connection's task does to the connections.
Effect(k) ==
  /\ conn' \in [Conns -> ConnType] /\ OthersAlike(k) /\ TargetsOK'
  /\ conn'[k].phase # "register"
  /\ (conn'[k].proc = conn[k].proc /\ conn'[k].phase # "free") \/ conn[k].phase = "closed"
  /\ OwnerLike(conn[k]) => \/ OwnerLike(conn'[k])
                           \/ conn[k].phase = "unregister" \/ slot[NodeIdOf(k)] # k
  /\ conn[k].phase = "register" /\ conn[k].after # "closed" => OwnerLike(conn'[k])

LEMMA ServeEffect ==
  ASSUME TypeInv, NEW k \in Conns, ServeStep(k) \/ ReceiveUpdate(k) \/ TimeOut(k)
  PROVE  Effect(k)
<1>1. /\ conn \in [Conns -> ConnType] /\ slot \in [Ids -> Conns \cup {NoConn}]
      /\ player \in [Procs -> Status] /\ order \in Seq(Ids) /\ TargetsOK
  BY DEF TypeInv, TypeOK, ConnType
<1>2. /\ conn[k].phase \in Phases /\ conn[k].proc \in Procs /\ conn[k].cmds \in Seq(Commands)
      /\ conn[k].after \in {"check", "relay", "closed"} /\ conn[k].after \in Phases
      /\ conn[k].target \in Ids \cup {NoId} /\ conn[k].resume \in Status
      /\ NodeIdOf(k) \in Ids /\ conn[k].isSelected \in BOOLEAN
  BY <1>1, FieldTypes, IdOfAssumption DEF NodeIdOf
<1>3. conn[k].phase \in Serving => conn[k].target \in Ids
  BY <1>1 DEF TargetsOK
<1>4. \A j \in Conns : Alike(conn, conn, j)
  BY DEF Alike, SameBut
<1>5. ASSUME NEW phase \in Phases, ToPhase(k, phase),
             phase \in Serving => conn[k].target \in Ids, phase # "register", phase # "free",
             OwnerLike(conn[k]) => \/ phase \notin {"leave", "closed"}
                                  \/ conn[k].phase = "unregister" \/ slot[NodeIdOf(k)] # k,
             conn[k].phase = "register" => phase \notin {"leave", "closed"}
      PROVE  Effect(k)
  <2>1. Move(conn, conn', k, phase)
    BY <1>5 DEF ToPhase, Move
  <2>2. /\ conn' \in [Conns -> ConnType] /\ OthersAlike(k) /\ TargetsOK'
        /\ conn'[k].proc = conn[k].proc /\ conn'[k].phase = phase
        /\ conn'[k].after = conn[k].after
    BY <1>1, <1>4, <1>5, <2>1, MoveEffect
  <2> QED BY <1>5, <2>2 DEF Effect, OwnerLike
<1>6. ASSUME NEW id \in Ids, HasOutput(id), NEW cmds \in Seq(Commands),
             NEW phase \in Phases \ {"register", "free"},
             conn' = [Sent(id, cmds) EXCEPT ![k].phase = phase],
             conn[k].phase \in Serving \ {"register"},
             phase \in {"leave", "closed"} => conn[k].after = "closed"
      PROVE  Effect(k)
  <2>1. PICK g \in [Conns -> ConnType] : Sent(id, cmds) = g /\ \A j \in Conns : Alike(conn, g, j)
    BY <1>1, <1>6, SentProperties DEF Alike
  <2>2. Move(g, conn', k, phase)
    BY <1>6, <2>1 DEF Move
  <2>3. /\ conn' \in [Conns -> ConnType] /\ OthersAlike(k) /\ TargetsOK'
        /\ conn'[k].proc = conn[k].proc /\ conn'[k].phase = phase
        /\ conn'[k].after = conn[k].after
    BY <1>1, <1>3, <1>6, <2>1, <2>2, MoveEffect
  <2> QED BY <1>6, <2>3 DEF Effect, OwnerLike
<1>7. ASSUME NEW r \in ConnType, Stays(conn, conn', k, r),
             r.phase \in Serving => r.target \in Ids, r.phase # "register",
             (r.proc = conn[k].proc /\ r.phase # "free") \/ conn[k].phase = "closed",
             OwnerLike(conn[k]) => OwnerLike(r), conn[k].phase # "register"
      PROVE  Effect(k)
  <2>1. conn' \in [Conns -> ConnType] /\ OthersAlike(k) /\ TargetsOK' /\ conn'[k] = r
    BY <1>1, <1>7, StayEffect
  <2> QED BY <1>7, <2>1 DEF Effect
<1>8. FreeConn \in ConnType /\ FreeConn.phase = "free" /\ FreeConn.after = "check"
  BY FreeConnType DEF FreeConn
<1>9. ASSUME conn' = Relaying(k), conn[k].phase # "register"
      PROVE  Effect(k)
  <2> DEFINE r == [FreeConn EXCEPT !.phase = "relay", !.proc = conn[k].proc, !.cmds = conn[k].cmds]
  <2>1. r \in ConnType /\ r.phase = "relay" /\ r.after = "check" /\ r.proc = conn[k].proc
    BY <1>2, <1>8 DEF ConnType, Phases
  <2>2. Stays(conn, conn', k, r)
    BY <1>9 DEF Relaying, Stays
  <2> QED BY <1>7, <1>9, <2>1, <2>2 DEF OwnerLike, Serving
<1>10. ASSUME LeaveRelay(k), conn[k].phase # "register"
       PROVE  Effect(k)
  <2> DEFINE r == [FreeConn EXCEPT !.phase = "grace", !.proc = conn[k].proc]
  <2>1. r \in ConnType /\ r.phase = "grace" /\ r.after = "check" /\ r.proc = conn[k].proc
    BY <1>2, <1>8 DEF ConnType, Phases
  <2>2. Stays(conn, conn', k, r)
    BY <1>10 DEF LeaveRelay, Stays
  <2> QED BY <1>7, <1>10, <2>1, <2>2 DEF OwnerLike, Serving
<1>11. <<"set_queue">> \in Seq(Commands) /\ <<"stop">> \in Seq(Commands)
  BY DEF Commands
<1>12. CASE RegisterOutput(k)
  BY <1>3, <1>5, <1>12 DEF RegisterOutput, In, Serving, Phases
<1>13. CASE AddNode(k)
  BY <1>3, <1>5, <1>13 DEF AddNode, In, Serving, Phases
<1>14. CASE ReadLogicalState(k)
  <2>1. conn[k].target \in Ids /\ node[conn[k].target].status \in Status
    BY <1>1, <1>3, <1>14 DEF ReadLogicalState, In, Serving, TypeInv, TypeOK
  <2>2. PICK status \in Status, b \in BOOLEAN :
           status = node[conn[k].target].status /\ b = (selected = conn[k].target)
    BY <2>1
  <2> DEFINE r == [conn[k] EXCEPT !.phase = "load", !.isSelected = b, !.resume = status]
  <2>3. Stays(conn, conn', k, r)
    BY <1>1, <1>14, <2>2 DEF ReadLogicalState, Stays
  <2>4. /\ r \in ConnType /\ r.phase = "load" /\ r.after = conn[k].after
        /\ r.proc = conn[k].proc /\ r.target = conn[k].target
    BY <1>1 DEF ConnType, Phases
  <2> HIDE DEF r
  <2> QED BY <1>7, <1>14, <2>1, <2>3, <2>4 DEF ReadLogicalState, In, OwnerLike
<1>15. CASE LoadQueue(k)
  <2>1. CASE HasOutput(conn[k].target)
    <3>1. conn' = [Sent(conn[k].target, <<"set_queue">>) EXCEPT ![k].phase = "apply"]
      BY <1>15, <2>1 DEF LoadQueue
    <3>2. conn[k].target \in Ids /\ conn[k].phase \in Serving \ {"register"}
      BY <1>3, <1>15 DEF LoadQueue, In, Serving
    <3>3. "apply" \in Phases \ {"register", "free"}
      BY DEF Phases
    <3> QED BY <1>6, <1>11, <2>1, <3>1, <3>2, <3>3
  <2>2. CASE ~HasOutput(conn[k].target)
    <3>1. ToPhase(k, conn[k].after)
      BY <1>15, <2>2 DEF LoadQueue, ToPhase
    <3> QED BY <1>2, <1>3, <1>5, <1>15, <3>1 DEF LoadQueue, In, Serving, OwnerLike
  <2> QED BY <2>1, <2>2
<1>16. CASE ApplyStatus(k)
  <2>1. conn[k].target \in Ids /\ conn[k].phase = "apply"
    BY <1>3, <1>16 DEF ApplyStatus, In, Serving
  <2>2. CASE HasOutput(conn[k].target) /\ conn[k].isSelected
    <3>1. conn' = [Sent(conn[k].target, CommandsFor(conn[k].resume)) EXCEPT ![k].phase = conn[k].after]
      BY <1>16, <2>2 DEF ApplyStatus
    <3>2. CommandsFor(conn[k].resume) \in Seq(Commands)
      BY <1>2, CommandsType
    <3> QED BY <1>2, <1>6, <2>1, <2>2, <3>1, <3>2 DEF Serving
  <2>3. CASE HasOutput(conn[k].target) /\ ~conn[k].isSelected
    <3>1. conn' = [Sent(conn[k].target, <<"stop">>) EXCEPT ![k].phase = "stopping"]
      BY <1>16, <2>3 DEF ApplyStatus
    <3>2. "stopping" \in Phases \ {"register", "free"} /\ conn[k].phase \in Serving \ {"register"}
      BY <2>1 DEF Phases, Serving
    <3> QED BY <1>6, <1>11, <2>1, <2>3, <3>1, <3>2
  <2>4. CASE ~HasOutput(conn[k].target)
    <3>1. ToPhase(k, conn[k].after)
      BY <1>16, <2>4 DEF ApplyStatus, ToPhase
    <3> QED BY <1>2, <1>5, <2>1, <3>1 DEF Serving, OwnerLike
  <2> QED BY <2>2, <2>3, <2>4
<1>17. CASE WriteStopped(k)
  <2>1. conn[k].target \in Ids /\ conn[k].phase = "stopping"
    BY <1>3, <1>17 DEF WriteStopped, In, Serving
  <2>2. CASE conn[k].after = "relay"
    BY <1>9, <1>17, <2>1, <2>2 DEF WriteStopped
  <2>3. CASE conn[k].after # "relay"
    <3>1. ToPhase(k, conn[k].after)
      BY <1>17, <2>3 DEF WriteStopped
    <3> QED BY <1>2, <1>5, <2>1, <3>1 DEF Serving, OwnerLike
  <2> QED BY <2>2, <2>3
<1>18. CASE CheckSelected(k)
  <2>1. conn[k].target \in Ids /\ conn[k].phase = "check"
    BY <1>3, <1>18 DEF CheckSelected, In, Serving
  <2>2. CASE selected # NodeIdOf(k) /\ HasOutput(NodeIdOf(k))
    <3>1. PICK g \in [Conns -> ConnType] :
             Sent(NodeIdOf(k), <<"stop">>) = g /\ \A j \in Conns : Alike(conn, g, j)
      BY <1>1, <1>2, <1>11, <2>2, SentProperties DEF Alike
    <3> DEFINE h == [g EXCEPT ![k].phase = "stopping"]
    <3>2. conn' = [h EXCEPT ![k].after = "relay"]
      BY <1>18, <2>2, <3>1 DEF CheckSelected
    <3>3. Move(g, h, k, "stopping") /\ "stopping" \in Phases
      BY DEF Move, Phases
    <3>4. Turn(h, conn', k, "relay")
      BY <3>2 DEF Turn
    <3> HIDE DEF h
    <3>5. /\ h \in [Conns -> ConnType]
          /\ \A j \in Conns : /\ SameBut(g, h, j) /\ h[j].after = g[j].after
                               /\ h[j].phase = IF j = k THEN "stopping" ELSE g[j].phase
      BY <3>3, MoveProperties
    <3>6. /\ conn' \in [Conns -> ConnType]
          /\ \A j \in Conns : /\ SameBut(h, conn', j) /\ conn'[j].phase = h[j].phase
                               /\ conn'[j].after = IF j = k THEN "relay" ELSE h[j].after
      BY <3>4, <3>5, TurnProperties
    <3>7. \A j \in Conns : SameBut(conn, conn', j)
      BY <3>1, <3>5, <3>6 DEF SameBut, Alike
    <3>8. \A j \in Conns : /\ conn'[j].phase = IF j = k THEN "stopping" ELSE conn[j].phase
                           /\ conn'[j].after = IF j = k THEN "relay" ELSE conn[j].after
      BY <3>1, <3>5, <3>6 DEF Alike
    <3>9. OthersAlike(k)
      BY <3>7, <3>8 DEF OthersAlike, Alike
    <3>10. TargetsOK'
      BY <1>1, <2>1, <3>7, <3>8 DEF TargetsOK, SameBut
    <3> QED BY <2>1, <3>6, <3>7, <3>8, <3>9, <3>10 DEF Effect, OwnerLike, SameBut
  <2>3. CASE ~(selected # NodeIdOf(k) /\ HasOutput(NodeIdOf(k)))
    BY <1>9, <1>18, <2>1, <2>3 DEF CheckSelected
  <2> QED BY <2>2, <2>3
<1>19. CASE ReceiveUpdate(k)
  <2>1. PICK status \in Status : status = player[conn[k].proc]
    BY <1>1, <1>2
  <2> DEFINE r == [conn[k] EXCEPT !.phase = "update", !.resume = status]
  <2>2. Stays(conn, conn', k, r)
    BY <1>1, <1>19, <2>1 DEF ReceiveUpdate, Stays
  <2>3. /\ r \in ConnType /\ r.phase = "update" /\ r.after = conn[k].after
        /\ r.proc = conn[k].proc
    BY <1>1 DEF ConnType, Phases
  <2> HIDE DEF r
  <2> QED BY <1>7, <1>19, <2>2, <2>3 DEF ReceiveUpdate, In, OwnerLike, Serving
<1>20. CASE WriteStatus(k)
  BY <1>9, <1>20 DEF WriteStatus, In
<1>21. CASE EndRelay(k)
  BY <1>10, <1>21 DEF EndRelay, In
<1>22. CASE TimeOut(k)
  BY <1>10, <1>22 DEF TimeOut, In
<1>23. CASE EndGrace(k)
  BY <1>5, <1>23 DEF EndGrace, In, Serving, Phases
<1>24. CASE UnregisterOutput(k)
  BY <1>5, <1>24 DEF UnregisterOutput, In, Serving, Phases
<1>25. CASE HandleDisconnected(k)
  <2> DEFINE fallback == IF selected = NodeIdOf(k) THEN FallbackFor(NodeIdOf(k)) ELSE NoId
  <2>1. CASE fallback = NoId
    BY <1>5, <1>25, <2>1 DEF HandleDisconnected, In, Phases, Serving, OwnerLike
  <2>2. CASE fallback # NoId
    <3>1. PICK id \in Ids : id = fallback
      BY <1>1, <2>2, FallbackListed
    <3> DEFINE r == [conn[k] EXCEPT !.phase = "read", !.target = id, !.after = "closed"]
    <3>2. Stays(conn, conn', k, r)
      BY <1>1, <1>25, <2>2, <3>1 DEF HandleDisconnected, Stays
    <3>3. /\ r \in ConnType /\ r.phase = "read" /\ r.proc = conn[k].proc /\ r.target = id
      BY <1>1 DEF ConnType, Phases
    <3> HIDE DEF r
    <3> QED BY <1>7, <1>25, <3>2, <3>3 DEF HandleDisconnected, In, OwnerLike, Serving
  <2> QED BY <2>1, <2>2
<1>26. CASE Close(k)
  <2>1. Stays(conn, conn', k, FreeConn)
    BY <1>26 DEF Close, Stays
  <2> QED BY <1>7, <1>8, <1>26, <2>1 DEF Close, In, OwnerLike, Serving
<1> QED BY <1>12, <1>13, <1>14, <1>15, <1>16, <1>17, <1>18, <1>19, <1>20, <1>21, <1>22,
           <1>23, <1>24, <1>25, <1>26, Zenon DEF ServeStep

\* The other steps: what every connection is stays, but for one that is made.
AllAlike == \A j \in Conns : Alike(conn, conn', j)

LEMMA AlikeEffect ==
  ASSUME TargetsOK, AllAlike
  PROVE  TargetsOK'
<1>1. \A j \in Conns : conn'[j].phase = conn[j].phase /\ conn'[j].target = conn[j].target
  BY DEF AllAlike, Alike, SameBut
<1> QED BY <1>1 DEF TargetsOK

LEMMA SentEffect ==
  ASSUME TypeInv, NEW id \in Ids, HasOutput(id), NEW cmds \in Seq(Commands),
         conn' = Sent(id, cmds)
  PROVE  conn' \in [Conns -> ConnType] /\ AllAlike
<1>1. conn \in [Conns -> ConnType] /\ slot \in [Ids -> Conns \cup {NoConn}]
  BY DEF TypeInv, TypeOK, ConnType
<1> QED BY <1>1, SentProperties DEF AllAlike, Alike

LEMMA UnchangedEffect ==
  ASSUME TypeInv, UNCHANGED conn
  PROVE  conn' \in [Conns -> ConnType] /\ AllAlike
<1>1. conn \in [Conns -> ConnType]
  BY DEF TypeInv, TypeOK, ConnType
<1> QED BY <1>1 DEF AllAlike, Alike, SameBut

LEMMA ProcEffect ==
  ASSUME TypeInv, NEW p \in Procs, ProcStep(p) \/ Drop(p)
  PROVE  conn' \in [Conns -> ConnType] /\ AllAlike
<1>1. conn \in [Conns -> ConnType] /\ session[p] \in Conns \cup {NoConn}
  BY DEF TypeInv, TypeOK, ConnType
<1>2. ASSUME NEW k \in Conns, NEW cmds \in Seq(Commands), Mails(conn, conn', k, cmds)
      PROVE  conn' \in [Conns -> ConnType] /\ AllAlike
  BY <1>1, <1>2, MailsProperties DEF AllAlike, Alike
<1>3. CASE ClearPlayer(p)
  BY <1>3, UnchangedEffect DEF ClearPlayer
<1>4. CASE Execute(p)
  <2>1. PICK k \in Conns : k = session[p]
    BY <1>1, <1>4 DEF Execute
  <2>2. conn[k].cmds \in Seq(Commands) /\ conn[k].cmds # <<>>
    BY <1>1, <1>4, <2>1, FieldTypes DEF Execute
  <2> DEFINE sent == conn[k].cmds
  <2>3. sent \in Seq(Commands) /\ sent # <<>>
    BY <2>2
  <2> HIDE DEF sent
  <2>4. Tail(sent) \in Seq(Commands)
    BY <2>3, HeadTailProperties
  <2>5. PICK cmds \in Seq(Commands) : cmds = Tail(sent)
    BY <2>4
  <2>6. Mails(conn, conn', k, cmds)
    BY <1>4, <2>1, <2>5 DEF Execute, Mails, sent
  <2> QED BY <1>2, <2>6
<1>5. CASE Drop(p)
  <2>1. PICK k \in Conns : k = session[p]
    BY <1>1, <1>5 DEF Drop
  <2>2. <<>> \in Seq(Commands)
    OBVIOUS
  <2>3. Mails(conn, conn', k, <<>>)
    BY <1>5, <2>1 DEF Drop, Mails
  <2> QED BY <1>2, <2>2, <2>3
<1> QED BY <1>3, <1>4, <1>5 DEF ProcStep

\* The clients' steps.
ClientStep(c) == \/ TaskStep(c)
                 \/ \E id \in Ids : SelectNode(c, id)
                 \/ \E cmd \in {"play", "pause", "stop"} : Control(c, cmd)

LEMMA ClientEffect ==
  ASSUME TypeInv, NEW c \in Clients, ClientStep(c)
  PROVE  conn' \in [Conns -> ConnType] /\ AllAlike
<1>1. /\ task \in [Clients -> TaskType] /\ TasksOK
  BY DEF TypeInv, TypeOK, TaskType, Steps
<1>2. /\ task[c].step # "idle" => task[c].id \in Ids
      /\ task[c].step = "stop_prev" => task[c].prev \in Ids
      /\ task[c].resume \in Status /\ task[c].step \in Steps
  BY <1>1 DEF TasksOK, TaskType
<1>3. <<"set_queue">> \in Seq(Commands) /\ <<"stop">> \in Seq(Commands)
  BY DEF Commands
<1>4. CASE StopPrevious(c)
  BY <1>2, <1>3, <1>4, SentEffect, UnchangedEffect DEF StopPrevious, Step
<1>5. CASE LoadSelected(c)
  BY <1>2, <1>3, <1>5, SentEffect, UnchangedEffect DEF LoadSelected, Step
<1>6. CASE ResumeSelected(c)
  BY <1>2, <1>6, SentEffect, UnchangedEffect, CommandsType DEF ResumeSelected, Step
<1>7. CASE EndSelect(c)
  BY <1>7, UnchangedEffect DEF EndSelect
<1>8. CASE SendControl(c)
  <2>1. <<task[c].step>> \in Seq(Commands)
    BY <1>8 DEF SendControl, Commands
  <2> QED BY <1>2, <1>8, <2>1, SentEffect, UnchangedEffect DEF SendControl
<1>9. CASE EndControl(c)
  BY <1>9, UnchangedEffect DEF EndControl
<1>10. CASE \E id \in Ids : SelectNode(c, id)
  BY <1>10, UnchangedEffect DEF SelectNode
<1>11. CASE \E cmd \in {"play", "pause", "stop"} : Control(c, cmd)
  BY <1>11, UnchangedEffect DEF Control
<1> QED BY <1>4, <1>5, <1>6, <1>7, <1>8, <1>9, <1>10, <1>11 DEF ClientStep, TaskStep

LEMMA ConnectEffect ==
  ASSUME TypeInv, NEW p \in Procs, NEW k \in Conns, Connect(p, k)
  PROVE  /\ conn' \in [Conns -> ConnType] /\ OthersAlike(k) /\ TargetsOK'
         /\ conn[k].phase = "free" /\ conn'[k].proc = p
         /\ conn'[k].phase = "register" /\ conn'[k].after = "check"
<1>1. conn \in [Conns -> ConnType] /\ TargetsOK
  BY DEF TypeInv, TypeOK, ConnType
<1>2. IdOf[p] \in Ids
  BY IdOfAssumption
<1> DEFINE r == [FreeConn EXCEPT !.phase = "register", !.proc = p, !.target = IdOf[p]]
<1>3. FreeConn \in ConnType /\ FreeConn.after = "check"
  BY FreeConnType DEF FreeConn
<1>4. /\ r \in ConnType /\ r.phase = "register" /\ r.proc = p /\ r.after = "check"
      /\ r.target \in Ids
  BY <1>2, <1>3 DEF ConnType, Phases
<1>5. Stays(conn, conn', k, r)
  BY DEF Connect, Stays
<1> HIDE DEF r
<1> QED BY <1>1, <1>4, <1>5, StayEffect DEF Connect, In

-----------------------------------------------------------------------------
(* Type correctness.                                                       *)

NodeType == [connected : BOOLEAN, status : Status]

\* A step of a connection, of a process, of a client, or none.
LEMMA StepCases ==
  ASSUME [Next]_vars
  PROVE  \/ \E p \in Procs, k \in Conns : Connect(p, k)
         \/ \E k \in Conns : ServeStep(k) \/ ReceiveUpdate(k) \/ TimeOut(k)
         \/ \E p \in Procs : ProcStep(p) \/ Drop(p)
         \/ \E c \in Clients : ClientStep(c)
         \/ UNCHANGED vars
BY Zenon DEF Next, ClientStep

LEMMA ConnsTyped ==
  ASSUME TypeInv, [Next]_vars
  PROVE  conn' \in [Conns -> ConnType] /\ TargetsOK'
<1>1. TargetsOK
  BY DEF TypeInv
<1>2. CASE \E p \in Procs, k \in Conns : Connect(p, k)
  BY <1>2, ConnectEffect
<1>3. CASE \E k \in Conns : ServeStep(k) \/ ReceiveUpdate(k) \/ TimeOut(k)
  BY <1>3, ServeEffect DEF Effect
<1>4. CASE \E p \in Procs : ProcStep(p) \/ Drop(p)
  BY <1>1, <1>4, ProcEffect, AlikeEffect
<1>5. CASE \E c \in Clients : ClientStep(c)
  BY <1>1, <1>5, ClientEffect, AlikeEffect
<1>6. CASE UNCHANGED vars
  BY <1>1, <1>6, UnchangedEffect, AlikeEffect DEF vars
<1> QED BY <1>2, <1>3, <1>4, <1>5, <1>6, StepCases

\* Who changes the list of nodes, and how.
LEMMA OrderSteps ==
  ASSUME [Next]_vars
  PROVE  \/ UNCHANGED order
         \/ \E k \in Conns : AddNode(k)
BY DEF Next, vars, core, Connect, ServeStep, RegisterOutput, ReadLogicalState, LoadQueue,
       ApplyStatus, WriteStopped, CheckSelected, WriteStatus, EndRelay, EndGrace,
       UnregisterOutput, HandleDisconnected, Close, ReceiveUpdate, TimeOut, ProcStep,
       ClearPlayer, Execute, Drop, TaskStep, StopPrevious, LoadSelected, ResumeSelected,
       EndSelect, SendControl, EndControl, SelectNode, Control

LEMMA SelectedSteps ==
  ASSUME [Next]_vars
  PROVE  \/ UNCHANGED <<order, selected>>
         \/ \E k \in Conns : AddNode(k) \/ HandleDisconnected(k)
         \/ \E c \in Clients, id \in Ids : SelectNode(c, id)
BY DEF Next, vars, core, Connect, ServeStep, RegisterOutput, ReadLogicalState, LoadQueue,
       ApplyStatus, WriteStopped, CheckSelected, WriteStatus, EndRelay, EndGrace,
       UnregisterOutput, Close, ReceiveUpdate, TimeOut, ProcStep,
       ClearPlayer, Execute, Drop, TaskStep, StopPrevious, LoadSelected, ResumeSelected,
       EndSelect, SendControl, EndControl, Control

LEMMA SlotSteps ==
  ASSUME [Next]_vars
  PROVE  \/ UNCHANGED slot
         \/ \E k \in Conns : RegisterOutput(k) \/ UnregisterOutput(k)
BY DEF Next, vars, core, Connect, ServeStep, AddNode, ReadLogicalState, LoadQueue,
       ApplyStatus, WriteStopped, CheckSelected, WriteStatus, EndRelay, EndGrace,
       HandleDisconnected, Close, ReceiveUpdate, TimeOut, ProcStep,
       ClearPlayer, Execute, Drop, TaskStep, StopPrevious, LoadSelected, ResumeSelected,
       EndSelect, SendControl, EndControl, SelectNode, Control

LEMMA SessionSteps ==
  ASSUME [Next]_vars
  PROVE  \/ UNCHANGED <<session, ready>>
         \/ \E p \in Procs, k \in Conns : Connect(p, k)
         \/ \E k \in Conns : Close(k)
         \/ \E p \in Procs : Drop(p) \/ ClearPlayer(p)
BY DEF Next, vars, process, ServeStep, RegisterOutput, AddNode, ReadLogicalState, LoadQueue,
       ApplyStatus, WriteStopped, CheckSelected, WriteStatus, EndRelay, EndGrace,
       UnregisterOutput, HandleDisconnected, ReceiveUpdate, TimeOut, ProcStep,
       Execute, TaskStep, StopPrevious, LoadSelected, ResumeSelected,
       EndSelect, SendControl, EndControl, SelectNode, Control

LEMMA NodeSteps ==
  ASSUME [Next]_vars
  PROVE  \/ UNCHANGED node
         \/ \E k \in Conns : AddNode(k) \/ WriteStopped(k) \/ WriteStatus(k) \/ HandleDisconnected(k)
         \/ \E c \in Clients : \/ EndSelect(c) \/ EndControl(c)
                               \/ \E id \in Ids : SelectNode(c, id)
BY DEF Next, vars, core, Connect, ServeStep, RegisterOutput, ReadLogicalState, LoadQueue,
       ApplyStatus, CheckSelected, EndRelay, EndGrace,
       UnregisterOutput, Close, ReceiveUpdate, TimeOut, ProcStep,
       ClearPlayer, Execute, Drop, TaskStep, StopPrevious, LoadSelected, ResumeSelected,
       SendControl, Control

LEMMA AnnouncedSteps ==
  ASSUME [Next]_vars
  PROVE  announced' \in {announced, selected, selected'}
BY DEF Next, vars, core, Connect, ServeStep, RegisterOutput, AddNode, ReadLogicalState, LoadQueue,
       ApplyStatus, WriteStopped, CheckSelected, WriteStatus, EndRelay, EndGrace,
       UnregisterOutput, HandleDisconnected, Close, ReceiveUpdate, TimeOut, ProcStep,
       ClearPlayer, Execute, Drop, TaskStep, StopPrevious, LoadSelected, ResumeSelected,
       EndSelect, SendControl, EndControl, SelectNode, Control

LEMMA PlayerSteps ==
  ASSUME [Next]_vars
  PROVE  UNCHANGED player \/ \E p \in Procs : ClearPlayer(p) \/ Execute(p)
BY DEF Next, vars, process, Connect, ServeStep, RegisterOutput, AddNode, ReadLogicalState, LoadQueue,
       ApplyStatus, WriteStopped, CheckSelected, WriteStatus, EndRelay, EndGrace,
       UnregisterOutput, HandleDisconnected, Close, ReceiveUpdate, TimeOut, ProcStep,
       Drop, TaskStep, StopPrevious, LoadSelected, ResumeSelected,
       EndSelect, SendControl, EndControl, SelectNode, Control

LEMMA TaskSteps ==
  ASSUME [Next]_vars
  PROVE  UNCHANGED task \/ \E c \in Clients : ClientStep(c)
BY DEF Next, vars, Connect, ServeStep, RegisterOutput, AddNode, ReadLogicalState, LoadQueue,
       ApplyStatus, WriteStopped, CheckSelected, WriteStatus, EndRelay, EndGrace,
       UnregisterOutput, HandleDisconnected, Close, ReceiveUpdate, TimeOut, ProcStep,
       Drop, ClearPlayer, Execute, ClientStep

LEMMA BoundSteps ==
  ASSUME [Next]_vars
  PROVE  \/ UNCHANGED <<ops, drops>>
         \/ (\E k \in Conns : TimeOut(k)) \/ (\E p \in Procs : Drop(p))
         \/ \E c \in Clients : \/ \E id \in Ids : SelectNode(c, id)
                               \/ \E cmd \in {"play", "pause", "stop"} : Control(c, cmd)
BY DEF Next, vars, bounds, Connect, ServeStep, RegisterOutput, AddNode, ReadLogicalState, LoadQueue,
       ApplyStatus, WriteStopped, CheckSelected, WriteStatus, EndRelay, EndGrace,
       UnregisterOutput, HandleDisconnected, Close, ReceiveUpdate, ProcStep,
       ClearPlayer, Execute, TaskStep, StopPrevious, LoadSelected, ResumeSelected,
       EndSelect, SendControl, EndControl

\* The node of a connection is one of Ids.
LEMMA NodeIdType ==
  ASSUME TypeInv, NEW k \in Conns
  PROVE  NodeIdOf(k) \in Ids
<1>1. conn[k] \in ConnType
  BY DEF TypeInv, TypeOK, ConnType
<1> QED BY <1>1, FieldTypes, IdOfAssumption DEF NodeIdOf

LEMMA CoreTyped ==
  ASSUME TypeInv, [Next]_vars
  PROVE  /\ order' \in Seq(Ids) /\ selected' \in Ids \cup {NoId}
         /\ announced' \in Ids \cup {NoId}
         /\ slot' \in [Ids -> Conns \cup {NoConn}]
<1>1. /\ order \in Seq(Ids) /\ selected \in Ids \cup {NoId} /\ announced \in Ids \cup {NoId}
      /\ slot \in [Ids -> Conns \cup {NoConn}]
  BY DEF TypeInv, TypeOK
<1>2. order' \in Seq(Ids)
  <2>1. CASE UNCHANGED order
    BY <1>1, <2>1
  <2>2. ASSUME NEW k \in Conns, AddNode(k)
        PROVE  order' \in Seq(Ids)
    BY <1>1, <2>2, NodeIdType, AppendProperties DEF AddNode
  <2> QED BY <2>1, <2>2, OrderSteps
<1>3. selected' \in Ids \cup {NoId}
  <2>1. ASSUME NEW k \in Conns, AddNode(k)
        PROVE  selected' \in Ids \cup {NoId}
    BY <1>1, <2>1, NodeIdType DEF AddNode
  <2>2. ASSUME NEW k \in Conns, HandleDisconnected(k)
        PROVE  selected' \in Ids \cup {NoId}
    BY <1>1, <2>2, FallbackListed DEF HandleDisconnected
  <2>3. ASSUME NEW c \in Clients, NEW id \in Ids, SelectNode(c, id)
        PROVE  selected' \in Ids \cup {NoId}
    BY <2>3 DEF SelectNode
  <2> QED BY <1>1, <2>1, <2>2, <2>3, SelectedSteps
<1>4. announced' \in Ids \cup {NoId}
  BY <1>1, <1>3, AnnouncedSteps
<1>5. slot' \in [Ids -> Conns \cup {NoConn}]
  <2>1. ASSUME NEW k \in Conns, RegisterOutput(k)
        PROVE  slot' \in [Ids -> Conns \cup {NoConn}]
    BY <1>1, <2>1, NodeIdType DEF RegisterOutput
  <2>2. ASSUME NEW k \in Conns, UnregisterOutput(k)
        PROVE  slot' \in [Ids -> Conns \cup {NoConn}]
    BY <1>1, <2>2, NodeIdType DEF UnregisterOutput
  <2> QED BY <1>1, <2>1, <2>2, SlotSteps
<1> QED BY <1>2, <1>3, <1>4, <1>5

LEMMA NodeTyped ==
  ASSUME TypeInv, [Next]_vars
  PROVE  node' \in [Ids -> NodeType]
<1>1. /\ node \in [Ids -> NodeType] /\ selected \in Ids \cup {NoId}
      /\ conn \in [Conns -> ConnType] /\ task \in [Clients -> TaskType]
  BY DEF TypeInv, TypeOK, NodeType, ConnType, TaskType, Steps
<1>2. ASSUME NEW id, NEW status \in Status, node' = [node EXCEPT ![id].status = status]
      PROVE  node' \in [Ids -> NodeType]
  BY <1>1, <1>2 DEF NodeType
<1>3. ASSUME NEW id, NEW r \in NodeType, node' = [node EXCEPT ![id] = r]
      PROVE  node' \in [Ids -> NodeType]
  BY <1>1, <1>3
<1>4. ASSUME NEW k \in Conns, AddNode(k)
      PROVE  node' \in [Ids -> NodeType]
  <2>1. CASE Known(NodeIdOf(k))
    BY <1>1, <1>4, <2>1 DEF AddNode, NodeType
  <2>2. CASE ~Known(NodeIdOf(k))
    <3>1. [connected |-> TRUE, status |-> "stopped"] \in NodeType
      BY DEF NodeType, Status
    <3> QED BY <1>3, <1>4, <2>2, <3>1 DEF AddNode
  <2> QED BY <2>1, <2>2
<1>5. ASSUME NEW k \in Conns, WriteStopped(k)
      PROVE  node' \in [Ids -> NodeType]
  BY <1>2, <1>5 DEF WriteStopped, Status
<1>6. ASSUME NEW k \in Conns, WriteStatus(k)
      PROVE  node' \in [Ids -> NodeType]
  BY <1>1, <1>2, <1>6, FieldTypes DEF WriteStatus
<1>7. ASSUME NEW k \in Conns, HandleDisconnected(k)
      PROVE  node' \in [Ids -> NodeType]
  <2> DEFINE id       == NodeIdOf(k)
             fallback == IF selected = id THEN FallbackFor(id) ELSE NoId
             lost     == IF selected = id /\ fallback = NoId THEN node[id].status ELSE "stopped"
  <2>1. id \in Ids /\ "stopped" \in Status
    BY NodeIdType DEF Status
  <2>2. node[id].status \in Status
    BY <1>1, <2>1 DEF NodeType
  <2>3. CASE fallback = NoId
    <3>1. [connected |-> FALSE, status |-> lost] \in NodeType
      BY <2>1, <2>2 DEF NodeType
    <3>2. node' = [node EXCEPT ![id] = [connected |-> FALSE, status |-> lost]]
      BY <1>7, <2>3 DEF HandleDisconnected
    <3> QED BY <1>3, <3>1, <3>2
  <2>4. CASE fallback # NoId
    <3>1. node' = [m \in Ids |-> [connected |-> node[m].connected /\ m # id,
                                 status |-> IF m = fallback THEN node[id].status ELSE "stopped"]]
      BY <1>7, <2>4 DEF HandleDisconnected
    <3> HIDE DEF fallback, id
    <3>2. ASSUME NEW m \in Ids
          PROVE  [connected |-> node[m].connected /\ m # id,
                  status |-> IF m = fallback THEN node[id].status ELSE "stopped"] \in NodeType
      <4>1. (node[m].connected /\ m # id) \in BOOLEAN
        OBVIOUS
      <4>2. (IF m = fallback THEN node[id].status ELSE "stopped") \in Status
        BY <2>1, <2>2
      <4> QED BY <4>1, <4>2 DEF NodeType
    <3> QED BY <3>1, <3>2
  <2> QED BY <2>3, <2>4
<1>8. ASSUME NEW c \in Clients, EndSelect(c)
      PROVE  node' \in [Ids -> NodeType]
  <2>1. task[c].resume \in Status
    BY <1>1 DEF TaskType
  <2>2. CASE task[c].resume = "stopped"
    BY <1>1, <1>8, <2>2 DEF EndSelect, NodeType
  <2>3. CASE task[c].resume # "stopped"
    BY <1>1, <1>8, <2>1, <2>3 DEF EndSelect, NodeType
  <2> QED BY <2>2, <2>3
<1>9. ASSUME NEW c \in Clients, EndControl(c)
      PROVE  node' \in [Ids -> NodeType]
  <2>1. task[c].resume \in Status
    BY <1>1 DEF TaskType
  <2> QED BY <1>2, <1>9, <2>1 DEF EndControl
<1>10. ASSUME NEW c \in Clients, NEW id \in Ids, SelectNode(c, id)
       PROVE  node' \in [Ids -> NodeType]
  BY <1>1, <1>10 DEF SelectNode, NodeType, Status
<1> QED BY <1>1, <1>4, <1>5, <1>6, <1>7, <1>8, <1>9, <1>10, NodeSteps

LEMMA ProcsTyped ==
  ASSUME TypeInv, [Next]_vars
  PROVE  /\ session' \in [Procs -> Conns \cup {NoConn}] /\ ready' \in [Procs -> BOOLEAN]
         /\ player' \in [Procs -> Status]
<1>1. /\ session \in [Procs -> Conns \cup {NoConn}] /\ ready \in [Procs -> BOOLEAN]
      /\ player \in [Procs -> Status]
  BY DEF TypeInv, TypeOK
<1>2. session' \in [Procs -> Conns \cup {NoConn}] /\ ready' \in [Procs -> BOOLEAN]
  <2>1. ASSUME NEW p \in Procs, NEW k \in Conns, Connect(p, k)
        PROVE  session' \in [Procs -> Conns \cup {NoConn}] /\ ready' \in [Procs -> BOOLEAN]
    BY <1>1, <2>1 DEF Connect
  <2>2. ASSUME NEW k \in Conns, Close(k)
        PROVE  session' \in [Procs -> Conns \cup {NoConn}] /\ ready' \in [Procs -> BOOLEAN]
    <3>1. \A p \in Procs : (ready[p] /\ session[p] # k) \in BOOLEAN
      OBVIOUS
    <3> QED BY <1>1, <2>2, <3>1 DEF Close
  <2>3. ASSUME NEW p \in Procs, Drop(p) \/ ClearPlayer(p)
        PROVE  session' \in [Procs -> Conns \cup {NoConn}] /\ ready' \in [Procs -> BOOLEAN]
    BY <1>1, <2>3 DEF Drop, ClearPlayer
  <2> QED BY <1>1, <2>1, <2>2, <2>3, SessionSteps
<1>3. player' \in [Procs -> Status]
  <2>1. ASSUME NEW p \in Procs, ClearPlayer(p)
        PROVE  player' \in [Procs -> Status]
    BY <1>1, <2>1 DEF ClearPlayer, Status
  <2>2. ASSUME NEW p \in Procs, Execute(p)
        PROVE  player' \in [Procs -> Status]
    BY <1>1, <2>2, PlayerType DEF Execute
  <2> QED BY <1>1, <2>1, <2>2, PlayerSteps
<1> QED BY <1>2, <1>3

LEMMA BoundsTyped ==
  ASSUME TypeInv, [Next]_vars
  PROVE  ops' \in 0 .. MaxOps /\ drops' \in 0 .. MaxDrops
<1>1. ops \in 0 .. MaxOps /\ drops \in 0 .. MaxDrops
  BY DEF TypeInv, TypeOK
<1>2. ASSUME NEW c \in Clients, NEW id \in Ids, SelectNode(c, id)
      PROVE  ops > 0 /\ ops' = ops - 1 /\ drops' = drops
  BY <1>2 DEF SelectNode, Begin
<1>3. ASSUME NEW c \in Clients, NEW cmd, Control(c, cmd)
      PROVE  ops > 0 /\ ops' = ops - 1 /\ drops' = drops
  BY <1>3 DEF Control, Begin
<1>4. ASSUME NEW k \in Conns, TimeOut(k)
      PROVE  drops > 0 /\ drops' = drops - 1 /\ ops' = ops
  BY <1>4 DEF TimeOut
<1>5. ASSUME NEW p \in Procs, Drop(p)
      PROVE  drops > 0 /\ drops' = drops - 1 /\ ops' = ops
  BY <1>5 DEF Drop
<1>6. \/ UNCHANGED <<ops, drops>>
      \/ ops > 0 /\ ops' = ops - 1 /\ drops' = drops
      \/ drops > 0 /\ drops' = drops - 1 /\ ops' = ops
  BY <1>2, <1>3, <1>4, <1>5, BoundSteps
<1> QED BY <1>1, <1>6, MaxAssumption

LEMMA TaskType1 ==
  ASSUME NEW r \in TaskType
  PROVE  r.step \in Steps /\ r.id \in Ids \cup {NoId} /\ r.prev \in Ids \cup {NoId} /\ r.resume \in Status
BY DEF TaskType

LEMMA TasksTyped ==
  ASSUME TypeInv, [Next]_vars
  PROVE  task' \in [Clients -> TaskType] /\ TasksOK'
<1>1. /\ task \in [Clients -> TaskType] /\ TasksOK /\ selected \in Ids \cup {NoId}
      /\ node \in [Ids -> NodeType]
  BY DEF TypeInv, TypeOK, TaskType, Steps, NodeType
<1>2. CASE UNCHANGED task
  BY <1>1, <1>2 DEF TasksOK
<1>3. ASSUME NEW c \in Clients, NEW r \in TaskType, task' = [task EXCEPT ![c] = r],
             r.step # "idle" => r.id \in Ids, r.step = "stop_prev" => r.prev \in Ids
      PROVE  task' \in [Clients -> TaskType] /\ TasksOK'
  BY <1>1, <1>3 DEF TasksOK
<1>4. NoTask \in TaskType /\ NoTask.step = "idle"
  BY DEF NoTask, TaskType, Steps, Status
<1>5. ASSUME NEW c \in Clients, Finish(c)
      PROVE  task' \in [Clients -> TaskType] /\ TasksOK'
  BY <1>3, <1>4, <1>5 DEF Finish
<1>6. ASSUME NEW c \in Clients, NEW step \in Steps \ {"stop_prev", "idle"},
             ToStep(c, step), task[c].step # "idle"
      PROVE  task' \in [Clients -> TaskType] /\ TasksOK'
  <2> DEFINE r == [task[c] EXCEPT !.step = step]
  <2>1. r \in TaskType /\ r.step = step /\ r.id = task[c].id
    BY <1>1 DEF TaskType
  <2>2. task' = [task EXCEPT ![c] = r]
    BY <1>6 DEF ToStep
  <2>3. task[c].id \in Ids
    BY <1>1, <1>6 DEF TasksOK
  <2> HIDE DEF r
  <2> QED BY <1>3, <2>1, <2>2, <2>3
<1>7. ASSUME NEW c \in Clients, TaskStep(c)
      PROVE  task' \in [Clients -> TaskType] /\ TasksOK'
  <2>1. CASE StopPrevious(c)
    BY <1>5, <1>6, <2>1 DEF StopPrevious, Step, Steps
  <2>2. CASE LoadSelected(c)
    BY <1>5, <1>6, <2>2 DEF LoadSelected, Step, Steps
  <2>3. CASE ResumeSelected(c)
    BY <1>5, <1>6, <2>3 DEF ResumeSelected, Step, Steps
  <2>4. CASE EndSelect(c) \/ EndControl(c)
    BY <1>5, <2>4 DEF EndSelect, EndControl
  <2>5. CASE SendControl(c)
    <3>1. CASE ~HasOutput(task[c].id)
      BY <1>5, <2>5, <3>1 DEF SendControl
    <3>2. CASE HasOutput(task[c].id)
      <4>1. PICK resume \in Status :
               resume = CASE task[c].step = "play"  -> "playing"
                          [] task[c].step = "pause" -> "paused"
                          [] OTHER                  -> "stopped"
        BY DEF Status
      <4> DEFINE r == [task[c] EXCEPT !.step = "control", !.resume = resume]
      <4>2. task' = [task EXCEPT ![c] = r]
        BY <1>1, <2>5, <3>2, <4>1 DEF SendControl
      <4>3. r \in TaskType /\ r.step = "control" /\ r.id = task[c].id
        BY <1>1 DEF TaskType, Steps
      <4>4. task[c].id \in Ids
        BY <1>1, <2>5 DEF SendControl, TasksOK
      <4> HIDE DEF r
      <4> QED BY <1>3, <4>2, <4>3, <4>4
    <3> QED BY <3>1, <3>2
  <2> QED BY <1>7, <2>1, <2>2, <2>3, <2>4, <2>5 DEF TaskStep
<1>8. ASSUME NEW c \in Clients, NEW id \in Ids, SelectNode(c, id)
      PROVE  task' \in [Clients -> TaskType] /\ TasksOK'
  <2>1. PICK resume \in Status : resume = IF selected = NoId THEN "stopped" ELSE node[selected].status
    BY <1>1 DEF NodeType, Status
  <2>2. PICK step \in {"load", "stop_prev"} : step = IF selected = NoId THEN "load" ELSE "stop_prev"
    OBVIOUS
  <2> DEFINE r == [step |-> step, id |-> id, prev |-> selected, resume |-> resume]
  <2>3. task' = [task EXCEPT ![c] = r]
    BY <1>8, <2>1, <2>2 DEF SelectNode
  <2>4. r \in TaskType /\ r.id = id /\ r.prev = selected /\ r.step = step
    BY <1>1, <2>1, <2>2 DEF TaskType, Steps
  <2>5. step = "stop_prev" => selected \in Ids
    BY <1>1, <2>2
  <2> HIDE DEF r
  <2> QED BY <1>3, <2>3, <2>4, <2>5
<1>9. ASSUME NEW c \in Clients, NEW cmd \in {"play", "pause", "stop"}, Control(c, cmd)
      PROVE  task' \in [Clients -> TaskType] /\ TasksOK'
  <2> DEFINE r == [NoTask EXCEPT !.step = cmd, !.id = selected]
  <2>1. task' = [task EXCEPT ![c] = r] /\ selected \in Ids
    BY <1>1, <1>9 DEF Control
  <2>2. r \in TaskType /\ r.id = selected /\ r.step = cmd
    BY <1>1, <1>4 DEF TaskType, Steps
  <2> HIDE DEF r
  <2> QED BY <1>3, <2>1, <2>2
<1> QED BY <1>2, <1>7, <1>8, <1>9, TaskSteps DEF ClientStep

\* The processes of Joined: each has a connection of its own, which is theirs.
LEMMA InitJoined ==
  ASSUME Init
  PROVE  /\ session \in [Procs -> Conns \cup {NoConn}]
         /\ \A p \in Joined : /\ p \in Procs /\ session[p] \in Conns
                             /\ conn[session[p]] = [FreeConn EXCEPT !.phase = "relay", !.proc = p]
         /\ \A p \in Procs \ Joined : session[p] = NoConn
         /\ \A id \in Ids : (\E p \in Joined : IdOf[p] = id)
                               => ProcOf(id) \in Joined /\ IdOf[ProcOf(id)] = id
<1>1. Cardinality(Joined) \in Nat /\ Cardinality(Joined) <= MaxConns /\ Joined \subseteq Procs
  BY IdOfAssumption, FS_CardinalityType
<1>2. /\ session \in [Procs -> 0 .. Cardinality(Joined)]
      /\ \A p \in Procs : session[p] # NoConn <=> p \in Joined
      /\ \A p, q \in Joined : session[p] = session[q] => p = q
  BY DEF Init
<1>3. 0 .. Cardinality(Joined) \subseteq Conns \cup {NoConn}
  BY <1>1, MaxAssumption DEF Conns, NoConn
<1>4. ASSUME NEW p \in Joined
      PROVE  /\ p \in Procs /\ session[p] \in Conns
             /\ conn[session[p]] = [FreeConn EXCEPT !.phase = "relay", !.proc = p]
  <2>1. p \in Procs /\ session[p] \in Conns
    BY <1>1, <1>2, <1>3
  <2>2. (CHOOSE q \in Joined : session[q] = session[p]) = p
    BY <1>2
  <2>3. conn = [k \in Conns |->
                 IF \E q \in Joined : session[q] = k
                 THEN [FreeConn EXCEPT !.phase = "relay",
                                       !.proc = CHOOSE q \in Joined : session[q] = k]
                 ELSE FreeConn]
    BY DEF Init
  <2> QED BY <2>1, <2>2, <2>3
<1>5. ASSUME NEW id \in Ids, \E p \in Joined : IdOf[p] = id
      PROVE  ProcOf(id) \in Joined /\ IdOf[ProcOf(id)] = id
  BY <1>5 DEF ProcOf
<1>6. session \in [Procs -> Conns \cup {NoConn}]
  BY <1>2, <1>3
<1> QED BY <1>2, <1>4, <1>5, <1>6

LEMMA InitTyped == Init => TypeInv
<1> SUFFICES ASSUME Init PROVE TypeInv
  OBVIOUS
<1>1. Cardinality(Joined) \in Nat /\ Joined \subseteq Procs /\ IdOf \in [Procs -> Ids]
  BY IdOfAssumption, FS_CardinalityType
<1>2. order \in Seq(Ids) /\ selected \in Ids \cup {NoId} /\ announced \in Ids \cup {NoId}
  <2>1. {IdOf[p] : p \in Joined} \subseteq Ids
    BY <1>1
  <2>2. order \in [1 .. Cardinality(Joined) -> {IdOf[p] : p \in Joined}]
    BY DEF Init
  <2>3. order \in [1 .. Cardinality(Joined) -> Ids]
    BY <2>1, <2>2
  <2>4. order \in Seq(Ids)
    BY <1>1, <2>3, SeqDef
  <2>5. order # <<>> => order[1] \in Ids
    BY <2>4
  <2> QED BY <2>4, <2>5 DEF Init
<1>3. player \in [Procs -> Status] /\ ready \in [Procs -> BOOLEAN]
  <2>1. /\ player = [p \in Procs |-> IF p \in Joined /\ IdOf[p] = selected THEN "playing" ELSE "stopped"]
        /\ ready = [p \in Procs |-> p \in Joined]
    BY DEF Init
  <2>2. "playing" \in Status /\ "stopped" \in Status /\ \A p \in Procs : (p \in Joined) \in BOOLEAN
    BY DEF Status
  <2> QED BY <2>1, <2>2
<1>4. node \in [Ids -> NodeType]
  <2>1. node = [id \in Ids |->
                 IF \E p \in Joined : IdOf[p] = id
                 THEN [connected |-> TRUE, status |-> player[ProcOf(id)]]
                 ELSE [connected |-> FALSE, status |-> "stopped"]]
    BY DEF Init
  <2>2. "stopped" \in Status
    BY DEF Status
  <2>3. \A id \in Ids : (\E p \in Joined : IdOf[p] = id) => player[ProcOf(id)] \in Status
    BY <1>1, <1>3, InitJoined
  <2> QED BY <2>1, <2>2, <2>3 DEF NodeType
<1>5. slot \in [Ids -> Conns \cup {NoConn}]
  <2>1. slot = [id \in Ids |-> IF \E p \in Joined : IdOf[p] = id THEN session[ProcOf(id)] ELSE NoConn]
    BY DEF Init
  <2>2. \A id \in Ids : (\E p \in Joined : IdOf[p] = id) => session[ProcOf(id)] \in Conns
    BY InitJoined
  <2> QED BY <2>1, <2>2
<1>6. conn \in [Conns -> ConnType] /\ TargetsOK
  <2>1. conn = [k \in Conns |->
                 IF \E p \in Joined : session[p] = k
                 THEN [FreeConn EXCEPT !.phase = "relay",
                                       !.proc = CHOOSE p \in Joined : session[p] = k]
                 ELSE FreeConn]
    BY DEF Init
  <2>2. FreeConn \in ConnType /\ FreeConn.phase = "free"
    BY FreeConnType DEF FreeConn
  <2>3. ASSUME NEW p \in Procs
        PROVE  /\ [FreeConn EXCEPT !.phase = "relay", !.proc = p] \in ConnType
               /\ [FreeConn EXCEPT !.phase = "relay", !.proc = p].phase = "relay"
    BY <2>2 DEF ConnType, Phases
  <2>4. ASSUME NEW k \in Conns
        PROVE  conn[k] \in ConnType /\ conn[k].phase \notin Serving
    <3>1. CASE \E p \in Joined : session[p] = k
      <4>1. PICK p \in Procs : conn[k] = [FreeConn EXCEPT !.phase = "relay", !.proc = p]
        BY <3>1, InitJoined
      <4> QED BY <2>3, <4>1 DEF Serving
    <3>2. CASE ~\E p \in Joined : session[p] = k
      BY <2>1, <2>2, <3>2 DEF Serving
    <3> QED BY <3>1, <3>2
  <2> QED BY <2>1, <2>4 DEF TargetsOK
<1>7. task \in [Clients -> TaskType] /\ TasksOK
  <2>1. task = [c \in Clients |-> NoTask]
    BY DEF Init
  <2>2. NoTask \in TaskType /\ NoTask.step = "idle"
    BY DEF NoTask, TaskType, Steps, Status
  <2>3. \A c \in Clients : task[c] = NoTask
    BY <2>1
  <2>4. TasksOK
    BY <2>2, <2>3 DEF TasksOK
  <2>5. task \in [Clients -> TaskType]
    BY <2>1, <2>2
  <2> QED BY <2>4, <2>5
<1>8. ops \in 0 .. MaxOps /\ drops \in 0 .. MaxDrops
  <2>1. ops = MaxOps /\ drops = MaxDrops
    BY DEF Init
  <2> QED BY <2>1, MaxAssumption
<1>9. session \in [Procs -> Conns \cup {NoConn}]
  BY InitJoined
<1> QED BY <1>2, <1>3, <1>4, <1>5, <1>6, <1>7, <1>8, <1>9, Zenon
        DEF TypeInv, TypeOK, ConnType, TaskType, NodeType, Steps

LEMMA TypeInvKept == TypeInv /\ [Next]_vars => TypeInv'
<1> SUFFICES ASSUME TypeInv, [Next]_vars PROVE TypeInv'
  OBVIOUS
<1> QED BY ConnsTyped, CoreTyped, NodeTyped, ProcsTyped, BoundsTyped, TasksTyped, Zenon
        DEF TypeInv, TypeOK, ConnType, TaskType, NodeType, Steps

\* Every variable keeps its type, and a task on the server always has a node to work on.
THEOREM TypesHold == Spec => []TypeOK
<1>1. Spec => []TypeInv
  BY InitTyped, TypeInvKept, PTL DEF Spec
<1>2. TypeInv => TypeOK
  BY DEF TypeInv
<1> QED BY <1>1, <1>2, PTL

-----------------------------------------------------------------------------
(* Outputs.  A connection that owns an output has not begun to leave.      *)

OwnersOK == \A id \in Ids :
               slot[id] # NoConn => NodeIdOf(slot[id]) = id /\ OwnerLike(conn[slot[id]])

\* A connection on its way in ends its registration in the relay loop.
NewcomersOK == \A k \in Conns : conn[k].phase = "register" => conn[k].after # "closed"

OutputInv == OwnersOK /\ NewcomersOK

LEMMA InitOutputs == Init => OutputInv
<1> SUFFICES ASSUME Init PROVE OutputInv
  OBVIOUS
<1>1. FreeConn \in ConnType /\ FreeConn.after = "check" /\ FreeConn.phase = "free"
  BY FreeConnType DEF FreeConn
<1>2. ASSUME NEW p \in Procs, NEW r, r = [FreeConn EXCEPT !.phase = "relay", !.proc = p]
      PROVE  OwnerLike(r) /\ r.proc = p /\ r.phase # "register"
  BY <1>1, <1>2 DEF OwnerLike, ConnType
<1>3. ASSUME NEW id \in Ids, slot[id] # NoConn
      PROVE  NodeIdOf(slot[id]) = id /\ OwnerLike(conn[slot[id]])
  <2>1. slot = [i \in Ids |-> IF \E p \in Joined : IdOf[p] = i THEN session[ProcOf(i)] ELSE NoConn]
    BY DEF Init
  <2>2. (\E p \in Joined : IdOf[p] = id) /\ slot[id] = session[ProcOf(id)]
    BY <1>3, <2>1
  <2>3. /\ ProcOf(id) \in Procs /\ IdOf[ProcOf(id)] = id
        /\ conn[slot[id]] = [FreeConn EXCEPT !.phase = "relay", !.proc = ProcOf(id)]
    BY <2>2, InitJoined
  <2> QED BY <1>2, <2>3 DEF NodeIdOf
<1>4. ASSUME NEW k \in Conns
      PROVE  conn[k].phase # "register"
  <2>1. conn = [j \in Conns |->
                 IF \E p \in Joined : session[p] = j
                 THEN [FreeConn EXCEPT !.phase = "relay",
                                       !.proc = CHOOSE p \in Joined : session[p] = j]
                 ELSE FreeConn]
    BY DEF Init
  <2>2. CASE \E p \in Joined : session[p] = k
    <3>1. PICK p \in Procs : conn[k] = [FreeConn EXCEPT !.phase = "relay", !.proc = p]
      BY <2>2, InitJoined
    <3> QED BY <1>2, <3>1
  <2>3. CASE ~\E p \in Joined : session[p] = k
    BY <1>1, <2>1, <2>3
  <2> QED BY <2>2, <2>3
<1> QED BY <1>3, <1>4 DEF OutputInv, OwnersOK, NewcomersOK

\* Owners that are alike before and after a step, with the slots as they were
LEMMA OutputsAlike ==
  ASSUME TypeInv, OutputInv, AllAlike, UNCHANGED slot
  PROVE  OutputInv'
<1>1. slot \in [Ids -> Conns \cup {NoConn}]
  BY DEF TypeInv, TypeOK
<1>2. \A k \in Conns : /\ conn'[k].proc = conn[k].proc /\ conn'[k].phase = conn[k].phase
                       /\ conn'[k].after = conn[k].after
  BY DEF AllAlike, Alike, SameBut
<1>3. NewcomersOK'
  BY <1>2 DEF OutputInv, NewcomersOK
<1>4. ASSUME NEW id \in Ids, slot'[id] # NoConn
      PROVE  IdOf[conn'[slot'[id]].proc] = id /\ OwnerLike(conn'[slot'[id]])
  <2>1. slot[id] \in Conns /\ slot'[id] = slot[id] /\ slot[id] # NoConn
    BY <1>1, <1>4
  <2> QED BY <1>2, <2>1 DEF OutputInv, OwnersOK, NodeIdOf, OwnerLike
<1> QED BY <1>3, <1>4 DEF OutputInv, OwnersOK, NodeIdOf

LEMMA OutputsKept == TypeInv /\ OutputInv /\ [Next]_vars => OutputInv'
<1> SUFFICES ASSUME TypeInv, OutputInv, [Next]_vars PROVE OutputInv'
  OBVIOUS
<1>1. slot \in [Ids -> Conns \cup {NoConn}] /\ conn \in [Conns -> ConnType]
  BY DEF TypeInv, TypeOK, ConnType
<1>2. CASE \E p \in Procs : ProcStep(p) \/ Drop(p)
  <2>1. UNCHANGED slot
    BY <1>2 DEF ProcStep, Drop, ClearPlayer, Execute, core
  <2> QED BY <1>2, <2>1, ProcEffect, OutputsAlike
<1>3. CASE \E c \in Clients : ClientStep(c)
  <2>1. UNCHANGED slot
    BY <1>3 DEF ClientStep, TaskStep, StopPrevious, LoadSelected, ResumeSelected, EndSelect,
                SendControl, EndControl, SelectNode, Control, core
  <2> QED BY <1>3, <2>1, ClientEffect, OutputsAlike
<1>4. CASE UNCHANGED vars
  BY <1>4, UnchangedEffect, OutputsAlike DEF vars, core
<1>5. ASSUME NEW p \in Procs, NEW k \in Conns, Connect(p, k)
      PROVE  OutputInv'
  <2>1. /\ OthersAlike(k) /\ conn[k].phase = "free"
        /\ conn'[k].phase = "register" /\ conn'[k].after = "check"
    BY <1>5, ConnectEffect
  <2>2. UNCHANGED slot
    BY <1>5 DEF Connect, core
  <2>3. NewcomersOK'
    BY <2>1 DEF OutputInv, NewcomersOK, OthersAlike, Alike
  <2>4. ASSUME NEW id \in Ids, slot'[id] # NoConn
        PROVE  IdOf[conn'[slot'[id]].proc] = id /\ OwnerLike(conn'[slot'[id]])
    <3>1. /\ slot[id] \in Conns /\ slot'[id] = slot[id]
          /\ IdOf[conn[slot[id]].proc] = id /\ OwnerLike(conn[slot[id]])
      BY <1>1, <2>2, <2>4 DEF OutputInv, OwnersOK, NodeIdOf
    <3>2. slot[id] # k
      BY <2>1, <3>1 DEF OwnerLike
    <3> QED BY <2>1, <3>1, <3>2 DEF OthersAlike, Alike, SameBut, OwnerLike
  <2> QED BY <2>3, <2>4 DEF OutputInv, OwnersOK, NodeIdOf
<1>6. ASSUME NEW k \in Conns, ServeStep(k) \/ ReceiveUpdate(k) \/ TimeOut(k)
      PROVE  OutputInv'
  <2>1. Effect(k)
    BY <1>6, ServeEffect
  <2>2. NewcomersOK'
    BY <2>1 DEF Effect, OutputInv, NewcomersOK, OthersAlike, Alike
  <2>3. ASSUME NEW id \in Ids, slot[id] # NoConn, slot[id] # k
        PROVE  IdOf[conn'[slot[id]].proc] = id /\ OwnerLike(conn'[slot[id]])
    <3>1. /\ slot[id] \in Conns \ {k}
          /\ IdOf[conn[slot[id]].proc] = id /\ OwnerLike(conn[slot[id]])
      BY <1>1, <2>3 DEF OutputInv, OwnersOK, NodeIdOf
    <3> QED BY <2>1, <3>1 DEF Effect, OthersAlike, Alike, SameBut, OwnerLike
  <2>4. ASSUME NEW id \in Ids, slot[id] = k, conn[k].phase # "unregister"
        PROVE  IdOf[conn'[k].proc] = id /\ OwnerLike(conn'[k])
    <3>1. slot[id] # NoConn
      BY <2>4 DEF Conns, NoConn
    <3>2. IdOf[conn[k].proc] = id /\ OwnerLike(conn[k]) /\ slot[NodeIdOf(k)] = k
      BY <2>4, <3>1 DEF OutputInv, OwnersOK, NodeIdOf
    <3> QED BY <2>1, <2>4, <3>2 DEF Effect, OwnerLike
  <2>5. CASE RegisterOutput(k)
    <3>1. conn[k].phase = "register" /\ slot' = [slot EXCEPT ![NodeIdOf(k)] = k]
      BY <2>5 DEF RegisterOutput, In
    <3>2. OwnerLike(conn'[k]) /\ IdOf[conn'[k].proc] = NodeIdOf(k)
      BY <2>1, <3>1 DEF Effect, OutputInv, NewcomersOK, NodeIdOf
    <3>3. ASSUME NEW id \in Ids, slot'[id] # NoConn
          PROVE  IdOf[conn'[slot'[id]].proc] = id /\ OwnerLike(conn'[slot'[id]])
      <4>1. CASE id = NodeIdOf(k)
        BY <1>1, <3>1, <3>2, <4>1
      <4>2. CASE id # NodeIdOf(k)
        <5>1. slot'[id] = slot[id] /\ slot[id] # NoConn
          BY <1>1, <3>1, <3>3, <4>2
        <5>2. slot[id] # k
          BY <4>2, <5>1 DEF OutputInv, OwnersOK
        <5> QED BY <2>3, <5>1, <5>2
      <4> QED BY <4>1, <4>2
    <3> QED BY <2>2, <3>3 DEF OutputInv, OwnersOK, NodeIdOf
  <2>6. CASE UnregisterOutput(k)
    <3>1. slot' = [slot EXCEPT ![NodeIdOf(k)] = IF slot[NodeIdOf(k)] = k THEN NoConn
                                                ELSE slot[NodeIdOf(k)]]
      BY <2>6 DEF UnregisterOutput
    <3>2. ASSUME NEW id \in Ids, slot'[id] # NoConn
          PROVE  slot'[id] = slot[id] /\ slot[id] # k
      <4>1. CASE id = NodeIdOf(k)
        BY <1>1, <3>1, <3>2, <4>1
      <4>2. CASE id # NodeIdOf(k)
        <5>1. slot'[id] = slot[id] /\ slot[id] # NoConn
          BY <1>1, <3>1, <3>2, <4>2
        <5> QED BY <4>2, <5>1 DEF OutputInv, OwnersOK
      <4> QED BY <4>1, <4>2
    <3>3. ASSUME NEW id \in Ids, slot'[id] # NoConn
          PROVE  IdOf[conn'[slot'[id]].proc] = id /\ OwnerLike(conn'[slot'[id]])
      BY <2>3, <3>2, <3>3
    <3> QED BY <2>2, <3>3 DEF OutputInv, OwnersOK, NodeIdOf
  <2>7. CASE ~RegisterOutput(k) /\ ~UnregisterOutput(k)
    <3>1. UNCHANGED slot /\ conn[k].phase # "unregister"
      BY <1>6, <2>7 DEF ServeStep, AddNode, ReadLogicalState, LoadQueue, ApplyStatus, WriteStopped,
                        CheckSelected, WriteStatus, EndRelay, EndGrace, HandleDisconnected,
                        Close, ReceiveUpdate, TimeOut, core, In
    <3> QED BY <2>2, <2>3, <2>4, <3>1 DEF OutputInv, OwnersOK, NodeIdOf
  <2> QED BY <2>5, <2>6, <2>7
<1> QED BY <1>2, <1>3, <1>4, <1>5, <1>6, StepCases

\* The output of an id always belongs to a connection of that id that still serves it,
\* however the sessions of its processes overlap, end late or are taken over.
THEOREM OutputsAreAlwaysServed == Spec => []OutputsAreServed
<1>1. Init => TypeInv /\ OutputInv
  BY InitTyped, InitOutputs
<1>2. TypeInv /\ OutputInv /\ [Next]_vars => (TypeInv /\ OutputInv)'
  BY TypeInvKept, OutputsKept
<1>3. OutputInv => OutputsAreServed
  BY DEF OutputInv, OwnersOK, OwnerLike, OutputsAreServed
<1> QED BY <1>1, <1>2, <1>3, PTL DEF Spec

-----------------------------------------------------------------------------
(* The list of nodes and the selected one.                                 *)

LEMMA ListedKept == TypeInv /\ SelectedIsListed /\ [Next]_vars => SelectedIsListed'
<1> SUFFICES ASSUME TypeInv, SelectedIsListed, [Next]_vars PROVE SelectedIsListed'
  OBVIOUS
<1>1. order \in Seq(Ids) /\ selected \in Ids \cup {NoId} /\ NoId \notin Ids
  BY NoIdAssumption DEF TypeInv, TypeOK
<1>2. order # <<>> => selected # NoId
  BY <1>1 DEF SelectedIsListed, Known
<1>3. ASSUME NEW k \in Conns, AddNode(k)
      PROVE  SelectedIsListed'
  <2> DEFINE id == NodeIdOf(k)
  <2>1. id \in Ids
    BY NodeIdType
  <2>2. CASE Known(id)
    <3>1. order' = order /\ order # <<>> /\ selected' = selected
      BY <1>1, <1>2, <1>3, <2>2 DEF AddNode, Known
    <3> QED BY <3>1 DEF SelectedIsListed, Known
  <2>3. CASE ~Known(id)
    <3>1. /\ order' = Append(order, id)
          /\ selected' = IF order = <<>> THEN id ELSE selected
      BY <1>2, <1>3, <2>3 DEF AddNode, SelectedIsListed
    <3>2. /\ Len(order') = Len(order) + 1 /\ order' \in Seq(Ids)
          /\ \A i \in 1 .. Len(order) : order'[i] = order[i]
          /\ order'[Len(order) + 1] = id
      BY <1>1, <2>1, <3>1, AppendProperties
    <3>3. DOMAIN order' = 1 .. Len(order) + 1 /\ DOMAIN order = 1 .. Len(order) /\ Len(order) \in Nat
      BY <1>1, <3>2
    <3>4. \A i \in DOMAIN order : order[i] # id
      BY <2>3 DEF Known
    <3>5. \A i, j \in DOMAIN order' : order'[i] = order'[j] => i = j
      BY <3>2, <3>3, <3>4 DEF SelectedIsListed
    <3>6. \E i \in DOMAIN order' : order'[i] = selected'
      <4>1. CASE order = <<>>
        BY <3>1, <3>2, <3>3, <4>1
      <4>2. CASE order # <<>>
        <5>1. PICK i \in DOMAIN order : order[i] = selected
          BY <4>2 DEF SelectedIsListed, Known
        <5> QED BY <3>1, <3>2, <3>3, <4>2, <5>1
      <4> QED BY <4>1, <4>2
    <3>7. order' # <<>>
      BY <3>2, <3>3
    <3> QED BY <3>5, <3>6, <3>7 DEF SelectedIsListed, Known
  <2> QED BY <2>2, <2>3
<1>4. ASSUME NEW k \in Conns, HandleDisconnected(k)
      PROVE  SelectedIsListed'
  <2>1. order' = order
    BY <1>4 DEF HandleDisconnected
  <2>2. selected' = selected \/ (order # <<>> /\ Known(selected'))
    <3>1. CASE selected' = selected
      BY <3>1
    <3>2. CASE selected' # selected
      <4>1. FallbackFor(NodeIdOf(k)) # NoId /\ selected' = FallbackFor(NodeIdOf(k))
        BY <1>4, <3>2 DEF HandleDisconnected
      <4>2. Known(selected')
        BY <1>1, <4>1, FallbackListed
      <4> QED BY <4>2 DEF Known
    <3> QED BY <3>1, <3>2
  <2> QED BY <2>1, <2>2 DEF SelectedIsListed, Known
<1>5. ASSUME NEW c \in Clients, NEW id \in Ids, SelectNode(c, id)
      PROVE  SelectedIsListed'
  BY <1>5 DEF SelectNode, SelectedIsListed, Known
<1>6. CASE UNCHANGED <<order, selected>>
  BY <1>6 DEF SelectedIsListed, Known
<1> QED BY <1>3, <1>4, <1>5, <1>6, SelectedSteps

LEMMA InitListed == Init => SelectedIsListed
<1> SUFFICES ASSUME Init PROVE SelectedIsListed
  OBVIOUS
<1>1. order \in Seq(Ids)
  BY InitTyped DEF TypeInv, TypeOK
<1>2. /\ \A i, j \in DOMAIN order : order[i] = order[j] => i = j
      /\ selected = IF order = <<>> THEN NoId ELSE order[1]
  BY DEF Init
<1>3. order # <<>> => 1 \in DOMAIN order
  BY <1>1
<1> QED BY <1>2, <1>3 DEF SelectedIsListed, Known

\* The state lists a node once however often it registers, and the selected node is
\* always one of the list, also when the fallback of a lost node takes over.
THEOREM SelectedIsAlwaysListed == Spec => []SelectedIsListed
<1>1. Init => TypeInv /\ SelectedIsListed
  BY InitTyped, InitListed
<1>2. TypeInv /\ SelectedIsListed /\ [Next]_vars => (TypeInv /\ SelectedIsListed)'
  BY TypeInvKept, ListedKept
<1> QED BY <1>1, <1>2, PTL DEF Spec

-----------------------------------------------------------------------------
(* Sessions.                                                               *)

\* The connection a process uses is its own, and is one the server has.
SessionsAreOwn == \A p \in Procs :
    session[p] # NoConn => conn[session[p]].proc = p /\ conn[session[p]].phase # "free"

LEMMA SessionsAlike ==
  ASSUME TypeInv, SessionsAreOwn, AllAlike,
         \A p \in Procs : session'[p] \in {session[p], NoConn}
  PROVE  SessionsAreOwn'
<1>1. session \in [Procs -> Conns \cup {NoConn}]
  BY DEF TypeInv, TypeOK
<1>2. \A k \in Conns : conn'[k].proc = conn[k].proc /\ conn'[k].phase = conn[k].phase
  BY DEF AllAlike, Alike, SameBut
<1> QED BY <1>1, <1>2 DEF SessionsAreOwn

LEMMA SessionsKept == TypeInv /\ SessionsAreOwn /\ [Next]_vars => SessionsAreOwn'
<1> SUFFICES ASSUME TypeInv, SessionsAreOwn, [Next]_vars PROVE SessionsAreOwn'
  OBVIOUS
<1>1. session \in [Procs -> Conns \cup {NoConn}] /\ conn \in [Conns -> ConnType]
  BY DEF TypeInv, TypeOK, ConnType
<1>2. CASE \E p \in Procs : ProcStep(p) \/ Drop(p)
  <2>1. \A p \in Procs : session'[p] \in {session[p], NoConn}
    BY <1>1, <1>2 DEF ProcStep, Drop, ClearPlayer, Execute
  <2> QED BY <1>2, <2>1, ProcEffect, SessionsAlike
<1>3. CASE \E c \in Clients : ClientStep(c)
  <2>1. UNCHANGED session
    BY <1>3 DEF ClientStep, TaskStep, StopPrevious, LoadSelected, ResumeSelected, EndSelect,
                SendControl, EndControl, SelectNode, Control, process
  <2> QED BY <1>3, <2>1, ClientEffect, SessionsAlike
<1>4. CASE UNCHANGED vars
  BY <1>4, UnchangedEffect, SessionsAlike DEF vars, process
<1>5. ASSUME NEW p \in Procs, NEW k \in Conns, Connect(p, k)
      PROVE  SessionsAreOwn'
  <2>1. /\ OthersAlike(k) /\ conn[k].phase = "free" /\ conn'[k].proc = p
        /\ conn'[k].phase = "register"
    BY <1>5, ConnectEffect
  <2>2. session' = [session EXCEPT ![p] = k]
    BY <1>5 DEF Connect
  <2>3. ASSUME NEW q \in Procs, session'[q] # NoConn
        PROVE  conn'[session'[q]].proc = q /\ conn'[session'[q]].phase # "free"
    <3>1. CASE q = p
      BY <1>1, <2>1, <2>2, <3>1
    <3>2. CASE q # p
      <4>1. /\ session'[q] = session[q] /\ session[q] \in Conns
            /\ conn[session[q]].proc = q /\ conn[session[q]].phase # "free"
        BY <1>1, <2>2, <2>3, <3>2 DEF SessionsAreOwn
      <4> QED BY <2>1, <4>1 DEF OthersAlike, Alike, SameBut
    <3> QED BY <3>1, <3>2
  <2> QED BY <2>3 DEF SessionsAreOwn
<1>6. ASSUME NEW k \in Conns, ServeStep(k) \/ ReceiveUpdate(k) \/ TimeOut(k)
      PROVE  SessionsAreOwn'
  <2>1. Effect(k)
    BY <1>6, ServeEffect
  <2>2. ASSUME NEW q \in Procs, session'[q] # NoConn,
               session'[q] = session[q], session[q] = k => conn[k].phase # "closed"
        PROVE  conn'[session'[q]].proc = q /\ conn'[session'[q]].phase # "free"
    <3>1. /\ session[q] \in Conns /\ conn[session[q]].proc = q
          /\ conn[session[q]].phase # "free"
      BY <1>1, <2>2 DEF SessionsAreOwn
    <3> QED BY <2>1, <2>2, <3>1 DEF Effect, OthersAlike, Alike, SameBut
  <2>3. CASE Close(k)
    <3>1. \A q \in Procs : session'[q] = IF session[q] = k THEN NoConn ELSE session[q]
      BY <2>3 DEF Close
    <3> QED BY <2>2, <3>1 DEF SessionsAreOwn
  <2>4. CASE ~Close(k)
    <3>1. UNCHANGED session /\ conn[k].phase # "closed"
      BY <1>6, <2>4 DEF ServeStep, RegisterOutput, AddNode, ReadLogicalState, LoadQueue, ApplyStatus,
                        WriteStopped, CheckSelected, WriteStatus, EndRelay, EndGrace, UnregisterOutput,
                        HandleDisconnected, ReceiveUpdate, TimeOut, process, In
    <3> QED BY <2>2, <3>1 DEF SessionsAreOwn
  <2> QED BY <2>3, <2>4
<1> QED BY <1>2, <1>3, <1>4, <1>5, <1>6, StepCases

\* No two processes ever use one connection: with OutputsAreAlwaysServed, the commands of
\* an id only reach a process that was started with that id.
SessionsAreDistinct ==
    \A p, q \in Procs : session[p] = session[q] /\ session[p] # NoConn => p = q

\* Whatever connections are lost and taken over.
THEOREM SessionsAreAlwaysDistinct == Spec => []SessionsAreDistinct
<1>1. Init => TypeInv /\ SessionsAreOwn
  <2> SUFFICES ASSUME Init PROVE SessionsAreOwn
    BY InitTyped
  <2>1. ASSUME NEW p \in Procs, session[p] # NoConn
        PROVE  conn[session[p]].proc = p /\ conn[session[p]].phase # "free"
    <3>1. conn[session[p]] = [FreeConn EXCEPT !.phase = "relay", !.proc = p]
      BY <2>1, InitJoined
    <3> QED BY <3>1, FreeConnType DEF ConnType
  <2> QED BY <2>1 DEF SessionsAreOwn
<1>2. TypeInv /\ SessionsAreOwn /\ [Next]_vars => (TypeInv /\ SessionsAreOwn)'
  BY TypeInvKept, SessionsKept
<1>3. SessionsAreOwn => SessionsAreDistinct
  BY DEF SessionsAreOwn, SessionsAreDistinct
<1> QED BY <1>1, <1>2, <1>3, PTL DEF Spec
=============================================================================
