-------------------------- MODULE Projection_proofs --------------------------
(***************************************************************************)
(* Theorems about Projection, for any nodes, clients, tracks and bounds.   *)
(***************************************************************************)
EXTENDS Projection, QueueOps_proofs

-----------------------------------------------------------------------------
(* Types of what the tasks carry.                                          *)

LEMMA SuffixType ==
  ASSUME NEW q \in Seq(Tracks), NEW i \in Index
  PROVE  /\ Suffix(q, i) \in Seq(Tracks)
         /\ ProjectionFrom(q, i) \in ProjectionType
<1>1. \A j \in 1 .. Len(q) : q[j] \in Tracks
  BY ElementOfSeq
<1>2. Suffix(q, i) \in Seq(Tracks)
  <2> DEFINE m == (IF i = None THEN 0 ELSE i) + 1
  <2>1. m \in Int /\ m >= 1 /\ Len(q) \in Int
    BY DEF Index, None
  <2>2. \A j \in m .. Len(q) : q[j] \in Tracks
    BY <1>1, <2>1
  <2> HIDE DEF m
  <2>3. SubSeq(q, m, Len(q)) \in Seq(Tracks)
    BY <2>1, <2>2, SubSeqProperties
  <2> QED
    BY <2>3 DEF Suffix, m
<1>3. Len(Suffix(q, i)) \in Nat
  BY <1>2
<1> QED
  BY <1>2, <1>3 DEF ProjectionFrom, ProjectionType

LEMMA TaskConstants ==
  /\ SomeNode \in Nodes
  /\ playSteps \in Seq(Steps)
  /\ NoProjection \in ProjectionType
  /\ NoTask \in TaskType
<1>1. SomeNode \in Nodes
  BY NodesAssumption DEF SomeNode
<1>2. playSteps \in Seq(Steps)
  BY DEF playSteps, Steps
<1>3. NoProjection \in ProjectionType
  BY EmptySeq DEF NoProjection, ProjectionType, Index
<1>4. NoTask \in TaskType
  BY <1>1, <1>3, EmptySeq DEF NoTask, TaskType
<1> QED
  BY <1>1, <1>2, <1>3, <1>4

\* A task that has done a step has the type of a task.
LEMMA AdvanceType ==
  ASSUME task \in [Clients -> TaskType], NEW c \in Clients,
         NEW t \in TaskType, t.todo # <<>>, Advance(c, t)
  PROVE  task' \in [Clients -> TaskType]
<1>1. Tail(t.todo) \in Seq(Steps)
  BY HeadTailProperties DEF TaskType
<1>2. [t EXCEPT !.todo = Tail(@)] \in TaskType
  BY <1>1 DEF TaskType
<1> QED
  BY <1>2, TaskConstants DEF Advance

LEMMA AbortType ==
  ASSUME task \in [Clients -> TaskType], NEW c \in Clients, Abort(c)
  PROVE  task' \in [Clients -> TaskType]
BY TaskConstants DEF Abort

LEMMA BeginType ==
  ASSUME task \in [Clients -> TaskType], budget \in Nat, NEW c \in Clients,
         NEW op, NEW t \in TaskType, Begin(c, op, t)
  PROVE  task' \in [Clients -> TaskType] /\ budget' \in Nat
BY DEF Begin

LEMMA TaskOnSelectedType ==
  ASSUME selected \in Nodes, NEW todo \in Seq(Steps)
  PROVE  TaskOnSelected(todo) \in TaskType
BY TaskConstants DEF TaskOnSelected, NoTask, TaskType

\* Changing fields of a task to values of the fields' types.
LEMMA TaskUpdateType ==
  /\ \A t \in TaskType : \A p \in Nat : [t EXCEPT !.pos = p] \in TaskType
  /\ \A t \in TaskType : \A p, o \in Nat : [t EXCEPT !.pos = p, !.to = o] \in TaskType
  /\ \A t \in TaskType : \A s \in Seq(Tracks) : [t EXCEPT !.tracks = s] \in TaskType
  /\ \A t \in TaskType : \A g \in Nat : [t EXCEPT !.gen = g] \in TaskType
  /\ \A t \in TaskType : \A n \in Nodes : [t EXCEPT !.out = n] \in TaskType
  /\ \A t \in TaskType : \A r \in ProjectionType : [t EXCEPT !.proj = r] \in TaskType
  /\ \A t \in TaskType : \A n \in Nodes : \A r \in ProjectionType :
        [t EXCEPT !.out = n, !.proj = r] \in TaskType
  /\ \A t \in TaskType : \A s \in Seq(Tracks) : \A p \in Nat : \A r \in ProjectionType :
        [t EXCEPT !.tracks = s, !.pos = p, !.proj = r] \in TaskType
BY DEF TaskType, ProjectionType

-----------------------------------------------------------------------------
(* Type correctness: the requests.                                         *)

LEMMA RequestType ==
  ASSUME TypeOK, NEW c \in Clients, Request(c)
  PROVE  TypeOK'
<1> USE DEF coreVars, nodeVars
<1>1. ASSUME NEW i \in Positions(queue[selected]), PlayIndex(c, i)
      PROVE  TypeOK'
  <2> DEFINE todo == <<"go_to">> \o playSteps
             t    == [TaskOnSelected(todo) EXCEPT !.pos = i]
  <2>1. todo \in Seq(Steps)
    BY TaskConstants, ConcatProperties DEF Steps
  <2>2. t \in TaskType
    <3>1. TaskOnSelected(todo) \in TaskType
      BY <2>1, TaskOnSelectedType DEF TypeOK
    <3>2. i \in Nat
      BY DEF Positions
    <3> QED
      BY <3>1, <3>2, TaskUpdateType
  <2>3. Begin(c, "play_index", t)
    BY <1>1 DEF PlayIndex
  <2>4. task' \in [Clients -> TaskType] /\ budget' \in Nat
    BY <2>2, <2>3, BeginType DEF TypeOK
  <2> QED
    BY <1>1, <2>4 DEF PlayIndex, TypeOK
<1>2. ASSUME NEW step \in {"next", "previous"}, Skip(c, step)
      PROVE  TypeOK'
  <2> DEFINE todo == <<step>> \o playSteps
  <2>1. todo \in Seq(Steps)
    BY TaskConstants, ConcatProperties DEF Steps
  <2>2. TaskOnSelected(todo) \in TaskType
    BY <2>1, TaskOnSelectedType DEF TypeOK
  <2>3. Begin(c, step, TaskOnSelected(todo))
    BY <1>2 DEF Skip
  <2>4. task' \in [Clients -> TaskType] /\ budget' \in Nat
    BY <2>2, <2>3, BeginType DEF TypeOK
  <2> QED
    BY <1>2, <2>4 DEF Skip, TypeOK
<1>3. CASE Play(c)
  <2>1. <<"play", "start">> \in Seq(Steps)
    BY DEF Steps
  <2>2. TaskOnSelected(<<"play", "start">>) \in TaskType
    BY <2>1, TaskOnSelectedType DEF TypeOK
  <2>3. task' \in [Clients -> TaskType] /\ budget' \in Nat
    BY <1>3, <2>2, BeginType DEF TypeOK, Play
  <2> QED
    BY <1>3, <2>3 DEF Play, TypeOK
<1>4. CASE ClearQueue(c)
  <2>1. <<"rebuild", "set_queue", "wipe">> \in Seq(Steps)
    BY DEF Steps
  <2>2. TaskOnSelected(<<"rebuild", "set_queue", "wipe">>) \in TaskType
    BY <2>1, TaskOnSelectedType DEF TypeOK
  <2>3. task' \in [Clients -> TaskType] /\ budget' \in Nat
    BY <1>4, <2>2, BeginType DEF TypeOK, ClearQueue
  <2> QED
    BY <1>4, <2>3 DEF ClearQueue, TypeOK
<1>5. ASSUME NEW tr \in Tracks, AddToQueue(c, tr)
      PROVE  TypeOK'
  <2> DEFINE todo == <<"push", "outputs", "add", "outputs", "extend">>
             t    == [TaskOnSelected(todo) EXCEPT !.tracks = <<tr>>]
  <2>1. todo \in Seq(Steps) /\ <<tr>> \in Seq(Tracks)
    BY DEF Steps
  <2>2. t \in TaskType
    <3>1. TaskOnSelected(todo) \in TaskType
      BY <2>1, TaskOnSelectedType DEF TypeOK
    <3> QED
      BY <2>1, <3>1, TaskUpdateType
  <2>3. Begin(c, "add", t)
    BY <1>5 DEF AddToQueue
  <2>4. task' \in [Clients -> TaskType] /\ budget' \in Nat
    BY <2>2, <2>3, BeginType DEF TypeOK
  <2> QED
    BY <1>5, <2>4 DEF AddToQueue, TypeOK
<1>6. ASSUME NEW q \in InitialQueues, NEW i \in Starts, SetQueue(c, q, i)
      PROVE  TypeOK'
  <2> DEFINE todo == <<"outputs", "rebuild", "set_queue", "replace", "outputs", "play">>
             t    == [TaskOnSelected(todo) EXCEPT !.tracks = q, !.pos = i,
                                                  !.proj = ProjectionAt(q, i)]
  <2>1. todo \in Seq(Steps) /\ q \in Seq(Tracks) /\ i \in Nat /\ i \in Index
    BY QueuesAssumption, StartsAssumption DEF Steps, Index
  <2>2. ProjectionAt(q, i) \in ProjectionType
    BY <2>1, SuffixType, TaskConstants DEF ProjectionAt
  <2>3. t \in TaskType
    <3>1. TaskOnSelected(todo) \in TaskType
      BY <2>1, TaskOnSelectedType DEF TypeOK
    <3> QED
      BY <2>1, <2>2, <3>1, TaskUpdateType
  <2>4. Begin(c, "set_queue", t)
    BY <1>6 DEF SetQueue
  <2>5. task' \in [Clients -> TaskType] /\ budget' \in Nat
    BY <2>3, <2>4, BeginType DEF TypeOK
  <2> QED
    BY <1>6, <2>5 DEF SetQueue, TypeOK
<1>7. ASSUME NEW i \in Positions(queue[selected]), RemoveFromQueue(c, i)
      PROVE  TypeOK'
  <2> DEFINE todo == <<"outputs", "remove", "outputs", "shrink">>
             pos  == OutputPosition(i, index[selected])
             t    == [TaskOnSelected(todo) EXCEPT !.pos = pos]
  <2>1. todo \in Seq(Steps)
    BY DEF Steps
  <2>2. pos \in Nat
    BY DEF TypeOK, Positions, OutputPosition, SaturatingSub, Index, None
  <2>3. t \in TaskType
    <3>1. TaskOnSelected(todo) \in TaskType
      BY <2>1, TaskOnSelectedType DEF TypeOK
    <3> QED
      BY <2>1, <2>2, <3>1, TaskUpdateType
  <2>4. Begin(c, "remove", t)
    BY <1>7 DEF RemoveFromQueue
  <2>5. task' \in [Clients -> TaskType] /\ budget' \in Nat
    BY <2>3, <2>4, BeginType DEF TypeOK
  <2>6. queue[selected] \in Seq(Tracks) /\ index[selected] \in Index
    BY DEF TypeOK
  <2>7. Removed(queue[selected], i) \in Seq(Tracks)
    BY <2>6, RemovedProperties
  <2>8. IndexAfterRemove(index[selected], i, queue[selected]) \in Index
    <3> DEFINE len == Len(queue[selected])
               cur == index[selected]
    <3>1. len \in Nat /\ i \in Nat /\ i < len
      BY <2>6 DEF Positions
    <3>2. cur = -1 \/ cur \in Nat
      BY <2>6 DEF Index, None
    <3> HIDE DEF len, cur
    <3>3. (IF cur = -1 \/ cur < i THEN cur
           ELSE IF cur > i THEN cur - 1
           ELSE IF len = 1 THEN -1
           ELSE IF cur <= len - 2 THEN cur ELSE len - 2) \in Nat \cup {-1}
      BY <3>1, <3>2
    <3> QED
      BY <3>3 DEF IndexAfterRemove, Index, None, len, cur
  <2> QED
    BY <1>7, <2>5, <2>7, <2>8 DEF RemoveFromQueue, TypeOK
<1>8. ASSUME NEW i \in Positions(queue[selected]), NEW j \in Positions(queue[selected]),
             MoveInQueue(c, i, j)
      PROVE  TypeOK'
  <2> DEFINE todo == <<"outputs", "move_track">>
             pos  == OutputPosition(i, index[selected])
             to   == OutputPosition(j, index[selected])
             t    == [TaskOnSelected(todo) EXCEPT !.pos = pos, !.to = to]
  <2>1. todo \in Seq(Steps)
    BY DEF Steps
  <2>2. pos \in Nat /\ to \in Nat
    <3>1. i \in Nat /\ j \in Nat /\ index[selected] \in Index
      BY DEF TypeOK, Positions
    <3> QED
      BY <3>1 DEF OutputPosition, SaturatingSub, Index, None
  <2>3. t \in TaskType
    <3>1. TaskOnSelected(todo) \in TaskType
      BY <2>1, TaskOnSelectedType DEF TypeOK
    <3> QED
      BY <2>1, <2>2, <3>1, TaskUpdateType
  <2>4. Begin(c, "move", t)
    BY <1>8 DEF MoveInQueue
  <2>5. task' \in [Clients -> TaskType] /\ budget' \in Nat
    BY <2>3, <2>4, BeginType DEF TypeOK
  <2>6. queue[selected] \in Seq(Tracks) /\ index[selected] \in Index
    BY DEF TypeOK
  <2>7. Moved(queue[selected], i, j) \in Seq(Tracks)
    BY <2>6, MovedProperties
  <2>8. IndexAfterMove(index[selected], i, j) \in Index
    BY <2>6 DEF IndexAfterMove, Index, None, Positions
  <2> QED
    BY <1>8, <2>5, <2>7, <2>8 DEF MoveInQueue, TypeOK
<1>9. ASSUME NEW mode \in RepeatModes, SetRepeat(c, mode)
      PROVE  TypeOK'
  <2>1. task' \in [Clients -> TaskType] /\ budget' \in Nat
    BY <1>9, TaskConstants, BeginType DEF SetRepeat, TypeOK
  <2> QED
    BY <1>9, <2>1 DEF SetRepeat, TypeOK
<1>10. ASSUME NEW n \in Nodes, NEW resume \in BOOLEAN, SelectNode(c, n, resume)
       PROVE  TypeOK'
  <2> DEFINE todo == <<"stop", "load", "rebuild", "set_queue">>
                        \o (IF resume THEN <<"play">> ELSE <<>>)
             t    == [NoTask EXCEPT !.todo = todo, !.node = n, !.out = selected]
  <2>1. todo \in Seq(Steps)
    <3>1. /\ <<"stop", "load", "rebuild", "set_queue">> \in Seq(Steps)
          /\ (IF resume THEN <<"play">> ELSE <<>>) \in Seq(Steps)
      <4>1. <<"stop", "load", "rebuild", "set_queue">> \in Seq(Steps)
        BY DEF Steps
      <4>2. <<"play">> \in Seq(Steps) /\ <<>> \in Seq(Steps)
        BY DEF Steps
      <4>3. (IF resume THEN <<"play">> ELSE <<>>) \in {<<"play">>, <<>>}
        OBVIOUS
      <4> QED
        BY <4>1, <4>2, <4>3, Zenon
    <3> QED
      BY <3>1, ConcatProperties
  <2>2. t \in TaskType
    BY <2>1, TaskConstants DEF TypeOK, TaskType, NoTask
  <2>3. Begin(c, "select", t)
    BY <1>10 DEF SelectNode
  <2>4. task' \in [Clients -> TaskType] /\ budget' \in Nat
    BY <2>2, <2>3, BeginType DEF TypeOK
  <2> QED
    BY <1>10, <2>4 DEF SelectNode, TypeOK
<1> QED
  BY <1>1, <1>2, <1>3, <1>4, <1>5, <1>6, <1>7, <1>8, <1>9, <1>10 DEF Request

-----------------------------------------------------------------------------
(* Type correctness: the steps of a task.                                  *)

LEMMA CurrentTask ==
  ASSUME TypeOK, NEW c \in Clients, NEW step, At(c, step)
  PROVE  /\ task[c] \in TaskType
         /\ task[c].todo # <<>> /\ Head(task[c].todo) = step
         /\ task[c].node \in Nodes /\ task[c].out \in Nodes /\ task[c].gen \in Nat
         /\ task[c].tracks \in Seq(Tracks) /\ task[c].proj \in ProjectionType
         /\ task[c].pos \in Nat /\ task[c].to \in Nat
BY DEF TypeOK, TaskType, At, Idle

\* Where a task goes to: nowhere or, from no index or a position, to a position.
LEMMA GoToTargets ==
  ASSUME TypeOK, NEW c \in Clients, GoToTarget(c)
  PROVE  LET n == task[c].node IN
         \E step \in {"go_to", "next", "previous"} : \E i \in Index :
            GoTo(c, step, i) /\ (ValidIndex(index[n], queue[n]) => ValidIndex(i, queue[n]))
<1> DEFINE n == task[c].node
           len == Len(queue[n])
<1>1. PICK step \in {"go_to", "next", "previous"} : At(c, step)
  BY DEF GoToTarget, GoTo
<1>2. /\ len \in Nat /\ index[n] \in Nat \cup {None} /\ repeat[n] \in RepeatModes
      /\ task[c].pos \in Nat
  <2>1. n \in Nodes /\ task[c].pos \in Nat
    BY <1>1, CurrentTask
  <2> QED
    BY <2>1 DEF TypeOK, Index
<1>3. ValidIndex(index[n], queue[n]) => index[n] = None \/ index[n] < len
  BY <1>2 DEF ValidIndex, Positions
<1>4. \A i : i \in 0 .. len - 1 \cup {None} => ValidIndex(i, queue[n])
  BY DEF ValidIndex, Positions
<1>5. CASE GoTo(c, "go_to", IF task[c].pos \in Positions(queue[n]) THEN task[c].pos ELSE None)
  <2> DEFINE i == IF task[c].pos \in Positions(queue[n]) THEN task[c].pos ELSE None
  <2>1. i \in Index /\ ValidIndex(i, queue[n])
    BY <1>2 DEF ValidIndex, Index
  <2> HIDE DEF i
  <2> QED
    BY <1>5, <2>1 DEF i
<1>6. CASE GoTo(c, "next", NextIndex(index[n], len, repeat[n]))
  <2> DEFINE i == NextIndex(index[n], len, repeat[n])
  <2>1. /\ i \in Nat \cup {None}
        /\ index[n] = None \/ index[n] < len => i \in 0 .. len - 1 \cup {None}
    BY <1>2, NextPrevProperties
  <2>2. i \in Index /\ (ValidIndex(index[n], queue[n]) => ValidIndex(i, queue[n]))
    BY <1>3, <1>4, <2>1 DEF Index
  <2> HIDE DEF i
  <2> QED
    BY <1>6, <2>2 DEF i
<1>7. CASE GoTo(c, "previous", PrevIndex(index[n], len, repeat[n]))
  <2> DEFINE i == PrevIndex(index[n], len, repeat[n])
  <2>1. /\ i \in Nat \cup {None}
        /\ index[n] = None \/ index[n] < len => i \in 0 .. len - 1 \cup {None}
    BY <1>2, NextPrevProperties
  <2>2. i \in Index /\ (ValidIndex(index[n], queue[n]) => ValidIndex(i, queue[n]))
    BY <1>3, <1>4, <2>1 DEF Index
  <2> HIDE DEF i
  <2> QED
    BY <1>7, <2>2 DEF i
<1> QED
  BY <1>5, <1>6, <1>7, Zenon DEF GoToTarget

LEMMA GoToType ==
  ASSUME TypeOK, NEW c \in Clients, NEW step, NEW i \in Index, GoTo(c, step, i)
  PROVE  TypeOK'
<1> USE DEF nodeVars
<1> DEFINE n == task[c].node
<1>1. /\ task[c] \in TaskType /\ task[c].todo # <<>> /\ n \in Nodes
      /\ queue[n] \in Seq(Tracks)
  BY CurrentTask DEF GoTo, TypeOK
<1>2. CASE i # None
  <2>2. ProjectionFrom(queue[n], i) \in ProjectionType
    BY <1>1, SuffixType
  <2> DEFINE t == [task[c] EXCEPT !.proj = ProjectionFrom(queue[n], i)]
  <2>3. t \in TaskType /\ t.todo # <<>>
    BY <1>1, <2>2, TaskUpdateType DEF TaskType
  <2>4. Advance(c, t) /\ index' = [index EXCEPT ![n] = i]
    BY <1>2 DEF GoTo
  <2>5. task' \in [Clients -> TaskType]
    BY <2>3, <2>4, AdvanceType DEF TypeOK
  <2> QED
    BY <1>1, <2>4, <2>5 DEF GoTo, TypeOK
<1>3. CASE i = None
  <2>1. task' \in [Clients -> TaskType]
    BY <1>3, AbortType DEF GoTo, TypeOK
  <2> QED
    BY <1>3, <2>1 DEF GoTo, TypeOK
<1> QED
  BY <1>2, <1>3

LEMMA RebuildType ==
  ASSUME TypeOK, NEW c \in Clients, Rebuild(c)
  PROVE  TypeOK'
<1> USE DEF nodeVars
<1> DEFINE n == task[c].out
           g == transport[n].gen + 1
           t == [task[c] EXCEPT !.gen = g]
<1>1. /\ task[c] \in TaskType /\ task[c].todo # <<>> /\ n \in Nodes
      /\ task[c].proj \in ProjectionType
  BY CurrentTask DEF Rebuild
<1>2. g \in Nat
  <2>1. transport[n] \in [gen : Nat, start : Index, loaded : Nat]
    BY <1>1 DEF TypeOK
  <2> QED
    BY <2>1
<1>3. t \in TaskType /\ t.todo # <<>>
  BY <1>1, <1>2, TaskUpdateType DEF TaskType
<1>4. Advance(c, t)
  BY DEF Rebuild
<1>5. task' \in [Clients -> TaskType]
  BY <1>3, <1>4, AdvanceType DEF TypeOK
<1>6. transport' \in [Nodes -> [gen : Nat, start : Index, loaded : Nat]]
  BY <1>1, <1>2 DEF Rebuild, TypeOK, ProjectionType
<1> QED
  BY <1>5, <1>6 DEF Rebuild, TypeOK

LEMMA ReadOutputsType ==
  ASSUME TypeOK, NEW c \in Clients, ReadOutputs(c)
  PROVE  TypeOK'
<1> DEFINE t == [task[c] EXCEPT !.out = selected]
<1>1. t \in TaskType /\ t.todo # <<>>
  <2>1. task[c] \in TaskType /\ task[c].todo # <<>>
    BY CurrentTask DEF ReadOutputs
  <2>2. selected \in Nodes
    BY DEF TypeOK
  <2>3. t \in TaskType
    BY <2>1, <2>2, TaskUpdateType
  <2>4. t.todo = task[c].todo
    BY <2>1 DEF TaskType
  <2> QED
    BY <2>1, <2>3, <2>4
<1>2. Advance(c, t)
  BY DEF ReadOutputs
<1>3. task' \in [Clients -> TaskType]
  BY <1>1, <1>2, AdvanceType DEF TypeOK
<1> QED
  BY <1>3 DEF ReadOutputs, TypeOK, coreVars, nodeVars

LEMMA SendType ==
  ASSUME TypeOK, NEW c \in Clients, Send(c)
  PROVE  TypeOK'
<1> DEFINE n == task[c].out
<1>1. PICK type \in CommandTypes : At(c, type)
  BY DEF Send, Sending
<1>2. /\ task[c] \in TaskType /\ task[c].todo # <<>> /\ Head(task[c].todo) = type
      /\ n \in Nodes /\ task[c].gen \in Nat
      /\ task[c].tracks \in Seq(Tracks) /\ task[c].proj \in ProjectionType
      /\ task[c].pos \in Nat /\ task[c].to \in Nat
  BY <1>1, CurrentTask
<1>3. task[c].proj.paths \in Seq(Tracks)
  BY <1>2 DEF ProjectionType
<1>4. CommandOf(task[c]) \in Command
  <2>1. CASE type = "set_queue"
    BY <1>2, <1>3, <2>1 DEF CommandOf, Command
  <2>2. CASE type = "add"
    BY <1>2, <2>2 DEF CommandOf, Command
  <2>3. CASE type = "remove"
    BY <1>2, <2>3 DEF CommandOf, Command
  <2>4. CASE type = "move_track"
    BY <1>2, <2>4 DEF CommandOf, Command
  <2>5. CASE type \in {"play", "stop"}
    BY <1>2, <2>5 DEF CommandOf, Command
  <2> QED
    BY <2>1, <2>2, <2>3, <2>4, <2>5 DEF CommandTypes
<1>5. channel' \in [Nodes -> Seq(Command)]
  <2>1. channel[n] \in Seq(Command)
    BY <1>2 DEF TypeOK
  <2>2. Append(channel[n], CommandOf(task[c])) \in Seq(Command)
    BY <1>4, <2>1, AppendProperties
  <2> QED
    BY <2>2 DEF Send, TypeOK
<1>6. task' \in [Clients -> TaskType]
  BY <1>2, AdvanceType DEF Send, TypeOK
<1> QED
  BY <1>5, <1>6 DEF Send, TypeOK, coreVars, nodeVars

LEMMA SendTimeoutType ==
  ASSUME TypeOK, NEW c \in Clients, SendTimeout(c)
  PROVE  TypeOK'
<1>1. task' \in [Clients -> TaskType]
  BY AbortType DEF SendTimeout, TypeOK
<1> QED
  BY <1>1 DEF SendTimeout, TypeOK, coreVars, nodeVars

\* The steps that write a queue, an index or a transport entry.
LEMMA WriteType ==
  ASSUME TypeOK, NEW c \in Clients,
         Push(c) \/ Extend(c) \/ Shrink(c) \/ Wipe(c) \/ Replace(c) \/ StartIndex(c)
  PROVE  TypeOK'
<1> USE DEF nodeVars
<1> DEFINE n == task[c].node
           o == task[c].out
<1>1. /\ task[c] \in TaskType /\ task[c].todo # <<>>
      /\ n \in Nodes /\ o \in Nodes
      /\ task[c].tracks \in Seq(Tracks) /\ task[c].pos \in Nat
  BY CurrentTask DEF Push, Extend, Shrink, Wipe, Replace, StartIndex
<1>2. task' \in [Clients -> TaskType]
  <2>1. Advance(c, task[c])
    BY DEF Push, Extend, Shrink, Wipe, Replace, StartIndex
  <2> QED
    BY <1>1, <2>1, AdvanceType DEF TypeOK
<1>3. /\ queue[n] \in Seq(Tracks)
      /\ index[n] \in Index
      /\ transport[o] \in [gen : Nat, start : Index, loaded : Nat]
  BY <1>1 DEF TypeOK
<1>4. CASE Push(c)
  <2>1. queue[n] \o task[c].tracks \in Seq(Tracks)
    BY <1>1, <1>3, ConcatProperties
  <2> QED
    BY <1>2, <1>4, <2>1 DEF Push, TypeOK
<1>5. CASE Extend(c)
  <2>1. transport[o].loaded + Len(task[c].tracks) \in Nat
    BY <1>1, <1>3
  <2>2. transport' \in [Nodes -> [gen : Nat, start : Index, loaded : Nat]]
    BY <1>3, <1>5, <2>1 DEF Extend, TypeOK
  <2> QED
    BY <1>2, <1>5, <2>2 DEF Extend, TypeOK
<1>6. CASE Shrink(c)
  <2> DEFINE l == SaturatingSub(transport[o].loaded, 1)
  <2>1. l \in Nat
    BY <1>3 DEF SaturatingSub
  <2>2. transport' \in [Nodes -> [gen : Nat, start : Index, loaded : Nat]]
    BY <1>3, <1>6, <2>1 DEF Shrink, TypeOK, Index
  <2> QED
    BY <1>2, <1>6, <2>2 DEF Shrink, TypeOK
<1>7. CASE Wipe(c)
  <2>1. <<>> \in Seq(Tracks) /\ None \in Index
    BY DEF Index
  <2> QED
    BY <1>2, <1>7, <2>1 DEF Wipe, TypeOK
<1>8. CASE Replace(c)
  BY <1>1, <1>2, <1>8 DEF Replace, TypeOK, Index
<1>9. CASE StartIndex(c)
  BY <1>1, <1>2, <1>3, <1>9 DEF StartIndex, TypeOK, Index
<1> QED
  BY <1>4, <1>5, <1>6, <1>7, <1>8, <1>9

LEMMA LoadType ==
  ASSUME TypeOK, NEW c \in Clients, Load(c)
  PROVE  TypeOK'
<1> DEFINE n == task[c].node
           r == [ProjectionFrom(queue[n], index[n]) EXCEPT !.loaded = Len(queue[n])]
           t == [task[c] EXCEPT !.out = n, !.proj = r]
<1>1. task[c] \in TaskType /\ task[c].todo # <<>> /\ n \in Nodes
  BY CurrentTask DEF Load
<1>2. queue[n] \in Seq(Tracks) /\ index[n] \in Index
  BY <1>1 DEF TypeOK
<1>3. r \in ProjectionType
  <2>1. ProjectionFrom(queue[n], index[n]) \in ProjectionType
    BY <1>2, SuffixType
  <2>2. Len(queue[n]) \in Nat
    BY <1>2
  <2> QED
    BY <2>1, <2>2 DEF ProjectionType
<1>4. t \in TaskType /\ t.todo # <<>>
  BY <1>1, <1>3, TaskUpdateType DEF TaskType
<1>5. Advance(c, t)
  BY DEF Load
<1>6. task' \in [Clients -> TaskType]
  BY <1>4, <1>5, AdvanceType DEF TypeOK
<1> QED
  BY <1>6 DEF Load, TypeOK, coreVars, nodeVars

LEMMA TaskStepType ==
  ASSUME TypeOK, NEW c \in Clients, TaskStep(c)
  PROVE  TypeOK'
<1>1. CASE GoToTarget(c)
  BY <1>1, GoToTargets, GoToType
<1> QED
  BY <1>1, RebuildType, ReadOutputsType, SendType, SendTimeoutType, WriteType, LoadType
     DEF TaskStep

-----------------------------------------------------------------------------
(* Type correctness: the node and its updates.                             *)

LEMMA MpdAfterType ==
  ASSUME NEW m \in MpdType, NEW cmd \in Command
  PROVE  MpdAfter(m, cmd) \in MpdType
<1>1. m.queue \in Seq(Tracks) /\ m.song \in Index
  BY DEF MpdType
<1>2. CASE cmd.type = "set_queue"
  BY <1>1, <1>2 DEF MpdAfter, Command, MpdType, Index
<1>3. CASE cmd.type = "add"
  <2>1. cmd.paths \in Seq(Tracks)
    BY <1>3 DEF Command
  <2>2. m.queue \o cmd.paths \in Seq(Tracks)
    BY <1>1, <2>1, ConcatProperties
  <2> QED
    BY <1>1, <1>3, <2>2 DEF MpdAfter, MpdType
<1>4. CASE cmd.type = "play"
  BY <1>1, <1>4 DEF MpdAfter, MpdType, Index
<1>5. CASE cmd.type = "remove"
  <2> DEFINE i == cmd.pos
  <2>1. i \in Nat
    BY <1>5 DEF Command
  <2>2. CASE i \notin Positions(m.queue)
    BY <1>5, <2>2 DEF MpdAfter, MpdDelete
  <2>3. CASE i \in Positions(m.queue)
    <3>1. Removed(m.queue, i) \in Seq(Tracks)
      BY <1>1, <2>3, RemovedProperties
    <3>2. (IF m.song # i THEN IndexAfterRemove(m.song, i, m.queue)
           ELSE IF i + 1 < Len(m.queue) THEN i ELSE None) \in Index
      BY <1>1, <2>1 DEF IndexAfterRemove, Index, None
    <3>3. MpdDelete(m, i) \in MpdType
      BY <1>1, <2>3, <3>1, <3>2 DEF MpdDelete, MpdType
    <3> QED
      BY <1>5, <3>3 DEF MpdAfter
  <2> QED
    BY <2>2, <2>3
<1>6. CASE cmd.type = "move_track"
  <2> DEFINE i == cmd.pos
             j == cmd.to
  <2>1. i \in Nat /\ j \in Nat
    BY <1>6 DEF Command
  <2>2. CASE ~({i, j} \subseteq Positions(m.queue))
    BY <1>6, <2>2 DEF MpdAfter, MpdMove
  <2>3. CASE {i, j} \subseteq Positions(m.queue)
    <3>1. Moved(m.queue, i, j) \in Seq(Tracks)
      BY <1>1, <2>3, MovedProperties
    <3>2. IndexAfterMove(m.song, i, j) \in Index
      BY <1>1, <2>1 DEF IndexAfterMove, Index, None
    <3>3. MpdMove(m, i, j) \in MpdType
      BY <1>1, <2>3, <3>1, <3>2 DEF MpdMove, MpdType
    <3> QED
      BY <1>6, <3>3 DEF MpdAfter
  <2> QED
    BY <2>2, <2>3
<1>7. CASE cmd.type = "stop"
  BY <1>7 DEF MpdAfter
<1> QED
  BY <1>2, <1>3, <1>4, <1>5, <1>6, <1>7 DEF Command

\* A command list that failed half-way leaves an MPD as another list could.
LEMMA MpdAfterFailureType ==
  ASSUME NEW m \in MpdType, NEW cmd \in Command
  PROVE  MpdAfterFailure(m, cmd) \subseteq MpdType
<1>1. CASE cmd.type \in {"set_queue", "add"}
  <2> DEFINE part(k) == [cmd EXCEPT !.paths = SubSeq(cmd.paths, 1, k)]
  <2>1. cmd.paths \in Seq(Tracks)
    BY <1>1 DEF Command
  <2>2. ASSUME NEW k \in 0 .. Len(cmd.paths)
        PROVE  MpdAfter(m, part(k)) \in MpdType
    <3>1. SubSeq(cmd.paths, 1, k) \in Seq(Tracks)
      BY <2>1, SubSeqProperties
    <3>2. part(k) \in Command
      <4>1. CASE cmd.type = "set_queue"
        <5>1. cmd \in [type : {"set_queue"}, paths : Seq(Tracks), gen : Nat]
          BY <4>1 DEF Command
        <5>2. part(k) \in [type : {"set_queue"}, paths : Seq(Tracks), gen : Nat]
          BY <3>1, <5>1
        <5> QED
          BY <5>2 DEF Command
      <4>2. CASE cmd.type = "add"
        <5>1. cmd \in [type : {"add"}, paths : Seq(Tracks)]
          BY <4>2 DEF Command
        <5>2. part(k) \in [type : {"add"}, paths : Seq(Tracks)]
          BY <3>1, <5>1
        <5> QED
          BY <5>2 DEF Command
      <4> QED
        BY <1>1, <4>1, <4>2
    <3> QED
      BY <3>2, MpdAfterType
  <2>3. MpdAfterFailure(m, cmd) = {m} \cup {MpdAfter(m, part(k)) : k \in 0 .. Len(cmd.paths)}
    BY <1>1 DEF MpdAfterFailure
  <2> HIDE DEF part
  <2> QED
    BY <2>2, <2>3
<1>2. CASE cmd.type \notin {"set_queue", "add"}
  <2>1. MpdAfterFailure(m, cmd) = {m, MpdAfter(m, cmd)}
    BY <1>2 DEF MpdAfterFailure
  <2> QED
    BY <2>1, MpdAfterType
<1> QED
  BY <1>1, <1>2

LEMMA NodeStepType ==
  ASSUME TypeOK, NEW n \in Nodes, NodeStep(n)
  PROVE  TypeOK'
<1> USE DEF coreVars, nodeVars
<1>1. CASE ExecuteCommand(n)
  <2> DEFINE cmd == Head(channel[n])
  <2>1. channel[n] \in Seq(Command) /\ channel[n] # <<>> /\ mpd[n] \in MpdType
    BY <1>1 DEF ExecuteCommand, TypeOK
  <2>2. cmd \in Command /\ Tail(channel[n]) \in Seq(Command)
    BY <2>1, HeadTailProperties
  <2>3. MpdAfter(mpd[n], cmd) \in MpdType
    BY <2>1, <2>2, MpdAfterType
  <2>4. (IF cmd.type = "set_queue" THEN cmd.gen ELSE None) \in Index
    BY <2>2 DEF Command, Index
  <2> HIDE DEF cmd
  <2>5. /\ mpd' = [mpd EXCEPT ![n] = MpdAfter(mpd[n], cmd)]
        /\ storing' = [storing EXCEPT ![n] = IF cmd.type = "set_queue" THEN cmd.gen ELSE None]
        /\ channel' = [channel EXCEPT ![n] = Tail(channel[n])]
    BY <1>1 DEF ExecuteCommand, cmd
  <2>6. /\ mpd' \in [Nodes -> MpdType]
        /\ storing' \in [Nodes -> Index]
        /\ channel' \in [Nodes -> Seq(Command)]
    BY <2>2, <2>3, <2>4, <2>5 DEF TypeOK
  <2> QED
    BY <1>1, <2>6 DEF ExecuteCommand, TypeOK
<1>2. CASE StoreGeneration(n)
  <2>1. storing[n] \in Nat
    BY <1>2 DEF StoreGeneration, TypeOK, Index
  <2> QED
    BY <1>2, <2>1 DEF StoreGeneration, TypeOK, Index
<1>3. CASE CommandFails(n)
  <2>1. Tail(channel[n]) \in Seq(Command) /\ Head(channel[n]) \in Command
    BY <1>3, HeadTailProperties DEF CommandFails, TypeOK
  <2>2. MpdAfterFailure(mpd[n], Head(channel[n])) \subseteq MpdType
    BY <2>1, MpdAfterFailureType DEF TypeOK
  <2>3. mpd' \in [Nodes -> MpdType]
    BY <1>3, <2>2 DEF CommandFails, TypeOK
  <2> QED
    BY <1>3, <2>1, <2>3 DEF CommandFails, TypeOK
<1>4. CASE SongEnds(n)
  <2>1. mpd[n] \in MpdType /\ mpd[n].song \in Nat
    BY <1>4 DEF SongEnds, TypeOK, MpdType, Index
  <2>2. [mpd[n] EXCEPT !.song = IF @ + 1 < Len(mpd[n].queue) THEN @ + 1 ELSE None] \in MpdType
    BY <2>1 DEF MpdType, Index
  <2> QED
    BY <1>4, <2>2 DEF SongEnds, TypeOK
<1>5. CASE PollStatus(n)
  <2>1. mpd[n].song \in Index
    BY DEF TypeOK, MpdType
  <2> QED
    BY <1>5, <2>1 DEF PollStatus, TypeOK
<1>6. CASE Report(n)
  <2> DEFINE u == [song |-> sample[n], gen |-> nodeGen[n]]
  <2>1. sample[n] \in Index /\ nodeGen[n] \in Nat
    BY <1>6 DEF Report, TypeOK
  <2>2. u \in UpdateType
    BY <2>1 DEF UpdateType
  <2>3. updates[n] \in Seq(UpdateType)
    BY DEF TypeOK
  <2>4. Append(updates[n], u) \in Seq(UpdateType)
    BY <2>2, <2>3, AppendProperties
  <2>5. updates' \in [Nodes -> Seq(UpdateType)]
    BY <1>6, <2>3, <2>4 DEF Report, TypeOK
  <2>6. sample' \in [Nodes -> Index \cup {NoSample}]
    BY <1>6 DEF Report, TypeOK
  <2> QED
    BY <1>6, <2>5, <2>6 DEF Report, TypeOK
<1>7. CASE ReceiveUpdate(n)
  <2>1. updates[n] \in Seq(UpdateType) /\ updates[n] # <<>>
    BY <1>7 DEF ReceiveUpdate, TypeOK
  <2>2. Tail(updates[n]) \in Seq(UpdateType) /\ Head(updates[n]) \in UpdateType
    BY <2>1, HeadTailProperties
  <2>3. transport[n] \in [gen : Nat, start : Index, loaded : Nat]
    BY DEF TypeOK
  <2>4. ProjectedIndex(transport[n], Head(updates[n])) \in Index
    <3>1. \A i, j \in Index : i # None /\ j # None => i + j \in Index
      BY DEF Index, None
    <3>2. Head(updates[n]).song \in Index /\ transport[n].start \in Index /\ None \in Index
      BY <2>2, <2>3 DEF UpdateType, Index
    <3> QED
      BY <3>1, <3>2 DEF ProjectedIndex
  <2> QED
    BY <1>7, <2>2, <2>4 DEF ReceiveUpdate, TypeOK
<1>8. CASE ApplyUpdate(n)
  <2>1. projected[n] \in Index
    BY <1>8 DEF ApplyUpdate, TypeOK
  <2> QED
    BY <1>8, <2>1 DEF ApplyUpdate, TypeOK
<1> QED
  BY <1>1, <1>2, <1>3, <1>4, <1>5, <1>6, <1>7, <1>8 DEF NodeStep

-----------------------------------------------------------------------------
LEMMA InitType ==
  ASSUME Init
  PROVE  TypeOK
<1>1. queue \in [Nodes -> Seq(Tracks)] /\ index \in [Nodes -> Index]
  BY QueuesAssumption DEF Init, Index
<1>2. \A n \in Nodes : Suffix(queue[n], index[n]) \in Seq(Tracks)
  BY <1>1, SuffixType
<1>3. transport \in [Nodes -> [gen : Nat, start : Index, loaded : Nat]]
  BY <1>1 DEF Init
<1>4. channel \in [Nodes -> Seq(Command)]
  <2>1. \A n \in Nodes : [type |-> "set_queue", gen |-> 1,
                          paths |-> Suffix(queue[n], index[n])] \in Command
    BY <1>2 DEF Command
  <2>2. \A n \in Nodes : <<[type |-> "set_queue", gen |-> 1,
                            paths |-> Suffix(queue[n], index[n])]>> \in Seq(Command)
    BY <2>1
  <2> QED
    BY <2>2 DEF Init
<1>5. task \in [Clients -> TaskType]
  BY TaskConstants DEF Init
<1>6. /\ mpd \in [Nodes -> MpdType]
      /\ updates \in [Nodes -> Seq(UpdateType)]
  BY EmptySeq DEF Init, EmptyMpd, MpdType, Index
<1> QED
  BY <1>1, <1>3, <1>4, <1>5, <1>6, BoundsAssumption DEF Init, TypeOK, RepeatModes, Index

LEMMA NextType ==
  ASSUME TypeOK, [Next]_vars
  PROVE  TypeOK'
<1>1. CASE Next
  BY <1>1, RequestType, TaskStepType, NodeStepType DEF Next
<1>2. CASE UNCHANGED vars
  BY <1>2 DEF vars, coreVars, nodeVars, TypeOK
<1> QED
  BY <1>1, <1>2

(* Every variable keeps its type, through every interleaving of the        *)
(* operations' lock sections, the node's commands and its reports.         *)
THEOREM TypeCorrect == Spec => []TypeOK
BY InitType, NextType, PTL DEF Spec

-----------------------------------------------------------------------------
(* An index that is a position of its queue stays one.  No invariant about *)
(* the tasks is needed: each write of an index looks at the queue it is    *)
(* for, except set_queue's, which stores the start it was sent.            *)

LEMMA RequestRange ==
  ASSUME TypeOK, NEW c \in Clients, Request(c),
         NEW m \in Nodes, ValidIndex(index[m], queue[m])
  PROVE  ValidIndex(index'[m], queue'[m])
<1> DEFINE q   == queue[selected]
           cur == index[selected]
<1>1. q \in Seq(Tracks) /\ cur \in Index /\ selected \in Nodes
  BY DEF TypeOK
<1>2. CASE UNCHANGED <<queue, index>>
  BY <1>2
<1>3. ASSUME NEW i \in Positions(q), RemoveFromQueue(c, i)
      PROVE  ValidIndex(index'[m], queue'[m])
  <2>1. /\ queue'[selected] = Removed(q, i)
        /\ index'[selected] = IndexAfterRemove(cur, i, q)
        /\ m # selected => queue'[m] = queue[m] /\ index'[m] = index[m]
    BY <1>1, <1>3 DEF RemoveFromQueue, TypeOK
  <2>2. m = selected => ValidIndex(IndexAfterRemove(cur, i, q), Removed(q, i))
    BY <1>1, IndexAfterRemoveProperties
  <2> QED
    BY <2>1, <2>2
<1>4. ASSUME NEW i \in Positions(q), NEW j \in Positions(q), MoveInQueue(c, i, j)
      PROVE  ValidIndex(index'[m], queue'[m])
  <2>1. /\ queue'[selected] = Moved(q, i, j)
        /\ index'[selected] = IndexAfterMove(cur, i, j)
        /\ m # selected => queue'[m] = queue[m] /\ index'[m] = index[m]
    BY <1>1, <1>4 DEF MoveInQueue, TypeOK
  <2>2. m = selected => ValidIndex(IndexAfterMove(cur, i, j), Moved(q, i, j))
    <3>1. Len(Moved(q, i, j)) = Len(q)
      BY <1>1, MovedProperties
    <3>2. CASE cur = None
      BY <3>2 DEF IndexAfterMove, ValidIndex
    <3>3. CASE cur \in Positions(q)
      <4>1. IndexAfterMove(cur, i, j) \in Positions(q)
        BY <1>1, <3>3, MovedProperties
      <4> QED
        BY <3>1, <4>1 DEF ValidIndex, Positions
    <3> QED
      BY <3>2, <3>3 DEF ValidIndex
  <2> QED
    BY <2>1, <2>2
<1> QED
  BY <1>2, <1>3, <1>4 DEF Request, PlayIndex, Skip, Play, ClearQueue, AddToQueue, SetQueue,
     SetRepeat, SelectNode, coreVars

LEMMA TaskStepRange ==
  ASSUME TypeOK, NEW c \in Clients, TaskStep(c), NEW m \in Nodes,
         ValidIndex(index[m], queue[m]), ~(task[c].node = m /\ StoresBadStart(c))
  PROVE  ValidIndex(index'[m], queue'[m])
<1> DEFINE n == task[c].node
<1>1. CASE UNCHANGED <<queue, index>>
  BY <1>1
<1>2. ASSUME NEW step, At(c, step)
      PROVE  n \in Nodes /\ queue[n] \in Seq(Tracks) /\ task[c].tracks \in Seq(Tracks)
  BY <1>2, CurrentTask DEF TypeOK
<1>3. CASE GoToTarget(c)
  <2>1. PICK step \in {"go_to", "next", "previous"}, i \in Index :
           GoTo(c, step, i) /\ (ValidIndex(index[n], queue[n]) => ValidIndex(i, queue[n]))
    BY <1>3, GoToTargets
  <2>2. CASE i # None
    <3>1. queue' = queue /\ index' = [index EXCEPT ![n] = i] /\ n \in Nodes
      BY <1>2, <2>1, <2>2 DEF GoTo
    <3>2. index'[n] = i /\ (m # n => index'[m] = index[m])
      BY <3>1 DEF TypeOK
    <3> QED
      BY <2>1, <3>1, <3>2
  <2>3. CASE i = None
    BY <1>1, <2>1, <2>3 DEF GoTo
  <2> QED
    BY <2>2, <2>3
<1>4. CASE Push(c)
  <2>1. n \in Nodes /\ queue[n] \in Seq(Tracks) /\ task[c].tracks \in Seq(Tracks)
    BY <1>2, <1>4 DEF Push
  <2>2. \A q, r \in Seq(Tracks) : \A i : ValidIndex(i, q) => ValidIndex(i, q \o r)
    <3> SUFFICES ASSUME NEW q \in Seq(Tracks), NEW r \in Seq(Tracks), NEW i, ValidIndex(i, q)
                 PROVE  ValidIndex(i, q \o r)
      OBVIOUS
    <3>1. Len(q) \in Nat /\ Len(r) \in Nat /\ Len(q \o r) = Len(q) + Len(r)
      BY ConcatProperties
    <3> QED
      BY <3>1 DEF ValidIndex, Positions
  <2>3. /\ queue'[n] = queue[n] \o task[c].tracks /\ index' = index
        /\ m # n => queue'[m] = queue[m]
    BY <1>4, <2>1 DEF Push, TypeOK
  <2>4. m = n => ValidIndex(index[n], queue[n] \o task[c].tracks)
    BY <2>1, <2>2
  <2> QED
    BY <2>3, <2>4
<1>5. CASE Wipe(c)
  <2>1. /\ index'[selected] = None
        /\ m # selected => queue'[m] = queue[m] /\ index'[m] = index[m]
    BY <1>5 DEF Wipe, TypeOK
  <2> QED
    BY <2>1 DEF ValidIndex
<1>6. CASE Replace(c)
  <2>1. /\ queue'[n] = task[c].tracks /\ index'[n] = task[c].pos
        /\ m # n => queue'[m] = queue[m] /\ index'[m] = index[m]
    BY <1>2, <1>6 DEF Replace, TypeOK
  <2>2. m = n => task[c].pos \in Positions(task[c].tracks)
    BY <1>6 DEF StoresBadStart
  <2> QED
    BY <2>1, <2>2 DEF ValidIndex
<1>7. CASE StartIndex(c)
  <2>1. n \in Nodes /\ queue[n] \in Seq(Tracks)
    BY <1>2, <1>7 DEF StartIndex
  <2>2. /\ queue' = queue
        /\ index'[n] = IF index[n] = None /\ queue[n] # <<>> THEN 0 ELSE index[n]
        /\ m # n => index'[m] = index[m]
    BY <1>7, <2>1 DEF StartIndex, TypeOK
  <2>3. queue[n] # <<>> => 0 \in Positions(queue[n])
    BY <2>1 DEF Positions
  <2> QED
    BY <2>2, <2>3 DEF ValidIndex
<1> QED
  BY <1>1, <1>3, <1>4, <1>5, <1>6, <1>7
     DEF TaskStep, Rebuild, ReadOutputs, Send, SendTimeout, Extend, Shrink, Load, coreVars

LEMMA NodeStepRange ==
  ASSUME TypeOK, NEW n \in Nodes, NodeStep(n), NEW m \in Nodes, ValidIndex(index[m], queue[m])
  PROVE  ValidIndex(index'[m], queue'[m])
<1>1. CASE ApplyUpdate(n)
  <2>1. /\ queue' = queue
        /\ index'[n] \in Positions(queue[n]) \/ index'[n] = index[n]
        /\ m # n => index'[m] = index[m]
    BY <1>1 DEF ApplyUpdate, TypeOK
  <2> QED
    BY <2>1 DEF ValidIndex
<1>2. CASE ~ApplyUpdate(n)
  BY <1>2 DEF NodeStep, ExecuteCommand, StoreGeneration, CommandFails, SongEnds,
              PollStatus, Report, ReceiveUpdate, coreVars
<1> QED
  BY <1>1, <1>2

(* An index that is a position of its queue stays one at every step of     *)
(* every interleaving, unless set_queue stores a start outside its list.   *)
THEOREM IndexAlwaysStays == Spec => IndexStaysInRange
<1> DEFINE A(n) == ValidIndex(index[n], queue[n]) =>
                      \/ ValidIndex(index'[n], queue'[n])
                      \/ \E c \in Clients : task[c].node = n /\ StoresBadStart(c)
<1>1. TypeOK /\ [Next]_vars => [\A n \in Nodes : A(n)]_vars
  <2> SUFFICES ASSUME TypeOK, Next, NEW m \in Nodes, ValidIndex(index[m], queue[m]),
                      \A c \in Clients : ~(task[c].node = m /\ StoresBadStart(c))
               PROVE  ValidIndex(index'[m], queue'[m])
    OBVIOUS
  <2>1. CASE \E c \in Clients : Request(c) \/ TaskStep(c)
    BY <2>1, RequestRange, TaskStepRange
  <2>2. CASE \E n \in Nodes : NodeStep(n)
    BY <2>2, NodeStepRange
  <2> QED
    BY <2>1, <2>2 DEF Next
<1> QED
  BY <1>1, InitType, NextType, PTL DEF Spec, IndexStaysInRange

(* Removing another track of the queue, or moving any, does not change the *)
(* current track: remove_from_queue and move_in_queue adjust the index.    *)
THEOREM EditsKeepCurrent == Spec => EditsKeepCurrentTrack
<1> DEFINE A(c) == LET cur == index[selected] IN
          /\ cur \in Positions(queue[selected])
          /\ \/ \E i \in Positions(queue[selected]) \ {cur} : RemoveFromQueue(c, i)
             \/ \E i, j \in Positions(queue[selected]) : MoveInQueue(c, i, j)
          => TrackAt(queue'[selected], index'[selected]) = TrackAt(queue[selected], cur)
<1>1. TypeOK => \A c \in Clients : A(c)
  <2> DEFINE q   == queue[selected]
             cur == index[selected]
  <2> SUFFICES ASSUME TypeOK, NEW c \in Clients, cur \in Positions(q),
                      \/ \E i \in Positions(q) \ {cur} : RemoveFromQueue(c, i)
                      \/ \E i, j \in Positions(q) : MoveInQueue(c, i, j)
               PROVE  TrackAt(queue'[selected], index'[selected]) = TrackAt(q, cur)
    OBVIOUS
  <2>1. q \in Seq(Tracks) /\ selected \in Nodes /\ ValidIndex(cur, q) /\ cur # None
    BY DEF TypeOK, ValidIndex, Positions, None
  <2>2. ASSUME NEW i \in Positions(q) \ {cur}, RemoveFromQueue(c, i)
        PROVE  TrackAt(queue'[selected], index'[selected]) = TrackAt(q, cur)
    <3>1. queue'[selected] = Removed(q, i) /\ index'[selected] = IndexAfterRemove(cur, i, q)
      BY <2>1, <2>2 DEF RemoveFromQueue, TypeOK
    <3> QED
      BY <2>1, <3>1, IndexAfterRemoveProperties
  <2>3. ASSUME NEW i \in Positions(q), NEW j \in Positions(q), MoveInQueue(c, i, j)
        PROVE  TrackAt(queue'[selected], index'[selected]) = TrackAt(q, cur)
    <3>1. queue'[selected] = Moved(q, i, j) /\ index'[selected] = IndexAfterMove(cur, i, j)
      BY <2>1, <2>3 DEF MoveInQueue, TypeOK
    <3> QED
      BY <2>1, <3>1, MovedProperties
  <2> QED
    BY <2>2, <2>3
<1>2. TypeOK /\ [Next]_vars => [\A c \in Clients : A(c)]_vars
  BY <1>1
<1> QED
  BY <1>2, InitType, NextType, PTL DEF Spec, EditsKeepCurrentTrack

-----------------------------------------------------------------------------
(* With starts that fit their lists every index is a position of its queue *)
(* at every moment.  This is not inductive by itself: set_queue writes the *)
(* index it was called with several steps later, so the task must still    *)
(* hold a position of the list it is going to store.                       *)

StartsFit == \A q \in InitialQueues : Starts \subseteq Positions(q)

IndexInRange == \A n \in Nodes : ValidIndex(index[n], queue[n])

WillReplace(t) == \E k \in DOMAIN t.todo : t.todo[k] = "replace"

ReplaceInRange(t) == WillReplace(t) => t.pos \in Positions(t.tracks)

IndexInv == /\ TypeOK
            /\ IndexInRange
            /\ \A c \in Clients : ReplaceInRange(task[c])

LEMMA NoTaskReplace == ReplaceInRange(NoTask)
BY DEF ReplaceInRange, WillReplace, NoTask

\* A step of a task that keeps tracks, pos and what is left to do.
LEMMA AdvanceReplace ==
  ASSUME task \in [Clients -> TaskType], \A d \in Clients : ReplaceInRange(task[d]),
         NEW c \in Clients, NEW t \in TaskType, Advance(c, t),
         t.todo # <<>>, t.todo = task[c].todo, t.pos = task[c].pos, t.tracks = task[c].tracks
  PROVE  \A d \in Clients : ReplaceInRange(task[d])'
<1> DEFINE u == [t EXCEPT !.todo = Tail(@)]
<1>1. t.todo \in Seq(Steps)
  BY DEF TaskType
<1>2. u.todo = Tail(t.todo) /\ u.pos = t.pos /\ u.tracks = t.tracks
  BY DEF TaskType
<1>3. WillReplace(u) => WillReplace(task[c])
  <2> SUFFICES ASSUME NEW k \in DOMAIN Tail(t.todo), Tail(t.todo)[k] = "replace"
               PROVE  \E m \in DOMAIN t.todo : t.todo[m] = "replace"
    BY <1>2 DEF WillReplace
  <2>1. k + 1 \in DOMAIN t.todo /\ Tail(t.todo)[k] = t.todo[k + 1]
    BY <1>1
  <2> QED
    BY <2>1
<1>4. ReplaceInRange(u)
  BY <1>2, <1>3 DEF ReplaceInRange
<1>5. task'[c] \in {u, NoTask} /\ \A d \in Clients \ {c} : task'[d] = task[d]
  BY DEF Advance
<1> QED
  BY <1>4, <1>5, NoTaskReplace DEF ReplaceInRange, WillReplace

LEMMA BeginReplace ==
  ASSUME task \in [Clients -> TaskType], \A d \in Clients : ReplaceInRange(task[d]),
         NEW c \in Clients, NEW op, NEW t, Begin(c, op, t), ReplaceInRange(t)
  PROVE  \A d \in Clients : ReplaceInRange(task[d])'
<1>1. task'[c] = t /\ \A d \in Clients \ {c} : task'[d] = task[d]
  BY DEF Begin
<1> QED
  BY <1>1 DEF ReplaceInRange, WillReplace

LEMMA TaskStepReplace ==
  ASSUME IndexInv, NEW c \in Clients, TaskStep(c)
  PROVE  \A d \in Clients : ReplaceInRange(task[d])'
<1>1. CASE Abort(c)
  BY <1>1, NoTaskReplace DEF Abort, IndexInv, TypeOK, ReplaceInRange, WillReplace
<1>2. ASSUME NEW step, At(c, step)
      PROVE  task[c] \in TaskType /\ task[c].todo # <<>>
  BY <1>2, CurrentTask DEF IndexInv
<1>3. ASSUME NEW t \in TaskType, Advance(c, t), task[c].todo # <<>>,
             t.todo = task[c].todo, t.pos = task[c].pos, t.tracks = task[c].tracks
      PROVE  \A d \in Clients : ReplaceInRange(task[d])'
  BY <1>3, AdvanceReplace DEF IndexInv, TypeOK
<1>4. CASE GoToTarget(c)
  <2> DEFINE n == task[c].node
  <2>1. PICK step \in {"go_to", "next", "previous"}, i \in Index : GoTo(c, step, i)
    BY <1>4, GoToTargets DEF IndexInv
  <2>2. task[c] \in TaskType /\ task[c].todo # <<>>
    BY <1>2, <2>1 DEF GoTo
  <2>3. CASE i # None
    <3> DEFINE t == [task[c] EXCEPT !.proj = ProjectionFrom(queue[n], i)]
    <3>1. n \in Nodes /\ queue[n] \in Seq(Tracks)
      BY <2>2 DEF IndexInv, TypeOK, TaskType
    <3>2. ProjectionFrom(queue[n], i) \in ProjectionType
      BY <3>1, SuffixType
    <3>3. t \in TaskType
      BY <2>2, <3>2, TaskUpdateType
    <3>4. t.todo = task[c].todo /\ t.pos = task[c].pos /\ t.tracks = task[c].tracks
      BY <2>2 DEF TaskType
    <3>5. Advance(c, t)
      BY <2>1, <2>3 DEF GoTo
    <3> QED
      BY <1>3, <2>2, <3>3, <3>4, <3>5
  <2>4. CASE i = None
    BY <1>1, <2>1, <2>4 DEF GoTo
  <2> QED
    BY <2>3, <2>4
<1>5. CASE Rebuild(c)
  <2> DEFINE g == transport[task[c].out].gen + 1
             t == [task[c] EXCEPT !.gen = g]
  <2>1. task[c] \in TaskType /\ task[c].todo # <<>>
    BY <1>2, <1>5 DEF Rebuild
  <2>2. transport[task[c].out] \in [gen : Nat, start : Index, loaded : Nat]
    BY <2>1 DEF IndexInv, TypeOK, TaskType
  <2>3. g \in Nat
    BY <2>2
  <2>4. t \in TaskType
    BY <2>1, <2>3, TaskUpdateType
  <2>5. t.todo = task[c].todo /\ t.pos = task[c].pos /\ t.tracks = task[c].tracks
    BY <2>1 DEF TaskType
  <2>6. Advance(c, t)
    BY <1>5 DEF Rebuild
  <2> QED
    BY <1>3, <2>1, <2>4, <2>5, <2>6
<1>6. CASE ReadOutputs(c)
  <2> DEFINE t == [task[c] EXCEPT !.out = selected]
  <2>1. task[c] \in TaskType /\ task[c].todo # <<>>
    BY <1>2, <1>6 DEF ReadOutputs
  <2>2. t \in TaskType
    BY <2>1, TaskUpdateType DEF IndexInv, TypeOK
  <2>3. t.todo = task[c].todo /\ t.pos = task[c].pos /\ t.tracks = task[c].tracks
    BY <2>1 DEF TaskType
  <2>4. Advance(c, t)
    BY <1>6 DEF ReadOutputs
  <2> QED
    BY <1>3, <2>1, <2>2, <2>3, <2>4
<1>7. CASE Send(c) \/ Push(c) \/ Extend(c) \/ Shrink(c) \/ Wipe(c) \/ Replace(c) \/ StartIndex(c)
  <2>1. Advance(c, task[c])
    BY <1>7 DEF Send, Push, Extend, Shrink, Wipe, Replace, StartIndex
  <2>2. task[c] \in TaskType /\ task[c].todo # <<>>
    BY <1>2, <1>7 DEF Send, Sending, Push, Extend, Shrink, Wipe, Replace, StartIndex
  <2> QED
    BY <1>3, <2>1, <2>2
<1>8. CASE SendTimeout(c)
  BY <1>1, <1>8 DEF SendTimeout
<1>9. CASE Load(c)
  <2> DEFINE n == task[c].node
             r == [ProjectionFrom(queue[n], index[n]) EXCEPT !.loaded = Len(queue[n])]
             t == [task[c] EXCEPT !.out = n, !.proj = r]
  <2>1. task[c] \in TaskType /\ task[c].todo # <<>>
    BY <1>2, <1>9 DEF Load
  <2>2. n \in Nodes /\ queue[n] \in Seq(Tracks) /\ index[n] \in Index
    BY <2>1 DEF IndexInv, TypeOK, TaskType
  <2>3. r \in ProjectionType
    <3>1. ProjectionFrom(queue[n], index[n]) \in ProjectionType
      BY <2>2, SuffixType
    <3>2. Len(queue[n]) \in Nat
      BY <2>2
    <3> QED
      BY <3>1, <3>2 DEF ProjectionType
  <2> HIDE DEF r
  <2>4. t \in TaskType
    BY <2>1, <2>2, <2>3, TaskUpdateType
  <2>5. t.todo = task[c].todo /\ t.pos = task[c].pos /\ t.tracks = task[c].tracks
    BY <2>1 DEF TaskType
  <2>6. Advance(c, t)
    BY <1>9 DEF Load, r
  <2> QED
    BY <1>3, <2>1, <2>4, <2>5, <2>6
<1> QED
  BY <1>4, <1>5, <1>6, <1>7, <1>8, <1>9 DEF TaskStep

\* Only set_queue starts a task that will replace a queue.
LEMMA RequestReplace ==
  ASSUME StartsFit, IndexInv, NEW c \in Clients, Request(c)
  PROVE  \A d \in Clients : ReplaceInRange(task[d])'
<1> USE DEF coreVars, nodeVars
<1>1. ASSUME NEW op, NEW t, Begin(c, op, t), ReplaceInRange(t)
      PROVE  \A d \in Clients : ReplaceInRange(task[d])'
  BY <1>1, BeginReplace DEF IndexInv, TypeOK
<1>4. ASSUME NEW i \in Positions(queue[selected]), PlayIndex(c, i)
      PROVE  \A d \in Clients : ReplaceInRange(task[d])'
  <2> DEFINE t == [TaskOnSelected(<<"go_to">> \o playSteps) EXCEPT !.pos = i]
  <2>1. ReplaceInRange(t)
    BY DEF ReplaceInRange, WillReplace, TaskOnSelected, NoTask, playSteps
  <2> QED
    BY <1>1, <1>4, <2>1 DEF PlayIndex
<1>5. ASSUME NEW step \in {"next", "previous"}, Skip(c, step)
      PROVE  \A d \in Clients : ReplaceInRange(task[d])'
  <2>1. ReplaceInRange(TaskOnSelected(<<step>> \o playSteps))
    BY DEF ReplaceInRange, WillReplace, TaskOnSelected, NoTask, playSteps
  <2> QED
    BY <1>1, <1>5, <2>1 DEF Skip
<1>6. CASE Play(c)
  <2>1. ReplaceInRange(TaskOnSelected(<<"play", "start">>))
    BY DEF ReplaceInRange, WillReplace, TaskOnSelected, NoTask
  <2> QED
    BY <1>1, <1>6, <2>1 DEF Play
<1>7. CASE ClearQueue(c)
  <2>1. ReplaceInRange(TaskOnSelected(<<"rebuild", "set_queue", "wipe">>))
    BY DEF ReplaceInRange, WillReplace, TaskOnSelected, NoTask
  <2> QED
    BY <1>1, <1>7, <2>1 DEF ClearQueue
<1>8. ASSUME NEW tr \in Tracks, AddToQueue(c, tr)
      PROVE  \A d \in Clients : ReplaceInRange(task[d])'
  <2> DEFINE t == [TaskOnSelected(<<"push", "outputs", "add", "outputs", "extend">>)
                      EXCEPT !.tracks = <<tr>>]
  <2>1. ReplaceInRange(t)
    BY DEF ReplaceInRange, WillReplace, TaskOnSelected, NoTask
  <2> QED
    BY <1>1, <1>8, <2>1 DEF AddToQueue
<1>9. ASSUME NEW q \in InitialQueues, NEW i \in Starts, SetQueue(c, q, i)
      PROVE  \A d \in Clients : ReplaceInRange(task[d])'
  <2> DEFINE t == [TaskOnSelected(<<"outputs", "rebuild", "set_queue", "replace",
                                    "outputs", "play">>)
                      EXCEPT !.tracks = q, !.pos = i, !.proj = ProjectionAt(q, i)]
  <2>1. t.pos = i /\ t.tracks = q
    BY DEF TaskOnSelected, NoTask
  <2>2. ReplaceInRange(t)
    BY <2>1 DEF ReplaceInRange, StartsFit
  <2> QED
    BY <1>1, <1>9, <2>2 DEF SetQueue
<1>10. ASSUME NEW i \in Positions(queue[selected]), RemoveFromQueue(c, i)
       PROVE  \A d \in Clients : ReplaceInRange(task[d])'
  <2> DEFINE t == [TaskOnSelected(<<"outputs", "remove", "outputs", "shrink">>)
                      EXCEPT !.pos = OutputPosition(i, index[selected])]
  <2>1. ReplaceInRange(t)
    BY DEF ReplaceInRange, WillReplace, TaskOnSelected, NoTask
  <2> QED
    BY <1>1, <1>10, <2>1 DEF RemoveFromQueue
<1>11. ASSUME NEW i \in Positions(queue[selected]), NEW j \in Positions(queue[selected]),
              MoveInQueue(c, i, j)
       PROVE  \A d \in Clients : ReplaceInRange(task[d])'
  <2> DEFINE t == [TaskOnSelected(<<"outputs", "move_track">>)
                      EXCEPT !.pos = OutputPosition(i, index[selected]),
                             !.to  = OutputPosition(j, index[selected])]
  <2>1. ReplaceInRange(t)
    BY DEF ReplaceInRange, WillReplace, TaskOnSelected, NoTask
  <2> QED
    BY <1>1, <1>11, <2>1 DEF MoveInQueue
<1>12. ASSUME NEW mode \in RepeatModes, SetRepeat(c, mode)
       PROVE  \A d \in Clients : ReplaceInRange(task[d])'
  BY <1>1, <1>12, NoTaskReplace DEF SetRepeat
<1>13. ASSUME NEW n \in Nodes, NEW resume \in BOOLEAN, SelectNode(c, n, resume)
       PROVE  \A d \in Clients : ReplaceInRange(task[d])'
  <2> DEFINE todo == <<"stop", "load", "rebuild", "set_queue">>
                        \o (IF resume THEN <<"play">> ELSE <<>>)
             t    == [NoTask EXCEPT !.todo = todo, !.node = n, !.out = selected]
  <2>1. t.todo = todo
    BY DEF NoTask
  <2>2. ~\E k \in DOMAIN todo : todo[k] = "replace"
    <3>1. CASE resume
      BY <3>1
    <3>2. CASE ~resume
      BY <3>2
    <3> QED
      BY <3>1, <3>2
  <2>3. ~WillReplace(t)
    BY <2>1, <2>2 DEF WillReplace
  <2>4. ReplaceInRange(t)
    BY <2>3 DEF ReplaceInRange
  <2> QED
    BY <1>1, <1>13, <2>4 DEF SelectNode
<1> QED
  BY <1>4, <1>5, <1>6, <1>7, <1>8, <1>9, <1>10, <1>11, <1>12, <1>13 DEF Request

LEMMA IndexInvInit ==
  ASSUME Init
  PROVE  IndexInv
<1>1. TypeOK
  BY InitType
<1>2. IndexInRange
  BY DEF Init, IndexInRange
<1>3. \A c \in Clients : ReplaceInRange(task[c])
  BY NoTaskReplace DEF Init
<1> QED
  BY <1>1, <1>2, <1>3 DEF IndexInv

\* A task that holds a position of its list stores no bad start.
LEMMA NoBadStart ==
  ASSUME IndexInv, NEW c \in Clients
  PROVE  ~StoresBadStart(c)
<1> SUFFICES ASSUME Replace(c)
             PROVE  task[c].pos \in Positions(task[c].tracks)
  BY DEF StoresBadStart
<1>1. task[c].todo \in Seq(Steps) /\ task[c].todo # <<>> /\ Head(task[c].todo) = "replace"
  BY DEF Replace, At, Idle, IndexInv, TypeOK, TaskType
<1>2. 1 \in DOMAIN task[c].todo /\ task[c].todo[1] = "replace"
  BY <1>1
<1> QED
  BY <1>2 DEF IndexInv, ReplaceInRange, WillReplace

LEMMA IndexInvInductive ==
  ASSUME StartsFit, IndexInv, [Next]_vars
  PROVE  IndexInv'
<1>1. TypeOK /\ TypeOK'
  BY NextType DEF IndexInv
<1>2. ASSUME NEW c \in Clients, Request(c) \/ TaskStep(c)
      PROVE  IndexInRange' /\ \A d \in Clients : ReplaceInRange(task[d])'
  <2>1. IndexInRange'
    BY <1>1, <1>2, RequestRange, TaskStepRange, NoBadStart DEF IndexInv, IndexInRange
  <2> QED
    BY <1>2, <2>1, RequestReplace, TaskStepReplace
<1>3. ASSUME NEW n \in Nodes, NodeStep(n)
      PROVE  IndexInRange' /\ \A d \in Clients : ReplaceInRange(task[d])'
  <2>1. UNCHANGED task
    BY <1>3 DEF NodeStep, ExecuteCommand, StoreGeneration, CommandFails, SongEnds, PollStatus,
                Report, ReceiveUpdate, ApplyUpdate
  <2>2. IndexInRange'
    BY <1>1, <1>3, NodeStepRange DEF IndexInv, IndexInRange
  <2> QED
    BY <2>1, <2>2 DEF IndexInv, ReplaceInRange, WillReplace
<1>4. ASSUME UNCHANGED vars
      PROVE  IndexInRange' /\ \A d \in Clients : ReplaceInRange(task[d])'
  <2>1. UNCHANGED <<queue, index, task>>
    BY <1>4 DEF vars, coreVars
  <2> QED
    BY <2>1 DEF IndexInv, IndexInRange, ReplaceInRange, WillReplace
<1> QED
  BY <1>1, <1>2, <1>3, <1>4 DEF Next, IndexInv

-----------------------------------------------------------------------------
(* MPD mirrors the queue.  Of every node the invariant says what it will   *)
(* have once it has executed the commands under way to it, in terms of     *)
(* what the one operation under way has still to do: a projection built    *)
(* and not sent, tracks on the list and not sent, a list sent and not yet  *)
(* stored.  MirrorAgrees is what is left of it when nothing is under way.  *)

\* The plans: what is left of each operation (but remove and move), from its
\* start to its last step. The names say what is still to come.
ThenPlay     == <<"play">>
OutPlay      == <<"outputs", "play">>
SetOutPlay   == <<"set_queue", "outputs", "play">>
OutSetPlay   == <<"outputs", "set_queue", "outputs", "play">>
GoToRest     == <<"go_to", "rebuild", "outputs", "set_queue", "outputs", "play">>
NextRest     == <<"next", "rebuild", "outputs", "set_queue", "outputs", "play">>
PreviousRest == <<"previous", "rebuild", "outputs", "set_queue", "outputs", "play">>
ThenStart    == <<"start">>
PlayStart    == <<"play", "start">>
ThenExtend   == <<"extend">>
OutExtend    == <<"outputs", "extend">>
AddRest      == <<"add", "outputs", "extend">>
OutAdd       == <<"outputs", "add", "outputs", "extend">>
PushRest     == <<"push", "outputs", "add", "outputs", "extend">>
ThenWipe     == <<"wipe">>
SetWipe      == <<"set_queue", "wipe">>
BuildWipe    == <<"rebuild", "set_queue", "wipe">>
ReplaceRest  == <<"replace", "outputs", "play">>
SetReplace   == <<"set_queue", "replace", "outputs", "play">>
BuildReplace == <<"rebuild", "set_queue", "replace", "outputs", "play">>
OutReplace   == <<"outputs", "rebuild", "set_queue", "replace", "outputs", "play">>
SetOnly      == <<"set_queue">>
BuildOnly    == <<"rebuild", "set_queue">>
LoadOnly     == <<"load", "rebuild", "set_queue">>
StopOnly     == <<"stop", "load", "rebuild", "set_queue">>
SetPlay      == <<"set_queue", "play">>
BuildPlay    == <<"rebuild", "set_queue", "play">>
LoadPlay     == <<"load", "rebuild", "set_queue", "play">>
StopPlay     == <<"stop", "load", "rebuild", "set_queue", "play">>

\* The plans by what has been done about the list and its projection: nothing
\* yet, or everything (Settled); tracks are on the list and not sent (Adding);
\* a projection was built from the list (Building) and numbered (Loading), or
\* was sent ahead of the list (Writing).
Settled == {GoToRest, NextRest, PreviousRest, PlayStart, ThenStart, PushRest, OutExtend,
            ThenExtend, OutPlay, ThenPlay, StopOnly, StopPlay, LoadOnly, LoadPlay}
Adding    == {OutAdd, AddRest}
Building  == {playSteps, BuildOnly, BuildPlay, BuildWipe, OutReplace, BuildReplace}
Loading   == {OutSetPlay, SetOutPlay, SetOnly, SetPlay, SetWipe, SetReplace}
Writing   == {ThenWipe, ReplaceRest}

\* Only select_node starts with the output of another node.
Elsewhere == {StopOnly, StopPlay, LoadOnly, LoadPlay}
\* The plans that project a list they will store at their end: clear_queue and
\* set_queue. Target is that list, or the one that is there.
Wiping    == {BuildWipe, SetWipe, ThenWipe}
Replacing == {OutReplace, BuildReplace, SetReplace, ReplaceRest}

Target(t, q) == IF t.todo \in Wiping THEN <<>> ELSE IF t.todo \in Replacing THEN t.tracks ELSE q

\* What a node has of a queue: a list and its generation. After is what a
\* command makes of it, Held what the node has now, with the generation it is
\* about to store.
View == [queue : Seq(Tracks), gen : Nat]

After(v, cmd) ==
    CASE cmd.type = "set_queue" -> [queue |-> cmd.paths, gen |-> cmd.gen]
      [] cmd.type = "add"       -> [v EXCEPT !.queue = @ \o cmd.paths]
      [] OTHER                  -> v

Held(n) == [queue |-> mpd[n].queue,
            gen   |-> IF storing[n] = None THEN nodeGen[n] ELSE storing[n]]

\* A view e agrees with a queue q and its transport entry r, lacks the tracks s
\* at the end of it; a projection p was built from q.
Agreed(q, r, e) == /\ e.gen = r.gen
                   /\ ValidIndex(r.start, q)
                   /\ e.queue = Suffix(q, r.start)

Lacks(q, r, e, s) == /\ e.gen = r.gen
                     /\ ValidIndex(r.start, q)
                     /\ e.queue \o s = Suffix(q, r.start)

Built(p, q) == ValidIndex(p.start, q) /\ p.paths = Suffix(q, p.start)

\* What the node will have, e, is to the queue and the transport entry as the
\* rest of its task says.
Due(t, q, r, e) ==
    \/ t.todo \in Settled \cup {<<>>} /\ Agreed(q, r, e)
    \/ t.todo \in Adding /\ Lacks(q, r, e, t.tracks)
    \/ t.todo \in Building /\ Built(t.proj, Target(t, q))
    \/ /\ t.todo \in Loading
       /\ Built(t.proj, Target(t, q)) /\ t.gen = r.gen /\ t.proj.start = r.start
    \/ t.todo \in Writing /\ Agreed(Target(t, q), r, e)

Busy(c, n) == ~Idle(c) /\ task[c].node = n

\* What node n will have once it has executed its commands: what it should,
\* when no task is under way on it, and what the rest of the task owes
\* otherwise.
Expected(n, e) ==
    /\ (\A c \in Clients : ~Busy(c, n)) => Agreed(queue[n], transport[n], e)
    /\ \A c \in Clients : Busy(c, n) => Due(task[c], queue[n], transport[n], e)

\* Operations that do not overlap are on the node that is selected; only the
\* start of select_node uses the output of the node that was.
OnSelected ==
    \A c \in Clients : ~Idle(c) => /\ task[c].node = selected
                                  /\ (task[c].out = selected \/ task[c].todo \in Elsewhere)

\* No operation starts before the one before has ended.
OneAtATime == \A c, d \in Clients : ~Idle(c) /\ ~Idle(d) => c = d

\* The commands of the operations that do not remove or move.
Loads == [type : {"set_queue"}, paths : Seq(Tracks), gen : Nat]
    \cup [type : {"add"}, paths : Seq(Tracks)]
    \cup [type : {"play", "stop"}]

\* Every plan that can be left, and the groups a plan can stay in.
Plans == Settled \cup Adding \cup Building \cup Loading \cup Writing

Groups == {Settled, Adding, Building, Loading}

-----------------------------------------------------------------------------
(* How the plans go on.                                                    *)

\* The plans as data: their next step and what it leaves.
LEMMA PlanHeads ==
  /\ Head(ThenPlay) = "play" /\ Head(OutPlay) = "outputs" /\ Head(SetOutPlay) = "set_queue"
  /\ Head(OutSetPlay) = "outputs" /\ Head(playSteps) = "rebuild" /\ Head(GoToRest) = "go_to"
  /\ Head(NextRest) = "next" /\ Head(PreviousRest) = "previous"
  /\ Head(ThenStart) = "start" /\ Head(PlayStart) = "play"
  /\ Head(ThenExtend) = "extend" /\ Head(OutExtend) = "outputs" /\ Head(AddRest) = "add"
  /\ Head(OutAdd) = "outputs" /\ Head(PushRest) = "push"
  /\ Head(ThenWipe) = "wipe" /\ Head(SetWipe) = "set_queue" /\ Head(BuildWipe) = "rebuild"
  /\ Head(ReplaceRest) = "replace" /\ Head(SetReplace) = "set_queue"
  /\ Head(BuildReplace) = "rebuild" /\ Head(OutReplace) = "outputs"
  /\ Head(SetOnly) = "set_queue" /\ Head(BuildOnly) = "rebuild"
  /\ Head(LoadOnly) = "load" /\ Head(StopOnly) = "stop"
  /\ Head(SetPlay) = "set_queue" /\ Head(BuildPlay) = "rebuild"
  /\ Head(LoadPlay) = "load" /\ Head(StopPlay) = "stop"
BY DEF ThenPlay, OutPlay, SetOutPlay, OutSetPlay, playSteps, GoToRest, NextRest, PreviousRest,
       ThenStart, PlayStart, ThenExtend, OutExtend, AddRest, OutAdd, PushRest, ThenWipe, SetWipe,
       BuildWipe, ReplaceRest, SetReplace, BuildReplace, OutReplace, SetOnly, BuildOnly, LoadOnly,
       StopOnly, SetPlay, BuildPlay, LoadPlay, StopPlay

LEMMA PlanTails ==
  /\ Tail(ThenPlay) = <<>> /\ Tail(OutPlay) = ThenPlay /\ Tail(SetOutPlay) = OutPlay
  /\ Tail(OutSetPlay) = SetOutPlay /\ Tail(playSteps) = OutSetPlay /\ Tail(GoToRest) = playSteps
  /\ Tail(NextRest) = playSteps /\ Tail(PreviousRest) = playSteps
  /\ Tail(ThenStart) = <<>> /\ Tail(PlayStart) = ThenStart
  /\ Tail(ThenExtend) = <<>> /\ Tail(OutExtend) = ThenExtend /\ Tail(AddRest) = OutExtend
  /\ Tail(OutAdd) = AddRest /\ Tail(PushRest) = OutAdd
  /\ Tail(ThenWipe) = <<>> /\ Tail(SetWipe) = ThenWipe /\ Tail(BuildWipe) = SetWipe
  /\ Tail(ReplaceRest) = OutPlay /\ Tail(SetReplace) = ReplaceRest
  /\ Tail(BuildReplace) = SetReplace /\ Tail(OutReplace) = BuildReplace
  /\ Tail(SetOnly) = <<>> /\ Tail(BuildOnly) = SetOnly
  /\ Tail(LoadOnly) = BuildOnly /\ Tail(StopOnly) = LoadOnly
  /\ Tail(SetPlay) = ThenPlay /\ Tail(BuildPlay) = SetPlay
  /\ Tail(LoadPlay) = BuildPlay /\ Tail(StopPlay) = LoadPlay
BY DEF ThenPlay, OutPlay, SetOutPlay, OutSetPlay, playSteps, GoToRest, NextRest, PreviousRest,
       ThenStart, PlayStart, ThenExtend, OutExtend, AddRest, OutAdd, PushRest, ThenWipe, SetWipe,
       BuildWipe, ReplaceRest, SetReplace, BuildReplace, OutReplace, SetOnly, BuildOnly, LoadOnly,
       StopOnly, SetPlay, BuildPlay, LoadPlay, StopPlay

LEMMA PlanType == Plans \subseteq Seq(Steps) /\ <<>> \notin Plans
BY DEF Steps, Plans, Settled, Adding, Building, Loading, Writing, ThenPlay, OutPlay, SetOutPlay,
       OutSetPlay, playSteps, GoToRest, NextRest, PreviousRest,
       ThenStart, PlayStart, ThenExtend, OutExtend, AddRest, OutAdd, PushRest, ThenWipe, SetWipe,
       BuildWipe, ReplaceRest, SetReplace, BuildReplace, OutReplace, SetOnly, BuildOnly, LoadOnly,
       StopOnly, SetPlay, BuildPlay, LoadPlay, StopPlay

\* No plan is in two groups.
LEMMA PlanGroups ==
  /\ \A p \in Settled : p \notin Adding /\ p \notin Building /\ p \notin Loading /\ p \notin Writing
  /\ \A p \in Adding : p \notin Building /\ p \notin Loading /\ p \notin Writing
  /\ \A p \in Building : p \notin Loading /\ p \notin Writing
  /\ \A p \in Loading : p \notin Writing
BY DEF Settled, Adding, Building, Loading, Writing, ThenPlay, OutPlay, SetOutPlay, OutSetPlay,
       playSteps, GoToRest, NextRest, PreviousRest, ThenStart, PlayStart, ThenExtend, OutExtend,
       AddRest, OutAdd, PushRest, ThenWipe, SetWipe, BuildWipe, ReplaceRest, SetReplace,
       BuildReplace, OutReplace, SetOnly, BuildOnly, LoadOnly, StopOnly, SetPlay, BuildPlay,
       LoadPlay, StopPlay

LEMMA PlanTargets ==
  /\ \A p \in {<<>>, playSteps, BuildOnly, BuildPlay, OutSetPlay, SetOutPlay, SetOnly, SetPlay} :
        p \notin Wiping /\ p \notin Replacing
  /\ \A p \in Settled \cup Adding : p \notin Wiping /\ p \notin Replacing
  /\ \A p \in Replacing : p \notin Wiping
  /\ \A p \in Wiping : p \notin Replacing
BY DEF Settled, Adding, Building, Loading, Writing, Wiping, Replacing, Elsewhere, ThenPlay,
       OutPlay, SetOutPlay, OutSetPlay, playSteps, GoToRest, NextRest, PreviousRest, ThenStart,
       PlayStart, ThenExtend, OutExtend, AddRest, OutAdd, PushRest, ThenWipe, SetWipe, BuildWipe,
       ReplaceRest, SetReplace, BuildReplace, OutReplace, SetOnly, BuildOnly, LoadOnly, StopOnly,
       SetPlay, BuildPlay, LoadPlay, StopPlay

\* The plans whose next step is a given one.
LEMMA PlansWithHead ==
  \A p \in Plans :
    /\ Head(p) \in {"play", "stop"} => p \in {ThenPlay, PlayStart, StopOnly, StopPlay}
    /\ Head(p) = "stop" => p \in {StopOnly, StopPlay}
    /\ Head(p) = "outputs" => p \in {OutPlay, OutSetPlay, OutExtend, OutAdd, OutReplace}
    /\ Head(p) = "set_queue" => p \in {SetOutPlay, SetWipe, SetReplace, SetOnly, SetPlay}
    /\ Head(p) = "rebuild" => p \in {playSteps, BuildWipe, BuildReplace, BuildOnly, BuildPlay}
    /\ Head(p) \in {"go_to", "next", "previous"} => p \in {GoToRest, NextRest, PreviousRest}
    /\ Head(p) = "load" => p \in {LoadOnly, LoadPlay}
    /\ Head(p) = "push" => p = PushRest
    /\ Head(p) = "add" => p = AddRest
    /\ Head(p) = "extend" => p = ThenExtend
    /\ Head(p) = "start" => p = ThenStart
    /\ Head(p) = "wipe" => p = ThenWipe
    /\ Head(p) = "replace" => p = ReplaceRest
    /\ Head(p) \in {"play", "stop", "outputs", "set_queue", "rebuild", "go_to", "next", "previous",
                    "load", "push", "add", "extend", "start", "wipe", "replace"}
BY PlanHeads DEF Plans, Settled, Adding, Building, Loading, Writing

LEMMA PlansByHead ==
  ASSUME NEW p \in Plans
  PROVE
    LET h == Head(p)
        Is(q, r) == p = q /\ Tail(p) = r
    IN
    /\ h \in {"play", "stop"} => \/ Is(ThenPlay, <<>>) \/ Is(PlayStart, ThenStart)
                                 \/ Is(StopOnly, LoadOnly) \/ Is(StopPlay, LoadPlay)
    /\ h = "stop" => p \in {StopOnly, StopPlay}
    /\ h = "outputs" => \/ Is(OutPlay, ThenPlay) \/ Is(OutSetPlay, SetOutPlay)
                        \/ Is(OutExtend, ThenExtend) \/ Is(OutAdd, AddRest)
                        \/ Is(OutReplace, BuildReplace)
    /\ h = "set_queue" => \/ Is(SetOutPlay, OutPlay) \/ Is(SetWipe, ThenWipe)
                          \/ Is(SetReplace, ReplaceRest) \/ Is(SetOnly, <<>>)
                          \/ Is(SetPlay, ThenPlay)
    /\ h = "rebuild" => \/ Is(playSteps, OutSetPlay) \/ Is(BuildWipe, SetWipe)
                        \/ Is(BuildReplace, SetReplace) \/ Is(BuildOnly, SetOnly)
                        \/ Is(BuildPlay, SetPlay)
    /\ h \in {"go_to", "next", "previous"} =>
          p \in {GoToRest, NextRest, PreviousRest} /\ Tail(p) = playSteps
    /\ h = "load" => Is(LoadOnly, BuildOnly) \/ Is(LoadPlay, BuildPlay)
    /\ h = "push" => Is(PushRest, OutAdd)
    /\ h = "add" => Is(AddRest, OutExtend)
    /\ h = "extend" => Is(ThenExtend, <<>>)
    /\ h = "start" => Is(ThenStart, <<>>)
    /\ h = "wipe" => Is(ThenWipe, <<>>)
    /\ h = "replace" => Is(ReplaceRest, OutPlay)
    /\ h \in {"play", "stop", "outputs", "set_queue", "rebuild", "go_to", "next", "previous",
              "load", "push", "add", "extend", "start", "wipe", "replace"}
<1> DEFINE h == Head(p)
           Is(q, r) == p = q /\ Tail(p) = r
<1>1. ASSUME h \in {"play", "stop"}
      PROVE  \/ Is(ThenPlay, <<>>) \/ Is(PlayStart, ThenStart)
                                 \/ Is(StopOnly, LoadOnly) \/ Is(StopPlay, LoadPlay)
  <2>1. p \in {ThenPlay, PlayStart, StopOnly, StopPlay}
    BY <1>1, PlansWithHead
  <2> QED
    BY <2>1, PlanTails, Zenon
<1>2. ASSUME h = "outputs"
      PROVE  \/ Is(OutPlay, ThenPlay) \/ Is(OutSetPlay, SetOutPlay)
                        \/ Is(OutExtend, ThenExtend) \/ Is(OutAdd, AddRest)
                        \/ Is(OutReplace, BuildReplace)
  <2>1. p \in {OutPlay, OutSetPlay, OutExtend, OutAdd, OutReplace}
    BY <1>2, PlansWithHead
  <2> QED
    BY <2>1, PlanTails, Zenon
<1>3. ASSUME h = "set_queue"
      PROVE  \/ Is(SetOutPlay, OutPlay) \/ Is(SetWipe, ThenWipe)
                          \/ Is(SetReplace, ReplaceRest) \/ Is(SetOnly, <<>>)
                          \/ Is(SetPlay, ThenPlay)
  <2>1. p \in {SetOutPlay, SetWipe, SetReplace, SetOnly, SetPlay}
    BY <1>3, PlansWithHead
  <2> QED
    BY <2>1, PlanTails, Zenon
<1>4. ASSUME h = "rebuild"
      PROVE  \/ Is(playSteps, OutSetPlay) \/ Is(BuildWipe, SetWipe)
                        \/ Is(BuildReplace, SetReplace) \/ Is(BuildOnly, SetOnly)
                        \/ Is(BuildPlay, SetPlay)
  <2>1. p \in {playSteps, BuildWipe, BuildReplace, BuildOnly, BuildPlay}
    BY <1>4, PlansWithHead
  <2> QED
    BY <2>1, PlanTails, Zenon
<1>5. ASSUME h \in {"go_to", "next", "previous"}
      PROVE 
          p \in {GoToRest, NextRest, PreviousRest} /\ Tail(p) = playSteps
  <2>1. p \in {GoToRest, NextRest, PreviousRest}
    BY <1>5, PlansWithHead
  <2> QED
    BY <2>1, PlanTails, Zenon
<1>6. ASSUME h = "load"
      PROVE  Is(LoadOnly, BuildOnly) \/ Is(LoadPlay, BuildPlay)
  <2>1. p \in {LoadOnly, LoadPlay}
    BY <1>6, PlansWithHead
  <2> QED
    BY <2>1, PlanTails, Zenon
<1>7. ASSUME h = "push"
      PROVE  Is(PushRest, OutAdd)
  <2>1. p = PushRest
    BY <1>7, PlansWithHead
  <2> QED
    BY <2>1, PlanTails, Zenon
<1>8. ASSUME h = "add"
      PROVE  Is(AddRest, OutExtend)
  <2>1. p = AddRest
    BY <1>8, PlansWithHead
  <2> QED
    BY <2>1, PlanTails, Zenon
<1>9. ASSUME h = "extend"
      PROVE  Is(ThenExtend, <<>>)
  <2>1. p = ThenExtend
    BY <1>9, PlansWithHead
  <2> QED
    BY <2>1, PlanTails, Zenon
<1>10. ASSUME h = "start"
      PROVE  Is(ThenStart, <<>>)
  <2>1. p = ThenStart
    BY <1>10, PlansWithHead
  <2> QED
    BY <2>1, PlanTails, Zenon
<1>11. ASSUME h = "wipe"
      PROVE  Is(ThenWipe, <<>>)
  <2>1. p = ThenWipe
    BY <1>11, PlansWithHead
  <2> QED
    BY <2>1, PlanTails, Zenon
<1>12. ASSUME h = "replace"
      PROVE  Is(ReplaceRest, OutPlay)
  <2>1. p = ReplaceRest
    BY <1>12, PlansWithHead
  <2> QED
    BY <2>1, PlanTails, Zenon
<1> QED
  BY PlansWithHead, <1>1, <1>2, <1>3, <1>4, <1>5, <1>6, <1>7, <1>8, <1>9, <1>10, <1>11, <1>12

\* What a step of each kind does to what is left.
LEMMA PlanSteps ==
  ASSUME NEW p \in Plans
  PROVE  LET h == Head(p)
             r == Tail(p)
             Same(S) == p \in S <=> r \in S
         IN
         /\ h = "rebuild" => /\ p \in Building /\ r \in Loading
                             /\ Same(Wiping) /\ Same(Replacing)
         /\ h = "outputs" => /\ \E G \in Groups : p \in G /\ r \in G
                             /\ Same(Wiping) /\ Same(Replacing)
         /\ h = "set_queue" => /\ p \in Loading
                               /\ \/ r \in Writing /\ Same(Wiping) /\ Same(Replacing)
                                  \/ /\ r \in Settled \cup {<<>>}
                                     /\ p \notin Wiping /\ p \notin Replacing
         /\ h \in {"play", "stop"} => p \in Settled /\ r \in Settled \cup {<<>>}
         /\ h = "push" => p \in Settled /\ r \in Adding
         /\ h = "add" => p \in Adding /\ r \in Settled
         /\ h \in {"start", "extend"} => p \in Settled /\ r = <<>>
         /\ h = "wipe" => p \in Writing /\ p \in Wiping /\ r = <<>>
         /\ h = "replace" => /\ p \in Writing /\ p \in Replacing /\ p \notin Wiping
                             /\ r \in Settled
         /\ h \in {"go_to", "next", "previous", "load"} =>
               p \in Settled /\ r \in Building /\ r \notin Wiping /\ r \notin Replacing
         /\ h \in {"play", "stop", "outputs", "set_queue", "rebuild", "go_to", "next", "previous",
                    "load", "push", "add", "extend", "start", "wipe", "replace"}
         /\ p \in Elsewhere => h \in {"stop", "load"}
         /\ h = "stop" => r \in Elsewhere
         /\ r = <<>> \/ r \in Plans
<1> DEFINE h == Head(p)
           r == Tail(p)
           Same(S) == p \in S <=> r \in S
<1>1. h = "rebuild" => /\ p \in Building /\ r \in Loading
                       /\ Same(Wiping) /\ Same(Replacing)
  <2> HAVE h = "rebuild"
  <2>1. PICK q, s : /\ p = q /\ r = s
                    /\ \/ q = playSteps /\ s = OutSetPlay
                       \/ q = BuildWipe /\ s = SetWipe
                       \/ q = BuildReplace /\ s = SetReplace
                       \/ q = BuildOnly /\ s = SetOnly
                       \/ q = BuildPlay /\ s = SetPlay
    BY PlansByHead, Zenon
  <2>2. q \in Building /\ s \in Loading
    BY <2>1 DEF Building, Loading
  <2>3. q \in Wiping <=> s \in Wiping
    BY <2>1, PlanTargets DEF Wiping, Replacing, Settled, Adding
  <2>4. q \in Replacing <=> s \in Replacing
    BY <2>1, PlanTargets DEF Wiping, Replacing, Settled, Adding
  <2> QED
    BY <2>1, <2>2, <2>3, <2>4, Zenon
<1>2. h = "outputs" => /\ \E G \in Groups : p \in G /\ r \in G
                       /\ Same(Wiping) /\ Same(Replacing)
  <2> HAVE h = "outputs"
  <2>1. PICK q, s : /\ p = q /\ r = s
                    /\ \/ q = OutPlay /\ s = ThenPlay
                       \/ q = OutSetPlay /\ s = SetOutPlay
                       \/ q = OutExtend /\ s = ThenExtend
                       \/ q = OutAdd /\ s = AddRest
                       \/ q = OutReplace /\ s = BuildReplace
    BY PlansByHead, Zenon
  <2>2. \E G \in Groups : q \in G /\ s \in G
    BY <2>1 DEF Groups, Settled, Adding, Building, Loading
  <2>3. q \in Wiping <=> s \in Wiping
    BY <2>1, PlanTargets DEF Wiping, Replacing, Settled, Adding
  <2>4. q \in Replacing <=> s \in Replacing
    BY <2>1, PlanTargets DEF Wiping, Replacing, Settled, Adding
  <2> QED
    BY <2>1, <2>2, <2>3, <2>4, Zenon
<1>3. h = "set_queue" => /\ p \in Loading
                         /\ \/ r \in Writing /\ Same(Wiping) /\ Same(Replacing)
                            \/ /\ r \in Settled \cup {<<>>}
                               /\ p \notin Wiping /\ p \notin Replacing
  <2> HAVE h = "set_queue"
  <2>1. PICK q, s : /\ p = q /\ r = s
                    /\ \/ q = SetOutPlay /\ s = OutPlay
                       \/ q = SetWipe /\ s = ThenWipe
                       \/ q = SetReplace /\ s = ReplaceRest
                       \/ q = SetOnly /\ s = <<>>
                       \/ q = SetPlay /\ s = ThenPlay
    BY PlansByHead, Zenon
  <2>2. q \in Loading
    BY <2>1 DEF Loading
  <2>3. q \in Wiping <=> s \in Wiping
    BY <2>1, PlanTargets DEF Wiping, Replacing, Settled, Adding
  <2>4. q \in Replacing <=> s \in Replacing
    BY <2>1, PlanTargets DEF Wiping, Replacing, Settled, Adding
  <2>5. s \in Writing \/ (s \in Settled \cup {<<>>} /\ q \notin Wiping /\ q \notin Replacing)
    BY <2>1, PlanTargets DEF Writing, Settled
  <2> QED
    BY <2>1, <2>2, <2>3, <2>4, <2>5, Zenon
<1>4. h \in {"play", "stop"} => p \in Settled /\ r \in Settled \cup {<<>>}
  BY PlansByHead, Zenon DEF Settled
<1>5. h = "push" => p \in Settled /\ r \in Adding
  BY PlansByHead, Zenon DEF Settled, Adding
<1>6. h = "add" => p \in Adding /\ r \in Settled
  BY PlansByHead, Zenon DEF Settled, Adding
<1>7. h \in {"start", "extend"} => p \in Settled /\ r = <<>>
  BY PlansByHead, Zenon DEF Settled
<1>8. h = "wipe" => p \in Writing /\ p \in Wiping /\ r = <<>>
  BY PlansByHead, Zenon DEF Writing, Wiping
<1>9. h = "replace" => /\ p \in Writing /\ p \in Replacing /\ p \notin Wiping
                       /\ r \in Settled
  <2> HAVE h = "replace"
  <2>1. p = ReplaceRest /\ r = OutPlay
    BY PlansByHead, Zenon
  <2>2. ReplaceRest \in Writing /\ ReplaceRest \in Replacing /\ OutPlay \in Settled
    BY DEF Writing, Replacing, Settled
  <2> QED
    BY <2>1, <2>2, PlanTargets, Zenon
<1>10. h \in {"go_to", "next", "previous", "load"} =>
          p \in Settled /\ r \in Building /\ r \notin Wiping /\ r \notin Replacing
  <2> HAVE h \in {"go_to", "next", "previous", "load"}
  <2>1. p \in Settled /\ r \in {playSteps, BuildOnly, BuildPlay}
    BY PlansByHead, Zenon DEF Settled
  <2>2. \A s \in {playSteps, BuildOnly, BuildPlay} : s \in Building
    BY DEF Building
  <2> QED
    BY <2>1, <2>2, PlanTargets, Zenon
<1>11. h \in {"play", "stop", "outputs", "set_queue", "rebuild", "go_to", "next", "previous",
              "load", "push", "add", "extend", "start", "wipe", "replace"}
  BY PlansByHead, Zenon
<1>12. p \in Elsewhere => h \in {"stop", "load"}
  BY PlanHeads, Zenon DEF Elsewhere
<1>13. h = "stop" => r \in Elsewhere
  <2> HAVE h = "stop"
  <2>1. p \in {StopOnly, StopPlay}
    BY PlansWithHead
  <2>2. r \in {LoadOnly, LoadPlay}
    BY <2>1, PlanTails, Zenon
  <2> QED
    BY <2>2 DEF Elsewhere
<1>14. r = <<>> \/ r \in Plans
  <2>1. h = "outputs" => r \in Plans
    BY <1>2, Zenon DEF Groups, Plans
  <2>2. h # "outputs" => r = <<>> \/ r \in Plans
    BY <1>1, <1>3, <1>4, <1>5, <1>6, <1>7, <1>8, <1>9, <1>10, <1>11, Zenon DEF Plans
  <2> QED
    BY <2>1, <2>2
<1> QED
  BY <1>1, <1>2, <1>3, <1>4, <1>5, <1>6, <1>7, <1>8, <1>9, <1>10, <1>11, <1>12, <1>13, <1>14, Zenon

-----------------------------------------------------------------------------
(* What the commands under way will make of a node.                        *)

\* From what it has, h, the commands of a channel lead a node to e.
Leads(h, ch, e) ==
    \E v \in [0 .. Len(ch) -> View] :
        /\ v[0] = h /\ v[Len(ch)] = e
        /\ \A k \in 1 .. Len(ch) : v[k] = After(v[k - 1], ch[k])

LEMMA AfterType ==
  ASSUME NEW v \in View, NEW cmd \in Loads
  PROVE  After(v, cmd) \in View
<1>1. CASE cmd.type = "set_queue"
  BY <1>1 DEF After, View, Loads
<1>2. CASE cmd.type = "add"
  <2>1. cmd.paths \in Seq(Tracks) /\ v.queue \in Seq(Tracks) /\ v.gen \in Nat
    BY <1>2 DEF View, Loads
  <2>2. v.queue \o cmd.paths \in Seq(Tracks)
    BY <2>1, ConcatProperties
  <2>3. After(v, cmd) = [v EXCEPT !.queue = v.queue \o cmd.paths]
    BY <1>2 DEF After
  <2> HIDE DEF After
  <2> QED
    BY <2>1, <2>2, <2>3 DEF View
<1>3. CASE cmd.type \notin {"set_queue", "add"}
  BY <1>3 DEF After
<1> QED
  BY <1>1, <1>2, <1>3

\* An empty channel leads to what the node has, a command sent to what it makes
\* of where the channel led, and the command executed leaves the channel
\* leading where it did.
LEMMA LeadsNowhere ==
  ASSUME NEW h \in View
  PROVE  /\ Leads(h, <<>>, h)
         /\ \A e : Leads(h, <<>>, e) => e = h
<1>1. Leads(h, <<>>, h)
  <2> DEFINE v == [k \in 0 .. 0 |-> h]
  <2>1. v \in [0 .. 0 -> View] /\ v[0] = h
    OBVIOUS
  <2>2. Len(<<>>) = 0 /\ 1 .. 0 = {}
    OBVIOUS
  <2> HIDE DEF v
  <2> QED
    BY <2>1, <2>2 DEF Leads
<1>2. \A e : Leads(h, <<>>, e) => e = h
  BY DEF Leads
<1> QED
  BY <1>1, <1>2

LEMMA LeadsOn ==
  ASSUME NEW h, NEW ch \in Seq(Loads), NEW e \in View, NEW cmd \in Loads, Leads(h, ch, e)
  PROVE  Leads(h, Append(ch, cmd), After(e, cmd))
<1> DEFINE n == Len(ch)
           w == Append(ch, cmd)
<1>1. n \in Nat /\ Len(w) = n + 1
  OBVIOUS
<1>2. PICK v \in [0 .. n -> View] :
         /\ v[0] = h /\ v[n] = e
         /\ \A k \in 1 .. n : v[k] = After(v[k - 1], ch[k])
  BY DEF Leads
<1>3. \A k \in 1 .. n : w[k] = ch[k]
  BY <1>1
<1>4. w[n + 1] = cmd
  BY <1>1
<1>5. After(e, cmd) \in View
  BY AfterType
<1> DEFINE u == [k \in 0 .. n + 1 |-> IF k = n + 1 THEN After(e, cmd) ELSE v[k]]
<1>6. u \in [0 .. n + 1 -> View]
  BY <1>1, <1>2, <1>5
<1>7. u[0] = h /\ u[n + 1] = After(e, cmd) /\ u[n] = e
  BY <1>1, <1>2
<1>8. \A k \in 1 .. n : u[k] = v[k] /\ u[k - 1] = v[k - 1]
  BY <1>1
<1> HIDE DEF u, w, n
<1>9. \A k \in 1 .. n + 1 : u[k] = After(u[k - 1], w[k])
  <2> TAKE k \in 1 .. n + 1
  <2>1. CASE k = n + 1
    BY <1>1, <1>4, <1>7, <2>1
  <2>2. CASE k \in 1 .. n
    BY <1>2, <1>3, <1>8, <2>2
  <2> QED
    BY <1>1, <2>1, <2>2
<1> QED
  BY <1>1, <1>6, <1>7, <1>9 DEF Leads, w

LEMMA LeadsFrom ==
  ASSUME NEW h, NEW ch \in Seq(Loads), ch # <<>>, NEW e, Leads(h, ch, e)
  PROVE  Leads(After(h, Head(ch)), Tail(ch), e)
<1> DEFINE n == Len(ch)
           w == Tail(ch)
<1>1. n \in Nat \ {0} /\ Len(w) = n - 1
  BY EmptySeq
<1>2. PICK v \in [0 .. n -> View] :
         /\ v[0] = h /\ v[n] = e
         /\ \A k \in 1 .. n : v[k] = After(v[k - 1], ch[k])
  BY DEF Leads
<1>3. \A k \in 1 .. n - 1 : w[k] = ch[k + 1]
  BY <1>1
<1>4. ch[1] = Head(ch)
  BY <1>1
<1> DEFINE u == [k \in 0 .. n - 1 |-> v[k + 1]]
<1>5. u \in [0 .. n - 1 -> View]
  BY <1>1, <1>2
<1>6. u[0] = v[1] /\ u[n - 1] = v[n]
  BY <1>1
<1>7. v[1] = After(h, Head(ch))
  BY <1>1, <1>2, <1>4
<1>8. \A k \in 1 .. n - 1 : u[k] = v[k + 1] /\ u[k - 1] = v[k]
  BY <1>1
<1> HIDE DEF u, w, n
<1>9. \A k \in 1 .. n - 1 : u[k] = After(u[k - 1], w[k])
  <2> TAKE k \in 1 .. n - 1
  <2>1. k + 1 \in 1 .. n /\ (k + 1) - 1 = k
    BY <1>1
  <2>2. v[k + 1] = After(v[k], ch[k + 1])
    BY <1>2, <2>1
  <2> QED
    BY <1>3, <1>8, <2>2
<1> QED
  BY <1>1, <1>2, <1>5, <1>6, <1>7, <1>9 DEF Leads, w

\* Tracks added to a queue are added to what is projected of it.
LEMMA SuffixOfConcat ==
  ASSUME NEW q \in Seq(Tracks), NEW s \in Seq(Tracks), NEW i, ValidIndex(i, q)
  PROVE  /\ Suffix(q \o s, i) = Suffix(q, i) \o s
         /\ ValidIndex(i, q \o s)
<1> DEFINE m == IF i = None THEN 0 ELSE i
<1>1. Len(q) \in Nat /\ Len(s) \in Nat /\ Len(q \o s) = Len(q) + Len(s) /\ q \o s \in Seq(Tracks)
  BY ConcatProperties
<1>2. m \in 0 .. Len(q) /\ ValidIndex(i, q \o s)
  BY <1>1 DEF ValidIndex, Positions, None
<1> DEFINE a == SubSeq(q \o s, m + 1, Len(q \o s))
           b == SubSeq(q, m + 1, Len(q))
<1> HIDE DEF m
<1>3. /\ a \in Seq(Tracks) /\ Len(a) = Len(q) + Len(s) - m
      /\ \A k \in 1 .. Len(a) : a[k] = (q \o s)[m + k]
  BY <1>1, <1>2, SubSeqProperties, ElementOfSeq
<1>4. /\ b \in Seq(Tracks) /\ Len(b) = Len(q) - m
      /\ \A k \in 1 .. Len(b) : b[k] = q[m + k]
  BY <1>1, <1>2, SubSeqProperties, ElementOfSeq
<1> HIDE DEF a, b
<1>5. b \o s \in Seq(Tracks) /\ Len(b \o s) = Len(a)
  <2>1. b \o s \in Seq(Tracks) /\ Len(b \o s) = Len(b) + Len(s)
    BY <1>4, ConcatProperties
  <2> QED
    BY <1>1, <1>2, <1>3, <1>4, <2>1
<1>6. \A k \in 1 .. Len(a) : a[k] = (b \o s)[k]
  <2> TAKE k \in 1 .. Len(a)
  <2>1. a[k] = (q \o s)[m + k]
    BY <1>3
  <2>2. CASE k <= Len(q) - m
    <3>1. m + k \in 1 .. Len(q) /\ k \in 1 .. Len(b)
      BY <1>1, <1>2, <1>3, <1>4, <2>2
    <3> QED
      BY <1>1, <1>4, <2>1, <3>1, ConcatProperties
  <2>3. CASE k > Len(q) - m
    <3>1. /\ m + k \in Len(q) + 1 .. Len(q) + Len(s)
          /\ k \in Len(b) + 1 .. Len(b) + Len(s)
          /\ (m + k) - Len(q) = k - Len(b)
      BY <1>1, <1>2, <1>3, <1>4, <2>3
    <3>2. (q \o s)[m + k] = s[(m + k) - Len(q)]
      BY <1>1, <3>1, ConcatProperties
    <3>3. (b \o s)[k] = s[k - Len(b)]
      BY <1>1, <1>4, <3>1, ConcatProperties
    <3> QED
      BY <2>1, <3>1, <3>2, <3>3
  <2>4. Len(a) \in Nat /\ m \in Int /\ Len(q) \in Int
    BY <1>1, <1>2, <1>3
  <2>5. k \in Int
    BY <2>4
  <2>6. k <= Len(q) - m \/ k > Len(q) - m
    BY <2>4, <2>5
  <2> QED
    BY <2>2, <2>3, <2>6
<1>7. a = b \o s
  BY <1>3, <1>5, <1>6, SeqEqual
<1> QED
  BY <1>2, <1>7 DEF Suffix, a, b, m

-----------------------------------------------------------------------------
(* What a task owes, step by step.                                         *)

\* A task that owes something has one of the plans.
LEMMA PlanDue ==
  ASSUME NEW t \in TaskType, NEW q, NEW r, NEW e, Due(t, q, r, e)
  PROVE  t.todo # <<>> => t.todo \in Plans
BY DEF Due, Plans

\* Each part of Due, for a task in a group of plans.
LEMMA DueOf ==
  ASSUME NEW t, NEW q, NEW r, NEW e, Due(t, q, r, e)
  PROVE  /\ t.todo \in Settled \cup {<<>>} => Agreed(q, r, e)
         /\ t.todo \in Adding => Lacks(q, r, e, t.tracks)
         /\ t.todo \in Building => Built(t.proj, Target(t, q))
         /\ t.todo \in Loading => /\ Built(t.proj, Target(t, q))
                                  /\ t.gen = r.gen /\ t.proj.start = r.start
         /\ t.todo \in Writing => Agreed(Target(t, q), r, e)
<1>1. <<>> \notin Adding /\ <<>> \notin Building /\ <<>> \notin Loading /\ <<>> \notin Writing
  BY PlanType DEF Plans
<1> QED
  BY <1>1, PlanGroups, Zenon DEF Due

\* A task that goes on with the rest of its plan.
Continues(t, u) == /\ t.todo \in Plans /\ u.todo = Tail(t.todo)
                   /\ u.tracks = t.tracks

\* What each kind of step does to what a task owes: nothing, for the steps that
\* neither write the list nor change what the node will have ...
LEMMA DueQuiet ==
  ASSUME NEW t, NEW u, NEW q, NEW r, NEW s, NEW e, Due(t, q, r, e), Continues(t, u),
         s.gen = r.gen, s.start = r.start,
         Head(t.todo) \in {"play", "stop", "start", "extend"}
  PROVE  Due(u, q, s, e)
<1>1. t.todo \in Settled /\ u.todo \in Settled \cup {<<>>}
  BY PlanSteps, Zenon DEF Continues
<1>2. Agreed(q, r, e)
  BY <1>1, DueOf, Zenon
<1>3. Agreed(q, s, e)
  BY <1>2 DEF Agreed
<1> QED
  BY <1>1, <1>3 DEF Due

LEMMA DueOutputs ==
  ASSUME NEW t, NEW u, NEW q, NEW r, NEW e, Due(t, q, r, e), Continues(t, u),
         u.proj = t.proj, u.gen = t.gen, Head(t.todo) = "outputs"
  PROVE  Due(u, q, r, e)
<1>1. /\ \E G \in Groups : t.todo \in G /\ u.todo \in G
      /\ (t.todo \in Wiping <=> u.todo \in Wiping)
      /\ (t.todo \in Replacing <=> u.todo \in Replacing)
  <2>1. /\ \E G \in Groups : t.todo \in G /\ Tail(t.todo) \in G
        /\ (t.todo \in Wiping <=> Tail(t.todo) \in Wiping)
        /\ (t.todo \in Replacing <=> Tail(t.todo) \in Replacing)
    BY PlanSteps DEF Continues
  <2> QED
    BY <2>1, Zenon DEF Continues
<1>2. Target(u, q) = Target(t, q)
  BY <1>1, Zenon DEF Target, Continues
<1>3. CASE t.todo \in Settled /\ u.todo \in Settled
  BY <1>3, DueOf DEF Due
<1>4. CASE t.todo \in Adding /\ u.todo \in Adding
  <2>1. Lacks(q, r, e, t.tracks)
    BY <1>4, DueOf, Zenon
  <2> QED
    BY <1>4, <2>1, Zenon DEF Due, Continues
<1>5. CASE t.todo \in Building /\ u.todo \in Building
  <2>1. Built(t.proj, Target(t, q))
    BY <1>5, DueOf, Zenon
  <2> QED
    BY <1>2, <1>5, <2>1, Zenon DEF Due
<1>6. CASE t.todo \in Loading /\ u.todo \in Loading
  <2>1. Built(t.proj, Target(t, q)) /\ t.gen = r.gen /\ t.proj.start = r.start
    BY <1>6, DueOf, Zenon
  <2> QED
    BY <1>2, <1>6, <2>1, Zenon DEF Due
<1> QED
  BY <1>1, <1>3, <1>4, <1>5, <1>6, Zenon DEF Groups

\* ... a track pushed is owed until it has been sent ...
LEMMA DuePush ==
  ASSUME NEW t, NEW u, NEW q \in Seq(Tracks), NEW r, NEW e \in View, Due(t, q, r, e),
         Continues(t, u), t.tracks \in Seq(Tracks), Head(t.todo) = "push"
  PROVE  Due(u, q \o t.tracks, r, e)
<1>1. t.todo \in Settled /\ u.todo \in Adding
  <2>1. t.todo \in Plans /\ u.todo = Tail(t.todo)
    BY DEF Continues
  <2>2. t.todo \in Settled /\ Tail(t.todo) \in Adding
    BY <2>1, PlanSteps, Zenon
  <2> QED
    BY <2>1, <2>2, Zenon
<1>2. Agreed(q, r, e)
  BY <1>1, DueOf, Zenon
<1>3. /\ Suffix(q \o t.tracks, r.start) = e.queue \o t.tracks
      /\ ValidIndex(r.start, q \o t.tracks)
  <2>1. ValidIndex(r.start, q) /\ e.queue = Suffix(q, r.start)
    BY <1>2, Zenon DEF Agreed
  <2>2. /\ Suffix(q \o t.tracks, r.start) = Suffix(q, r.start) \o t.tracks
        /\ ValidIndex(r.start, q \o t.tracks)
    BY <2>1, SuffixOfConcat, Zenon
  <2> QED
    BY <2>1, <2>2, Zenon
<1> QED
  BY <1>1, <1>2, <1>3 DEF Due, Agreed, Lacks, Continues

LEMMA DueAdd ==
  ASSUME NEW t, NEW u, NEW q, NEW r, NEW e \in View, Due(t, q, r, e),
         Continues(t, u), Head(t.todo) = "add",
         NEW cmd, cmd.type = "add", cmd.paths = t.tracks
  PROVE  Due(u, q, r, After(e, cmd))
<1>1. t.todo \in Adding /\ u.todo \in Settled
  BY PlanSteps, Zenon DEF Continues
<1>2. Lacks(q, r, e, t.tracks)
  BY <1>1, DueOf, Zenon
<1>3. After(e, cmd).queue = e.queue \o t.tracks /\ After(e, cmd).gen = e.gen
  BY DEF After, View
<1> QED
  BY <1>1, <1>2, <1>3 DEF Due, Agreed, Lacks

\* ... a projection that was built is numbered, sent, and has then been brought
\* in line ...
LEMMA DueRebuild ==
  ASSUME NEW t, NEW u, NEW q, NEW r, NEW s, NEW e, Due(t, q, r, e),
         Continues(t, u), Head(t.todo) = "rebuild", u.proj = t.proj,
         s.gen = u.gen, s.start = t.proj.start
  PROVE  Due(u, q, s, e)
<1>1. /\ t.todo \in Building /\ u.todo \in Loading
      /\ (t.todo \in Wiping <=> u.todo \in Wiping)
      /\ (t.todo \in Replacing <=> u.todo \in Replacing)
  <2>1. /\ t.todo \in Building /\ Tail(t.todo) \in Loading
        /\ (t.todo \in Wiping <=> Tail(t.todo) \in Wiping)
        /\ (t.todo \in Replacing <=> Tail(t.todo) \in Replacing)
    BY PlanSteps DEF Continues
  <2> QED
    BY <2>1, Zenon DEF Continues
<1>2. Target(u, q) = Target(t, q)
  BY <1>1, Zenon DEF Target, Continues
<1>3. Built(t.proj, Target(t, q))
  BY <1>1, DueOf, Zenon
<1> QED
  BY <1>1, <1>2, <1>3 DEF Due

LEMMA DueSetQueue ==
  ASSUME NEW t, NEW u, NEW q, NEW r, NEW e, Due(t, q, r, e),
         Continues(t, u), Head(t.todo) = "set_queue",
         NEW cmd, cmd.type = "set_queue", cmd.paths = t.proj.paths, cmd.gen = t.gen
  PROVE  Due(u, q, r, After(e, cmd))
<1>1. t.todo \in Loading
  BY PlanSteps, Zenon DEF Continues
<1>2. Built(t.proj, Target(t, q)) /\ t.gen = r.gen /\ t.proj.start = r.start
  BY <1>1, DueOf, Zenon
<1>3. After(e, cmd).queue = t.proj.paths /\ After(e, cmd).gen = t.gen
  BY DEF After
<1>4. Agreed(Target(t, q), r, After(e, cmd))
  BY <1>2, <1>3 DEF Agreed, Built
<1>5. CASE /\ u.todo \in Writing
           /\ (t.todo \in Wiping <=> u.todo \in Wiping)
           /\ (t.todo \in Replacing <=> u.todo \in Replacing)
  <2>1. Target(u, q) = Target(t, q)
    BY <1>5, Zenon DEF Target, Continues
  <2> QED
    BY <1>4, <1>5, <2>1 DEF Due
<1>6. CASE u.todo \in Settled \cup {<<>>} /\ t.todo \notin Wiping /\ t.todo \notin Replacing
  <2>1. Target(t, q) = q
    BY <1>6, Zenon DEF Target
  <2> QED
    BY <1>4, <1>6, <2>1 DEF Due
<1>7. \/ /\ Tail(t.todo) \in Writing
         /\ (t.todo \in Wiping <=> Tail(t.todo) \in Wiping)
         /\ (t.todo \in Replacing <=> Tail(t.todo) \in Replacing)
      \/ Tail(t.todo) \in Settled \cup {<<>>} /\ t.todo \notin Wiping /\ t.todo \notin Replacing
  BY PlanSteps DEF Continues
<1> QED
  BY <1>5, <1>6, <1>7, Zenon DEF Continues

\* ... with the list that is written last.
LEMMA DueWipe ==
  ASSUME NEW t, NEW u, NEW q, NEW r, NEW e, Due(t, q, r, e),
         Continues(t, u), Head(t.todo) = "wipe"
  PROVE  Due(u, <<>>, r, e)
<1>1. t.todo \in Writing /\ t.todo \in Wiping /\ u.todo = <<>>
  BY PlanSteps, Zenon DEF Continues
<1>2. Target(t, q) = <<>>
  BY <1>1, Zenon DEF Target
<1> QED
  BY <1>1, <1>2, DueOf DEF Due

LEMMA DueReplace ==
  ASSUME NEW t, NEW u, NEW q, NEW r, NEW e, Due(t, q, r, e),
         Continues(t, u), Head(t.todo) = "replace"
  PROVE  Due(u, t.tracks, r, e)
<1>1. t.todo \in Writing /\ t.todo \in Replacing /\ t.todo \notin Wiping /\ u.todo \in Settled
  BY PlanSteps, Zenon DEF Continues
<1>2. Target(t, q) = t.tracks
  BY <1>1, Zenon DEF Target
<1> QED
  BY <1>1, <1>2, DueOf DEF Due

LEMMA DueLoad ==
  ASSUME NEW t, NEW u, NEW q, NEW r, NEW e, t.todo \in Plans, u.todo = Tail(t.todo),
         Head(t.todo) \in {"go_to", "next", "previous", "load"}, Built(u.proj, q)
  PROVE  Due(u, q, r, e)
<1>1. u.todo \in Building /\ u.todo \notin Wiping /\ u.todo \notin Replacing
  <2>1. /\ Tail(t.todo) \in Building
        /\ Tail(t.todo) \notin Wiping /\ Tail(t.todo) \notin Replacing
    BY PlanSteps
  <2> QED
    BY <2>1, Zenon
<1>2. Target(u, q) = q
  BY <1>1, Zenon DEF Target
<1> QED
  BY <1>1, <1>2 DEF Due

-----------------------------------------------------------------------------
(* The invariant and the steps of the core that keep it.                   *)

\* The invariant: every node is led by its channel to what is expected of it.
Courses == \A n \in Nodes : \E e \in View : Leads(Held(n), channel[n], e) /\ Expected(n, e)

MirrorInv == /\ IndexInv
             /\ channel \in [Nodes -> Seq(Loads)]
             /\ OnSelected
             /\ Courses

LEMMA HeldType ==
  ASSUME TypeOK, NEW n \in Nodes
  PROVE  Held(n) \in View
<1>1. mpd[n] \in MpdType /\ nodeGen[n] \in Nat /\ storing[n] \in Index
  BY DEF TypeOK
<1>2. storing[n] # None => storing[n] \in Nat
  BY <1>1 DEF Index
<1> QED
  BY <1>1, <1>2 DEF Held, View, MpdType

\* The task that runs, alone, on the selected node.
LEMMA Running ==
  ASSUME MirrorInv, OneAtATime, NEW c \in Clients, ~Idle(c)
  PROVE  /\ task[c] \in TaskType /\ task[c].todo \in Plans
         /\ task[c].node = selected /\ selected \in Nodes
         /\ (task[c].out = selected \/ task[c].todo \in Elsewhere)
         /\ \A d \in Clients \ {c} : Idle(d)
         /\ \E e \in View : /\ Leads(Held(selected), channel[selected], e)
                            /\ Due(task[c], queue[selected], transport[selected], e)
         /\ \A n \in Nodes \ {selected} :
               \E e \in View : /\ Leads(Held(n), channel[n], e)
                               /\ Agreed(queue[n], transport[n], e)
<1>1. task[c] \in TaskType /\ selected \in Nodes
  BY DEF MirrorInv, IndexInv, TypeOK
<1>2. task[c].node = selected /\ (task[c].out = selected \/ task[c].todo \in Elsewhere)
  BY DEF MirrorInv, OnSelected
<1>3. \A d \in Clients \ {c} : Idle(d)
  BY DEF OneAtATime
<1>4. PICK e \in View : Leads(Held(selected), channel[selected], e) /\ Expected(selected, e)
  BY <1>1, Zenon DEF MirrorInv, Courses
<1>5. Due(task[c], queue[selected], transport[selected], e)
  BY <1>2, <1>4, Zenon DEF Expected, Busy
<1>6. task[c].todo \in Plans
  BY <1>1, <1>5, PlanDue DEF Idle
<1>7. ASSUME NEW n \in Nodes \ {selected}
      PROVE  \E f \in View : Leads(Held(n), channel[n], f) /\ Agreed(queue[n], transport[n], f)
  <2>1. PICK f \in View : Leads(Held(n), channel[n], f) /\ Expected(n, f)
    BY <1>7, Zenon DEF MirrorInv, Courses
  <2>2. \A d \in Clients : ~Busy(d, n)
    BY <1>2, <1>3, <1>7, Zenon DEF Busy
  <2> QED
    BY <2>1, <2>2, Zenon DEF Expected
<1> QED
  BY <1>1, <1>2, <1>3, <1>4, <1>5, <1>6, <1>7, Zenon

\* What a step of that task has to show.
LEMMA StepFollows ==
  ASSUME MirrorInv, OneAtATime, NEW c \in Clients, ~Idle(c), NEW u, selected' = selected,
         u.todo # <<>> => /\ u.node = selected
                          /\ (u.out = selected \/ u.todo \in Elsewhere),
         task' = [task EXCEPT ![c] = IF u.todo = <<>> THEN NoTask ELSE u],
         \A n \in Nodes \ {selected} :
            /\ queue'[n] = queue[n] /\ transport'[n] = transport[n]
            /\ \A e \in View : Leads(Held(n), channel[n], e) => Leads(Held(n)', channel'[n], e),
         \A e \in View :
            /\ Leads(Held(selected), channel[selected], e)
            /\ Due(task[c], queue[selected], transport[selected], e)
            => \E f \in View : /\ Leads(Held(selected)', channel'[selected], f)
                               /\ Due(u, queue'[selected], transport'[selected], f)
  PROVE  OnSelected' /\ Courses'
<1> DEFINE s == selected
<1>1. /\ task[c].node = s /\ s \in Nodes
      /\ \A d \in Clients \ {c} : Idle(d)
      /\ \E e \in View : /\ Leads(Held(s), channel[s], e)
                         /\ Due(task[c], queue[s], transport[s], e)
      /\ \A n \in Nodes \ {s} : \E e \in View : /\ Leads(Held(n), channel[n], e)
                                                 /\ Agreed(queue[n], transport[n], e)
  BY Running, Zenon
<1>2. /\ task'[c] = IF u.todo = <<>> THEN NoTask ELSE u
      /\ \A d \in Clients \ {c} : task'[d] = task[d]
  BY DEF MirrorInv, IndexInv, TypeOK
<1>3. NoTask.todo = <<>>
  BY DEF NoTask
<1>4. (~Idle(c))' => u.todo # <<>> /\ task'[c] = u
  BY <1>2, <1>3, Zenon DEF Idle
<1>5. \A d \in Clients \ {c} : Idle(d)'
  BY <1>1, <1>2, Zenon DEF Idle
<1>6. OnSelected'
  BY <1>4, <1>5, Zenon DEF OnSelected
<1>7. ASSUME NEW n \in Nodes
      PROVE  \E e \in View : Leads(Held(n)', channel'[n], e) /\ Expected(n, e)'
  <2>1. CASE n = s
    <3>1. PICK e \in View : /\ Leads(Held(s), channel[s], e)
                            /\ Due(task[c], queue[s], transport[s], e)
      BY <1>1
    <3>2. PICK f \in View : /\ Leads(Held(s)', channel'[s], f)
                            /\ Due(u, queue'[s], transport'[s], f)
      BY <3>1
    <3>3. CASE u.todo = <<>>
      <4>1. Agreed(queue'[n], transport'[n], f)
        BY <2>1, <3>2, <3>3, DueOf, Zenon
      <4>2. \A d \in Clients : Idle(d)'
        BY <1>2, <1>3, <1>5, <3>3, Zenon DEF Idle
      <4>3. Expected(n, f)'
        BY <4>1, <4>2, Zenon DEF Expected, Busy
      <4> QED
        BY <2>1, <3>2, <4>3, Zenon
    <3>4. CASE u.todo # <<>>
      <4>1. task'[c] = u /\ (~Idle(c))' /\ u.node = s
        BY <1>2, <3>4, Zenon DEF Idle
      <4>2. Busy(c, n)' /\ \A d \in Clients : Busy(d, n)' => d = c
        BY <1>5, <2>1, <4>1, Zenon DEF Busy
      <4>3. Expected(n, f)'
        BY <2>1, <3>2, <4>1, <4>2, Zenon DEF Expected
      <4> QED
        BY <2>1, <3>2, <4>3, Zenon
    <3> QED
      BY <3>3, <3>4
  <2>2. CASE n # s
    <3>1. PICK e \in View : Leads(Held(n), channel[n], e) /\ Agreed(queue[n], transport[n], e)
      BY <1>1, <2>2
    <3>2. Leads(Held(n)', channel'[n], e) /\ Agreed(queue'[n], transport'[n], e)
      <4>1. n \in Nodes \ {selected}
        BY <2>2
      <4> QED
        BY <3>1, <4>1
    <3>3. \A d \in Clients : ~Busy(d, n)'
      BY <1>4, <1>5, <2>2, Zenon DEF Busy
    <3>4. Expected(n, e)'
      BY <3>2, <3>3, Zenon DEF Expected
    <3> QED
      BY <3>2, <3>4, Zenon
  <2> QED
    BY <2>1, <2>2
<1> QED
  BY <1>6, <1>7 DEF Courses

\* A step that neither sends nor is the node's.
LEMMA QuietFollows ==
  ASSUME MirrorInv, OneAtATime, NEW c \in Clients, ~Idle(c), NEW u, selected' = selected,
         u.todo # <<>> => /\ u.node = selected
                          /\ (u.out = selected \/ u.todo \in Elsewhere),
         task' = [task EXCEPT ![c] = IF u.todo = <<>> THEN NoTask ELSE u],
         UNCHANGED <<channel, mpd, storing, nodeGen>>,
         \A n \in Nodes \ {selected} : queue'[n] = queue[n] /\ transport'[n] = transport[n],
         \A e \in View : Due(task[c], queue[selected], transport[selected], e)
                         => Due(u, queue'[selected], transport'[selected], e)
  PROVE  OnSelected' /\ Courses'
<1>1. \A n \in Nodes : Held(n)' = Held(n) /\ channel'[n] = channel[n]
  BY DEF Held
<1>2. selected \in Nodes
  BY Running
<1>3. \A n \in Nodes \ {selected} :
        /\ queue'[n] = queue[n] /\ transport'[n] = transport[n]
        /\ \A e \in View : Leads(Held(n), channel[n], e) => Leads(Held(n)', channel'[n], e)
  BY <1>1
<1>4. \A e \in View :
        /\ Leads(Held(selected), channel[selected], e)
        /\ Due(task[c], queue[selected], transport[selected], e)
        => \E f \in View : /\ Leads(Held(selected)', channel'[selected], f)
                           /\ Due(u, queue'[selected], transport'[selected], f)
  BY <1>1, <1>2
<1> QED
  BY <1>3, <1>4, StepFollows

\* What Advance leaves of a task.
LEMMA AdvanceFollows ==
  ASSUME NEW c \in Clients, NEW t \in TaskType, t.todo # <<>>, Advance(c, t)
  PROVE  \E u \in TaskType :
            /\ u.todo = Tail(t.todo) /\ u.node = t.node /\ u.out = t.out
            /\ u.tracks = t.tracks /\ u.proj = t.proj /\ u.gen = t.gen
            /\ task' = [task EXCEPT ![c] = IF u.todo = <<>> THEN NoTask ELSE u]
<1> DEFINE u == [t EXCEPT !.todo = Tail(t.todo)]
<1>1. Tail(t.todo) \in Seq(Steps)
  BY HeadTailProperties DEF TaskType
<1>2. /\ u \in TaskType /\ u.todo = Tail(t.todo) /\ u.node = t.node /\ u.out = t.out
      /\ u.tracks = t.tracks /\ u.proj = t.proj /\ u.gen = t.gen
  BY <1>1 DEF TaskType
<1>3. task' = [task EXCEPT ![c] = IF u.todo = <<>> THEN NoTask ELSE u]
  BY <1>2, Zenon DEF Advance
<1> QED
  BY <1>2, <1>3

LEMMA GoToFollows ==
  ASSUME MirrorInv, OneAtATime, NEW c \in Clients, GoToTarget(c)
  PROVE  OnSelected' /\ Courses'
<1> DEFINE n == task[c].node
<1>0. PICK step \in {"go_to", "next", "previous"}, i \in Index :
         GoTo(c, step, i) /\ (ValidIndex(index[n], queue[n]) => ValidIndex(i, queue[n]))
  BY GoToTargets DEF MirrorInv, IndexInv
<1>1. step \in {"go_to", "next", "previous"} /\ GoTo(c, step, i)
  BY <1>0
<1>2. ~Idle(c) /\ Head(task[c].todo) = step
  BY <1>1 DEF GoTo, At
<1>3. /\ task[c] \in TaskType /\ task[c].todo \in Plans /\ n = selected /\ n \in Nodes
      /\ (task[c].out = selected \/ task[c].todo \in Elsewhere)
  BY <1>2, Running
<1>4. task[c].out = selected
  <2>1. task[c].todo \in Elsewhere => Head(task[c].todo) \in {"stop", "load"}
    BY <1>3, PlanSteps
  <2> QED
    BY <1>1, <1>2, <1>3, <2>1
<1>5. /\ selected' = selected /\ queue' = queue /\ transport' = transport /\ channel' = channel
      /\ UNCHANGED <<mpd, storing, nodeGen>>
  BY <1>1 DEF GoTo, nodeVars
<1>6. CASE i # None
  <2> DEFINE t == [task[c] EXCEPT !.proj = ProjectionFrom(queue[n], i)]
  <2>1. queue[n] \in Seq(Tracks) /\ ValidIndex(i, queue[n])
    BY <1>0, <1>3 DEF MirrorInv, IndexInv, IndexInRange, TypeOK
  <2>2. t \in TaskType
    BY <1>3, <2>1, SuffixType, TaskUpdateType
  <2>3. /\ t.todo = task[c].todo /\ t.proj = ProjectionFrom(queue[n], i)
        /\ t.node = n /\ t.out = selected
    BY <1>3, <1>4 DEF TaskType
  <2>4. Advance(c, t)
    BY <1>1, <1>6 DEF GoTo
  <2>5. t.todo # <<>>
    BY <1>2, <2>3 DEF Idle
  <2> HIDE DEF t
  <2>6. PICK u \in TaskType :
            /\ u.todo = Tail(t.todo) /\ u.node = t.node /\ u.out = t.out
            /\ u.tracks = t.tracks /\ u.proj = t.proj /\ u.gen = t.gen
            /\ task' = [task EXCEPT ![c] = IF u.todo = <<>> THEN NoTask ELSE u]
    BY <2>2, <2>4, <2>5, AdvanceFollows
  <2>7. Built(u.proj, queue[n])
    BY <2>1, <2>3, <2>6 DEF Built, ProjectionFrom
  <2>8. \A e : Due(u, queue[n], transport[n], e)
    <3>1. Head(task[c].todo) \in {"go_to", "next", "previous", "load"}
      BY <1>1, <1>2
    <3>2. u.todo = Tail(task[c].todo)
      BY <2>3, <2>6
    <3> QED
      BY <1>3, <2>7, <3>1, <3>2, DueLoad
  <2> QED
    BY <1>2, <1>3, <1>5, <2>3, <2>6, <2>8, QuietFollows
<1>7. CASE i = None
  <2>1. task' = [task EXCEPT ![c] = NoTask]
    BY <1>1, <1>7 DEF GoTo, Abort
  <2>2. NoTask.todo = <<>>
    BY DEF NoTask
  <2>3. \A e : Due(task[c], queue[n], transport[n], e) => Due(NoTask, queue[n], transport[n], e)
    <3>1. task[c].todo \in Settled
      BY <1>1, <1>2, <1>3, PlanSteps
    <3> QED
      BY <2>2, <3>1, DueOf DEF Due
  <2>4. task' = [task EXCEPT ![c] = IF NoTask.todo = <<>> THEN NoTask ELSE NoTask]
    BY <2>1
  <2> QED
    BY <1>2, <1>3, <1>5, <2>2, <2>3, <2>4, QuietFollows
<1> QED
  BY <1>6, <1>7

LEMMA LoadFollows ==
  ASSUME MirrorInv, OneAtATime, NEW c \in Clients, Load(c)
  PROVE  OnSelected' /\ Courses'
<1> DEFINE n == task[c].node
           r == [ProjectionFrom(queue[n], index[n]) EXCEPT !.loaded = Len(queue[n])]
           t == [task[c] EXCEPT !.out = n, !.proj = r]
<1>1. ~Idle(c) /\ Head(task[c].todo) = "load"
  BY DEF Load, At
<1>2. task[c] \in TaskType /\ task[c].todo \in Plans /\ n = selected /\ n \in Nodes
  BY <1>1, Running
<1>3. /\ selected' = selected /\ queue' = queue /\ transport' = transport /\ channel' = channel
      /\ UNCHANGED <<mpd, storing, nodeGen>>
  BY DEF Load, coreVars, nodeVars
<1>4. queue[n] \in Seq(Tracks) /\ index[n] \in Index /\ ValidIndex(index[n], queue[n])
  BY <1>2 DEF MirrorInv, IndexInv, TypeOK, IndexInRange
<1>5. r \in ProjectionType /\ Built(r, queue[n])
  <2>1. ProjectionFrom(queue[n], index[n]) \in ProjectionType /\ Len(queue[n]) \in Nat
    BY <1>4, SuffixType
  <2>2. r \in ProjectionType
    BY <2>1 DEF ProjectionType
  <2>3. r.start = index[n] /\ r.paths = Suffix(queue[n], index[n])
    BY DEF ProjectionFrom
  <2> QED
    BY <1>4, <2>2, <2>3 DEF Built
<1> HIDE DEF r
<1>6. t \in TaskType
  BY <1>2, <1>5, TaskUpdateType
<1>7. t.todo = task[c].todo /\ t.proj = r /\ t.node = n /\ t.out = n
  BY <1>2 DEF TaskType
<1>8. Advance(c, t) /\ t.todo # <<>>
  BY <1>1, <1>7 DEF Load, Idle, r
<1> HIDE DEF t
<1>9. PICK u \in TaskType :
          /\ u.todo = Tail(t.todo) /\ u.node = t.node /\ u.out = t.out
          /\ u.tracks = t.tracks /\ u.proj = t.proj /\ u.gen = t.gen
          /\ task' = [task EXCEPT ![c] = IF u.todo = <<>> THEN NoTask ELSE u]
  BY <1>6, <1>8, AdvanceFollows
<1>10. \A e : Due(u, queue[n], transport[n], e)
  BY <1>1, <1>2, <1>5, <1>7, <1>9, DueLoad
<1> QED
  BY <1>1, <1>2, <1>3, <1>7, <1>9, <1>10, QuietFollows

\* A step that only advances its task, with the task's fields as they are or out changed.
LEMMA RestOf ==
  ASSUME MirrorInv, OneAtATime, NEW c \in Clients, ~Idle(c), Advance(c, task[c])
  PROVE  \E u \in TaskType :
            /\ Continues(task[c], u) /\ u.node = selected /\ u.out = task[c].out
            /\ u.proj = task[c].proj /\ u.gen = task[c].gen
            /\ task' = [task EXCEPT ![c] = IF u.todo = <<>> THEN NoTask ELSE u]
<1>1. task[c] \in TaskType /\ task[c].todo \in Plans /\ task[c].node = selected
  BY Running
<1>2. task[c].todo # <<>>
  BY DEF Idle
<1>3. PICK u \in TaskType :
            /\ u.todo = Tail(task[c].todo) /\ u.node = task[c].node /\ u.out = task[c].out
            /\ u.tracks = task[c].tracks /\ u.proj = task[c].proj /\ u.gen = task[c].gen
            /\ task' = [task EXCEPT ![c] = IF u.todo = <<>> THEN NoTask ELSE u]
  BY <1>1, <1>2, AdvanceFollows
<1> QED
  BY <1>1, <1>3 DEF Continues

\* Any but the first steps of select_node have the selected node's output.
LEMMA OutOf ==
  ASSUME MirrorInv, OneAtATime, NEW c \in Clients, ~Idle(c)
  PROVE  Head(task[c].todo) \notin {"stop", "load"} => task[c].out = selected
<1>1. task[c].todo \in Plans /\ (task[c].out = selected \/ task[c].todo \in Elsewhere)
  BY Running
<1>2. task[c].todo \in Elsewhere => Head(task[c].todo) \in {"stop", "load"}
  BY <1>1, PlanSteps
<1> QED
  BY <1>1, <1>2

LEMMA RebuildFollows ==
  ASSUME MirrorInv, OneAtATime, NEW c \in Clients, Rebuild(c)
  PROVE  OnSelected' /\ Courses'
<1> DEFINE s == selected
           g == transport[s].gen + 1
           t == [task[c] EXCEPT !.gen = g]
<1>1. ~Idle(c) /\ Head(task[c].todo) = "rebuild"
  BY DEF Rebuild, At
<1>2. /\ task[c] \in TaskType /\ task[c].todo \in Plans /\ task[c].node = s /\ s \in Nodes
      /\ task[c].out = s
  BY <1>1, Running, OutOf
<1>3. /\ selected' = selected /\ queue' = queue /\ UNCHANGED <<channel, mpd, storing, nodeGen>>
      /\ transport' = [transport EXCEPT ![s] = [gen    |-> g,
                                                start  |-> task[c].proj.start,
                                                loaded |-> task[c].proj.loaded]]
      /\ Advance(c, t)
  BY <1>2 DEF Rebuild, nodeVars
<1>4. transport \in [Nodes -> [gen : Nat, start : Index, loaded : Nat]]
  BY DEF MirrorInv, IndexInv, TypeOK
<1>5. g \in Nat
  BY <1>2, <1>4
<1>6. /\ transport'[s].gen = g /\ transport'[s].start = task[c].proj.start
      /\ \A n \in Nodes \ {s} : transport'[n] = transport[n]
  BY <1>2, <1>3, <1>4
<1> HIDE DEF g
<1>7. t \in TaskType /\ t.todo = task[c].todo /\ t.node = s /\ t.out = s /\ t.gen = g
      /\ t.tracks = task[c].tracks /\ t.proj = task[c].proj
  BY <1>2, <1>5, TaskUpdateType DEF TaskType
<1>8. t.todo # <<>>
  BY <1>1, <1>7 DEF Idle
<1> HIDE DEF t
<1>9. PICK u \in TaskType :
          /\ u.todo = Tail(t.todo) /\ u.node = t.node /\ u.out = t.out
          /\ u.tracks = t.tracks /\ u.proj = t.proj /\ u.gen = t.gen
          /\ task' = [task EXCEPT ![c] = IF u.todo = <<>> THEN NoTask ELSE u]
  BY <1>3, <1>7, <1>8, AdvanceFollows
<1>10. Continues(task[c], u)
  BY <1>2, <1>7, <1>9 DEF Continues
<1>11. \A e \in View : Due(task[c], queue[s], transport[s], e)
                         => Due(u, queue'[s], transport'[s], e)
  BY <1>1, <1>3, <1>6, <1>7, <1>9, <1>10, DueRebuild
<1> QED
  BY <1>1, <1>3, <1>6, <1>7, <1>9, <1>11, QuietFollows

LEMMA ReadOutputsFollows ==
  ASSUME MirrorInv, OneAtATime, NEW c \in Clients, ReadOutputs(c)
  PROVE  OnSelected' /\ Courses'
<1> DEFINE s == selected
           t == [task[c] EXCEPT !.out = s]
<1>1. ~Idle(c) /\ Head(task[c].todo) = "outputs"
  BY DEF ReadOutputs, At
<1>2. task[c] \in TaskType /\ task[c].todo \in Plans /\ task[c].node = s /\ s \in Nodes
  BY <1>1, Running
<1>3. /\ selected' = selected /\ queue' = queue /\ transport' = transport
      /\ UNCHANGED <<channel, mpd, storing, nodeGen>>
      /\ Advance(c, t)
  BY DEF ReadOutputs, nodeVars, coreVars
<1>4. t \in TaskType /\ t.todo = task[c].todo /\ t.node = s /\ t.out = s
      /\ t.tracks = task[c].tracks /\ t.proj = task[c].proj /\ t.gen = task[c].gen
  BY <1>2, TaskUpdateType DEF TaskType
<1>5. t.todo # <<>>
  BY <1>1, <1>4 DEF Idle
<1> HIDE DEF t
<1>6. PICK u \in TaskType :
          /\ u.todo = Tail(t.todo) /\ u.node = t.node /\ u.out = t.out
          /\ u.tracks = t.tracks /\ u.proj = t.proj /\ u.gen = t.gen
          /\ task' = [task EXCEPT ![c] = IF u.todo = <<>> THEN NoTask ELSE u]
  BY <1>3, <1>4, <1>5, AdvanceFollows
<1>7. Continues(task[c], u)
  BY <1>2, <1>4, <1>6 DEF Continues
<1>8. \A e \in View : Due(task[c], queue[s], transport[s], e)
                         => Due(u, queue'[s], transport'[s], e)
  BY <1>1, <1>3, <1>4, <1>6, <1>7, DueOutputs
<1> QED
  BY <1>1, <1>3, <1>4, <1>6, <1>8, QuietFollows

\* The steps that write to the core's state of the selected node.
LEMMA WriteFollows ==
  ASSUME MirrorInv, OneAtATime, NEW c \in Clients,
         Push(c) \/ Extend(c) \/ Wipe(c) \/ Replace(c) \/ StartIndex(c)
  PROVE  OnSelected' /\ Courses'
<1> DEFINE s == selected
           h == Head(task[c].todo)
<1>1. ~Idle(c) /\ h \in {"push", "extend", "wipe", "replace", "start"} /\ Advance(c, task[c])
  BY DEF Push, Extend, Wipe, Replace, StartIndex, At
<1>2. /\ task[c] \in TaskType /\ task[c].todo \in Plans /\ task[c].node = s /\ s \in Nodes
      /\ task[c].out = s
  BY <1>1, Running, OutOf
<1>3. selected' = selected /\ UNCHANGED <<channel, mpd, storing, nodeGen>>
  BY DEF Push, Extend, Wipe, Replace, StartIndex, nodeVars
<1>4. PICK u \in TaskType :
            /\ Continues(task[c], u) /\ u.node = s /\ u.out = s
            /\ u.proj = task[c].proj /\ u.gen = task[c].gen
            /\ task' = [task EXCEPT ![c] = IF u.todo = <<>> THEN NoTask ELSE u]
  BY <1>1, <1>2, RestOf
<1>5. /\ queue \in [Nodes -> Seq(Tracks)]
      /\ transport \in [Nodes -> [gen : Nat, start : Index, loaded : Nat]]
      /\ task[c].tracks \in Seq(Tracks)
  BY <1>2 DEF MirrorInv, IndexInv, TypeOK, TaskType
<1>6. CASE Push(c)
  <2>1. /\ queue'[s] = queue[s] \o task[c].tracks /\ transport' = transport
        /\ \A n \in Nodes \ {s} : queue'[n] = queue[n]
    BY <1>2, <1>5, <1>6 DEF Push
  <2>2. Head(task[c].todo) = "push"
    BY <1>6 DEF Push, At
  <2>3. \A e \in View : Due(task[c], queue[s], transport[s], e)
                         => Due(u, queue'[s], transport'[s], e)
    BY <1>2, <1>4, <1>5, <2>1, <2>2, DuePush
  <2> QED
    BY <1>1, <1>3, <1>4, <2>1, <2>3, QuietFollows
<1>7. CASE Extend(c)
  <2>1. /\ transport'[s].gen = transport[s].gen /\ transport'[s].start = transport[s].start
        /\ \A n \in Nodes \ {s} : transport'[n] = transport[n]
        /\ queue' = queue
    BY <1>2, <1>5, <1>7 DEF Extend
  <2>2. Head(task[c].todo) = "extend"
    BY <1>7 DEF Extend, At
  <2>3. \A e \in View : Due(task[c], queue[s], transport[s], e)
                         => Due(u, queue'[s], transport'[s], e)
    BY <1>4, <2>1, <2>2, DueQuiet
  <2> QED
    BY <1>1, <1>3, <1>4, <2>1, <2>3, QuietFollows
<1>8. CASE Wipe(c)
  <2>1. /\ queue'[s] = <<>> /\ transport' = transport
        /\ \A n \in Nodes \ {s} : queue'[n] = queue[n]
    BY <1>2, <1>5, <1>8 DEF Wipe
  <2>2. Head(task[c].todo) = "wipe"
    BY <1>8 DEF Wipe, At
  <2>3. \A e \in View : Due(task[c], queue[s], transport[s], e)
                         => Due(u, queue'[s], transport'[s], e)
    BY <1>4, <2>1, <2>2, DueWipe
  <2> QED
    BY <1>1, <1>3, <1>4, <2>1, <2>3, QuietFollows
<1>9. CASE Replace(c)
  <2>1. /\ queue'[s] = task[c].tracks /\ transport' = transport
        /\ \A n \in Nodes \ {s} : queue'[n] = queue[n]
    BY <1>2, <1>5, <1>9 DEF Replace
  <2>2. Head(task[c].todo) = "replace"
    BY <1>9 DEF Replace, At
  <2>3. \A e \in View : Due(task[c], queue[s], transport[s], e)
                         => Due(u, queue'[s], transport'[s], e)
    BY <1>4, <2>1, <2>2, DueReplace
  <2> QED
    BY <1>1, <1>3, <1>4, <2>1, <2>3, QuietFollows
<1>10. CASE StartIndex(c)
  <2>1. queue' = queue /\ transport' = transport
    BY <1>10 DEF StartIndex
  <2>2. Head(task[c].todo) = "start"
    BY <1>10 DEF StartIndex, At
  <2>3. \A e \in View : Due(task[c], queue[s], transport[s], e)
                         => Due(u, queue'[s], transport'[s], e)
    BY <1>4, <2>1, <2>2, DueQuiet
  <2> QED
    BY <1>1, <1>3, <1>4, <2>1, <2>3, QuietFollows
<1> QED
  BY <1>6, <1>7, <1>8, <1>9, <1>10

\* What a task sends.
LEMMA CommandSent ==
  ASSUME NEW t \in TaskType, Head(t.todo) \in {"play", "stop", "set_queue", "add"}
  PROVE  LET cmd == CommandOf(t)
             h   == Head(t.todo)
         IN  /\ cmd \in Loads /\ cmd.type = h
             /\ h = "set_queue" => cmd.paths = t.proj.paths /\ cmd.gen = t.gen
             /\ h = "add" => cmd.paths = t.tracks
             /\ h \in {"play", "stop"} => \A e : After(e, cmd) = e
<1> DEFINE h == Head(t.todo)
<1>1. t.proj.paths \in Seq(Tracks) /\ t.gen \in Nat /\ t.tracks \in Seq(Tracks)
  BY DEF TaskType, ProjectionType
<1>2. CASE h = "set_queue"
  <2>1. CommandOf(t) = [type |-> "set_queue", paths |-> t.proj.paths, gen |-> t.gen]
    BY <1>2 DEF CommandOf
  <2> QED
    BY <1>1, <1>2, <2>1 DEF Loads
<1>3. CASE h = "add"
  <2>1. CommandOf(t) = [type |-> "add", paths |-> t.tracks]
    BY <1>3 DEF CommandOf
  <2> QED
    BY <1>1, <1>3, <2>1 DEF Loads
<1>4. CASE h \in {"play", "stop"}
  <2>1. CommandOf(t) = [type |-> h]
    BY <1>4 DEF CommandOf
  <2>2. [type |-> h] \in Loads
    BY <1>4 DEF Loads
  <2>3. \A e : After(e, [type |-> h]) = e
    BY <1>4 DEF After
  <2> QED
    BY <1>4, <2>1, <2>2, <2>3
<1> QED
  BY <1>2, <1>3, <1>4

LEMMA SendFollows ==
  ASSUME MirrorInv, OneAtATime, NEW c \in Clients, Send(c)
  PROVE  /\ OnSelected' /\ Courses'
         /\ channel' \in [Nodes -> Seq(Loads)]
<1> DEFINE s   == selected
           h   == Head(task[c].todo)
           cmd == CommandOf(task[c])
<1>0. PICK n : n = task[c].out
  OBVIOUS
<1>1. ~Idle(c) /\ h \in CommandTypes /\ Advance(c, task[c])
  BY DEF Send, Sending, At
<1>2. /\ task[c] \in TaskType /\ task[c].todo \in Plans /\ task[c].node = s /\ s \in Nodes
      /\ n \in Nodes
  BY <1>0, <1>1, Running DEF TaskType
<1>3. h \in {"play", "stop", "set_queue", "add"}
  <2>1. h \notin {"remove", "move_track"}
    BY <1>2, PlanSteps
  <2> QED
    BY <1>1, <2>1 DEF CommandTypes
<1>4. /\ cmd \in Loads /\ cmd.type = h
      /\ h = "set_queue" => cmd.paths = task[c].proj.paths /\ cmd.gen = task[c].gen
      /\ h = "add" => cmd.paths = task[c].tracks
      /\ h \in {"play", "stop"} => \A e : After(e, cmd) = e
  BY <1>2, <1>3, CommandSent, Zenon
<1>5. /\ selected' = s /\ queue' = queue /\ transport' = transport
      /\ UNCHANGED <<mpd, storing, nodeGen>>
      /\ channel' = [channel EXCEPT ![n] = Append(@, cmd)]
  BY <1>0 DEF Send, coreVars, nodeVars
<1> HIDE DEF cmd
<1>6. channel \in [Nodes -> Seq(Loads)]
  BY DEF MirrorInv
<1>7. /\ channel'[n] = Append(channel[n], cmd)
      /\ \A m \in Nodes \ {n} : channel'[m] = channel[m]
      /\ \A m \in Nodes : Held(m)' = Held(m)
  BY <1>2, <1>5, <1>6 DEF Held
<1>8. channel' \in [Nodes -> Seq(Loads)]
  <2>1. Append(channel[n], cmd) \in Seq(Loads)
    BY <1>2, <1>4, <1>6, AppendProperties
  <2> QED
    BY <1>5, <1>6, <2>1
<1>9. PICK u \in TaskType :
            /\ Continues(task[c], u) /\ u.node = s /\ u.out = n
            /\ u.proj = task[c].proj /\ u.gen = task[c].gen
            /\ task' = [task EXCEPT ![c] = IF u.todo = <<>> THEN NoTask ELSE u]
  BY <1>0, <1>1, <1>2, RestOf
<1>10. \A e \in View : Leads(Held(n), channel[n], e)
          => /\ After(e, cmd) \in View
             /\ Leads(Held(n)', channel'[n], After(e, cmd))
  <2> SUFFICES ASSUME NEW e \in View, Leads(Held(n), channel[n], e)
               PROVE  /\ After(e, cmd) \in View
                      /\ Leads(Held(n)', channel'[n], After(e, cmd))
    OBVIOUS
  <2>1. After(e, cmd) \in View
    BY <1>4, AfterType
  <2>2. Leads(Held(n), Append(channel[n], cmd), After(e, cmd))
    BY <1>2, <1>4, <1>6, LeadsOn
  <2> QED
    BY <1>2, <1>7, <2>1, <2>2
<1>11. \A m \in Nodes \ {n} : \A e : Leads(Held(m), channel[m], e)
          => Leads(Held(m)', channel'[m], e)
  BY <1>7
<1>12. CASE h = "stop"
  <2>1. u.todo \in Elsewhere
    BY <1>2, <1>9, <1>12, PlanSteps DEF Continues
  <2>2. \A m \in Nodes : \A e \in View : Leads(Held(m), channel[m], e)
          => Leads(Held(m)', channel'[m], e)
    <3> TAKE m \in Nodes
    <3>1. CASE m = n
      BY <1>4, <1>10, <1>12, <3>1
    <3>2. CASE m # n
      BY <1>11, <3>2
    <3> QED
      BY <3>1, <3>2
  <2>3. \A m \in Nodes \ {s} :
          /\ queue'[m] = queue[m] /\ transport'[m] = transport[m]
          /\ \A e \in View : Leads(Held(m), channel[m], e) => Leads(Held(m)', channel'[m], e)
    BY <1>5, <2>2
  <2>4. \A e \in View : Due(task[c], queue[s], transport[s], e)
                         => Due(u, queue'[s], transport'[s], e)
    BY <1>5, <1>9, <1>12, DueQuiet
  <2>5. \A e \in View :
          /\ Leads(Held(s), channel[s], e) /\ Due(task[c], queue[s], transport[s], e)
          => \E f \in View : /\ Leads(Held(s)', channel'[s], f)
                             /\ Due(u, queue'[s], transport'[s], f)
    BY <1>2, <1>5, <2>2, <2>4
  <2> QED
    BY <1>1, <1>5, <1>8, <1>9, <2>1, <2>3, <2>5, StepFollows
<1>13. CASE h # "stop"
  <2>1. n = s
    BY <1>0, <1>1, <1>3, <1>13, OutOf
  <2>2. \A m \in Nodes \ {s} :
          /\ queue'[m] = queue[m] /\ transport'[m] = transport[m]
          /\ \A e \in View : Leads(Held(m), channel[m], e) => Leads(Held(m)', channel'[m], e)
    BY <1>5, <1>11, <2>1
  <2>3. \A e \in View : Due(task[c], queue[s], transport[s], e)
                         => Due(u, queue[s], transport[s], After(e, cmd))
    <3>1. CASE h = "play"
      BY <1>4, <1>9, <3>1, DueQuiet
    <3>2. CASE h = "add"
      BY <1>4, <1>9, <3>2, DueAdd
    <3>3. CASE h = "set_queue"
      BY <1>4, <1>9, <3>3, DueSetQueue
    <3> QED
      BY <1>3, <1>13, <3>1, <3>2, <3>3
  <2>4. \A e \in View :
          /\ Leads(Held(s), channel[s], e) /\ Due(task[c], queue[s], transport[s], e)
          => \E f \in View : /\ Leads(Held(s)', channel'[s], f)
                             /\ Due(u, queue'[s], transport'[s], f)
    BY <1>5, <1>10, <2>1, <2>3
  <2> QED
    BY <1>1, <1>5, <1>8, <1>9, <2>1, <2>2, <2>4, StepFollows
<1> QED
  BY <1>12, <1>13

\* Every step of a task that is not a timeout.
LEMMA TaskStepFollows ==
  ASSUME MirrorInv, OneAtATime, NEW c \in Clients, TaskStep(c), ~SendTimeout(c)
  PROVE  /\ OnSelected' /\ Courses'
         /\ channel' \in [Nodes -> Seq(Loads)]
<1>1. CASE Send(c)
  BY <1>1, SendFollows
<1>2. CASE Shrink(c)
  <2>1. ~Idle(c) /\ Head(task[c].todo) = "shrink"
    BY <1>2 DEF Shrink, At
  <2> QED
    BY <2>1, Running, PlanSteps
<1>3. CASE ~Send(c) /\ ~Shrink(c)
  <2>1. OnSelected' /\ Courses'
    BY <1>3, GoToFollows, LoadFollows, RebuildFollows, ReadOutputsFollows, WriteFollows
       DEF TaskStep
  <2>2. UNCHANGED channel
    BY <1>3 DEF TaskStep, GoToTarget, GoTo, Rebuild, ReadOutputs, Push, Extend, Wipe, Replace,
                StartIndex, Load
  <2> QED
    BY <2>1, <2>2 DEF MirrorInv
<1> QED
  BY <1>1, <1>2, <1>3

-----------------------------------------------------------------------------
(* The steps of the node keep it.                                          *)

\* What a node holds after the next command is what it was to hold.
LEMMA ExecuteFollows ==
  ASSUME MirrorInv, NEW n \in Nodes, ExecuteCommand(n)
  PROVE  /\ channel'[n] = Tail(channel[n])
         /\ Held(n)' = After(Held(n), Head(channel[n]))
<1> DEFINE cmd == Head(channel[n])
<1>1. /\ channel \in [Nodes -> Seq(Loads)] /\ mpd[n] \in MpdType /\ nodeGen[n] \in Nat
      /\ mpd \in [Nodes -> MpdType] /\ storing \in [Nodes -> Index]
  BY DEF MirrorInv, IndexInv, TypeOK
<1>2. cmd \in Loads
  BY <1>1, HeadTailProperties DEF ExecuteCommand
<1>3. /\ channel'[n] = Tail(channel[n]) /\ storing[n] = None /\ nodeGen' = nodeGen
      /\ mpd'[n] = MpdAfter(mpd[n], cmd)
      /\ storing'[n] = IF cmd.type = "set_queue" THEN cmd.gen ELSE None
  BY <1>1 DEF ExecuteCommand
<1> HIDE DEF cmd
<1>4. Held(n) = [queue |-> mpd[n].queue, gen |-> nodeGen[n]]
  BY <1>3 DEF Held
<1>5. Held(n)' = [queue |-> MpdAfter(mpd[n], cmd).queue,
                  gen   |-> IF storing'[n] = None THEN nodeGen[n] ELSE storing'[n]]
  BY <1>3 DEF Held
<1>6. CASE cmd.type = "set_queue"
  <2>1. cmd.gen \in Nat /\ cmd.gen # None
    BY <1>2, <1>6 DEF Loads, None
  <2>2. MpdAfter(mpd[n], cmd).queue = cmd.paths
    BY <1>6 DEF MpdAfter
  <2>3. After(Held(n), cmd) = [queue |-> cmd.paths, gen |-> cmd.gen]
    BY <1>6 DEF After
  <2> QED
    BY <1>3, <1>5, <1>6, <2>1, <2>2, <2>3 DEF cmd
<1>7. CASE cmd.type = "add"
  <2>1. MpdAfter(mpd[n], cmd).queue = mpd[n].queue \o cmd.paths
    BY <1>1, <1>7 DEF MpdAfter, MpdType
  <2>2. After(Held(n), cmd) = [queue |-> mpd[n].queue \o cmd.paths, gen |-> nodeGen[n]]
    <3>1. \A q, g : After([queue |-> q, gen |-> g], cmd) = [queue |-> q \o cmd.paths, gen |-> g]
      BY <1>7 DEF After
    <3> QED
      BY <1>4, <3>1
  <2> QED
    BY <1>3, <1>5, <1>7, <2>1, <2>2 DEF cmd
<1>8. CASE cmd.type \in {"play", "stop"}
  <2>1. MpdAfter(mpd[n], cmd).queue = mpd[n].queue
    BY <1>1, <1>8 DEF MpdAfter, MpdType
  <2>2. After(Held(n), cmd) = Held(n)
    BY <1>8 DEF After
  <2> QED
    BY <1>3, <1>4, <1>5, <1>8, <2>1, <2>2 DEF cmd
<1> QED
  BY <1>2, <1>3, <1>6, <1>7, <1>8 DEF Loads

LEMMA NodeStepFollows ==
  ASSUME MirrorInv, ~FaultyMpd, NEW n \in Nodes, NodeStep(n)
  PROVE  /\ OnSelected' /\ Courses'
         /\ channel' \in [Nodes -> Seq(Loads)]
<1>1. /\ UNCHANGED <<task, queue, transport, selected>>
      /\ \A m \in Nodes \ {n} : /\ channel'[m] = channel[m] /\ mpd'[m] = mpd[m]
                                /\ storing'[m] = storing[m] /\ nodeGen'[m] = nodeGen[m]
  BY DEF NodeStep, ExecuteCommand, StoreGeneration, CommandFails, SongEnds, PollStatus, Report,
         ReceiveUpdate, ApplyUpdate, coreVars, nodeVars, MirrorInv, IndexInv, TypeOK
<1>2. channel' \in [Nodes -> Seq(Loads)] /\ (channel' = channel \/ ExecuteCommand(n))
  <2>1. channel \in [Nodes -> Seq(Loads)]
    BY DEF MirrorInv
  <2>2. CASE ExecuteCommand(n)
    <3>1. channel' = [channel EXCEPT ![n] = Tail(channel[n])] /\ channel[n] # <<>>
      BY <2>2 DEF ExecuteCommand
    <3>2. Tail(channel[n]) \in Seq(Loads)
      BY <2>1, <3>1, HeadTailProperties
    <3> QED
      BY <2>1, <2>2, <3>1, <3>2
  <2>3. CASE ~ExecuteCommand(n)
    BY <2>1, <2>3 DEF NodeStep, StoreGeneration, CommandFails, SongEnds, PollStatus, Report,
                      ReceiveUpdate, ApplyUpdate
  <2> QED
    BY <2>2, <2>3
<1>3. \A e \in View : Leads(Held(n), channel[n], e) => Leads(Held(n)', channel'[n], e)
  <2>1. CASE ExecuteCommand(n)
    <3>1. channel[n] # <<>> /\ channel[n] \in Seq(Loads)
      BY <2>1 DEF ExecuteCommand, MirrorInv
    <3>2. Held(n)' = After(Held(n), Head(channel[n])) /\ channel'[n] = Tail(channel[n])
      BY <2>1, ExecuteFollows
    <3> QED
      BY <3>1, <3>2, LeadsFrom
  <2>2. CASE StoreGeneration(n)
    <3>1. /\ storing[n] # None /\ nodeGen'[n] = storing[n] /\ storing'[n] = None
          /\ mpd' = mpd /\ channel' = channel
      BY <2>2 DEF StoreGeneration, MirrorInv, IndexInv, TypeOK
    <3>2. Held(n)' = Held(n)
      BY <3>1 DEF Held
    <3> QED
      BY <3>1, <3>2
  <2>3. CASE SongEnds(n)
    <3>1. /\ mpd'[n].queue = mpd[n].queue /\ storing' = storing /\ nodeGen' = nodeGen
          /\ channel' = channel
      BY <2>3 DEF SongEnds, MirrorInv, IndexInv, TypeOK, MpdType
    <3>2. Held(n)' = Held(n)
      BY <3>1 DEF Held
    <3> QED
      BY <3>1, <3>2
  <2>4. CASE PollStatus(n) \/ Report(n) \/ ReceiveUpdate(n) \/ ApplyUpdate(n)
    <3>1. UNCHANGED <<channel, mpd, storing, nodeGen>>
      BY <2>4 DEF PollStatus, Report, ReceiveUpdate, ApplyUpdate, nodeVars
    <3>2. Held(n)' = Held(n) /\ channel'[n] = channel[n]
      BY <3>1 DEF Held
    <3> QED
      BY <3>2
  <2> QED
    BY <2>1, <2>2, <2>3, <2>4 DEF NodeStep, CommandFails
<1>4. ASSUME NEW m \in Nodes
      PROVE  \E e \in View : Leads(Held(m)', channel'[m], e) /\ Expected(m, e)'
  <2>1. PICK e \in View : Leads(Held(m), channel[m], e) /\ Expected(m, e)
    BY Zenon DEF MirrorInv, Courses
  <2>2. Leads(Held(m)', channel'[m], e)
    <3>1. CASE m = n
      BY <1>3, <2>1, <3>1
    <3>2. CASE m # n
      <4>1. Held(m)' = Held(m) /\ channel'[m] = channel[m]
        BY <1>1, <3>2 DEF Held
      <4> QED
        BY <2>1, <4>1
    <3> QED
      BY <3>1, <3>2
  <2>3. Expected(m, e)'
    BY <1>1, <2>1 DEF Expected, Busy, Idle
  <2> QED
    BY <2>2, <2>3
<1>5. OnSelected'
  BY <1>1 DEF MirrorInv, OnSelected, Idle
<1> QED
  BY <1>2, <1>4, <1>5 DEF Courses

-----------------------------------------------------------------------------
(* The starts of the operations keep it.                                   *)

\* The operations that leave the list as it is, replace it or add to it.
OpsAreLoads == Ops \cap {"remove", "move"} = {}

\* What the start of an operation has to show: it is the only one.
LEMMA StartFollows ==
  ASSUME MirrorInv, OneAtATime', NEW c \in Clients, Idle(c), NEW t,
         task' = [task EXCEPT ![c] = t], selected' \in Nodes,
         UNCHANGED <<queue, transport, channel, mpd, storing, nodeGen>>,
         t.todo # <<>> => /\ t.node = selected'
                          /\ (t.out = selected' \/ t.todo \in Elsewhere)
                          /\ \A e \in View : Agreed(queue[selected'], transport[selected'], e)
                               => Due(t, queue[selected'], transport[selected'], e),
         t.todo = <<>> => selected' = selected
  PROVE  OnSelected' /\ Courses'
<1>1. task'[c] = t /\ \A d \in Clients \ {c} : task'[d] = task[d]
  BY DEF MirrorInv, IndexInv, TypeOK
<1>2. \A n \in Nodes : Held(n)' = Held(n)
  BY DEF Held
<1>3. CASE t.todo = <<>>
  <2>1. \A d \in Clients : (~Idle(d))' => ~Idle(d) /\ task'[d] = task[d]
    BY <1>1, <1>3, Zenon DEF Idle
  <2>2. \A d \in Clients : ~Idle(d) => (~Idle(d))'
    BY <1>1, <1>3, Zenon DEF Idle
  <2>3. OnSelected'
    BY <1>3, <2>1, Zenon DEF MirrorInv, OnSelected
  <2>4. ASSUME NEW n \in Nodes
        PROVE  \E e \in View : Leads(Held(n)', channel'[n], e) /\ Expected(n, e)'
    <3>1. PICK e \in View : Leads(Held(n), channel[n], e) /\ Expected(n, e)
      BY Zenon DEF MirrorInv, Courses
    <3>2. /\ \A d \in Clients : Busy(d, n)' => Busy(d, n) /\ task'[d] = task[d]
          /\ \A d \in Clients : Busy(d, n) => Busy(d, n)'
      BY <1>1, <1>3, <2>1, <2>2, Zenon DEF Busy, Idle
    <3>3. queue' = queue /\ transport' = transport /\ channel' = channel
      OBVIOUS
    <3>4. Expected(n, e)'
      BY <3>1, <3>2, <3>3 DEF Expected
    <3> QED
      BY <1>2, <3>1, <3>3, <3>4
  <2> QED
    BY <2>3, <2>4 DEF Courses
<1>4. CASE t.todo # <<>>
  <2>1. (~Idle(c))' /\ \A d \in Clients \ {c} : Idle(d)'
    BY <1>1, <1>4, Zenon DEF OneAtATime, Idle
  <2>2. \A d \in Clients : Idle(d)
    BY <1>1, <2>1, Zenon DEF Idle
  <2>3. OnSelected'
    BY <1>1, <1>4, <2>1, Zenon DEF OnSelected
  <2>4. ASSUME NEW n \in Nodes
        PROVE  \E e \in View : Leads(Held(n)', channel'[n], e) /\ Expected(n, e)'
    <3>1. PICK e \in View : Leads(Held(n), channel[n], e) /\ Expected(n, e)
      BY Zenon DEF MirrorInv, Courses
    <3>2. Agreed(queue[n], transport[n], e)
      BY <2>2, <3>1, Zenon DEF Expected, Busy
    <3>3. queue' = queue /\ transport' = transport /\ channel' = channel
      OBVIOUS
    <3>4. CASE n = selected'
      <4>1. Due(t, queue[n], transport[n], e)
        BY <1>4, <3>2, <3>4
      <4>2. Busy(c, n)' /\ \A d \in Clients : Busy(d, n)' => d = c
        BY <1>1, <1>4, <2>1, <3>4, Zenon DEF Busy
      <4>3. Expected(n, e)'
        BY <1>1, <3>3, <4>1, <4>2 DEF Expected
      <4> QED
        BY <1>2, <3>1, <3>3, <4>3
    <3>5. CASE n # selected'
      <4>1. \A d \in Clients : ~Busy(d, n)'
        BY <1>1, <1>4, <2>1, <3>5, Zenon DEF Busy
      <4>2. Expected(n, e)'
        BY <3>2, <3>3, <4>1 DEF Expected
      <4> QED
        BY <1>2, <3>1, <3>3, <4>2
    <3> QED
      BY <3>4, <3>5
  <2> QED
    BY <2>3, <2>4 DEF Courses
<1> QED
  BY <1>3, <1>4

LEMMA ConcatIs ==
  ASSUME NEW S, NEW p \in Seq(S), NEW q \in Seq(S), NEW r \in Seq(S),
         Len(r) = Len(p) + Len(q),
         \A k \in 1 .. Len(p) : r[k] = p[k],
         \A k \in 1 .. Len(q) : r[Len(p) + k] = q[k]
  PROVE  p \o q = r
<1>1. Len(p) \in Nat /\ Len(q) \in Nat
  OBVIOUS
<1>2. p \o q \in Seq(S) /\ Len(p \o q) = Len(r)
  BY ConcatProperties
<1>3. ASSUME NEW k \in 1 .. Len(r)
      PROVE  (p \o q)[k] = r[k]
  <2>1. CASE k <= Len(p)
    BY <1>1, <1>3, <2>1, ConcatProperties
  <2>2. CASE k > Len(p)
    <3>1. k - Len(p) \in 1 .. Len(q) /\ Len(p) + (k - Len(p)) = k
      BY <1>1, <1>3, <2>2
    <3>2. (p \o q)[k] = q[k - Len(p)]
      BY <1>1, <1>3, <2>2, ConcatProperties
    <3> QED
      BY <3>1, <3>2
  <2> QED
    BY <1>1, <1>3, <2>1, <2>2
<1> QED
  BY <1>2, <1>3, SeqEqual

LEMMA PlayStepsAfter ==
  ASSUME NEW a
  PROVE  <<a>> \o playSteps = <<a, "rebuild", "outputs", "set_queue", "outputs", "play">>
<1> DEFINE S == {a, "rebuild", "outputs", "set_queue", "play"}
           h == <<a>>
           r == <<a, "rebuild", "outputs", "set_queue", "outputs", "play">>
<1>1. h \in Seq(S) /\ playSteps \in Seq(S) /\ r \in Seq(S)
  BY DEF playSteps
<1>2. Len(h) = 1 /\ Len(playSteps) = 5 /\ Len(r) = 6
  BY DEF playSteps
<1>3. \A k \in 1 .. 1 : r[k] = h[k]
  OBVIOUS
<1>4. \A k \in 1 .. 5 : r[1 + k] = playSteps[k]
  BY DEF playSteps
<1> HIDE DEF S, h, r
<1>5. h \o playSteps = r
  <2>1. Len(r) = Len(h) + Len(playSteps)
    BY <1>2
  <2>2. \A k \in 1 .. Len(h) : r[k] = h[k]
    BY <1>2, <1>3
  <2>3. \A k \in 1 .. Len(playSteps) : r[Len(h) + k] = playSteps[k]
    BY <1>2, <1>4
  <2> QED
    BY <1>1, <2>1, <2>2, <2>3, ConcatIs, Zenon
<1> QED
  BY <1>5 DEF h, r

LEMMA FourThenOne ==
  ASSUME NEW a, NEW b, NEW c, NEW d, NEW e
  PROVE  <<a, b, c, d>> \o <<e>> = <<a, b, c, d, e>> /\ <<a, b, c, d>> \o <<>> = <<a, b, c, d>>
<1> DEFINE S == {a, b, c, d, e}
           l == <<a, b, c, d>>
           r == <<a, b, c, d, e>>
<1>1. <<e>> \in Seq(S) /\ l \in Seq(S) /\ r \in Seq(S)
  OBVIOUS
<1>2. Len(<<e>>) = 1 /\ Len(l) = 4 /\ Len(r) = 5
  OBVIOUS
<1>3. l \o <<e>> \in Seq(S) /\ Len(l \o <<e>>) = 5
  BY <1>1, <1>2, ConcatProperties
<1>4. \A k \in 1 .. 5 : (l \o <<e>>)[k] = r[k]
  BY <1>1, <1>2
<1>5. l \o <<>> = l
  BY <1>1
<1> HIDE DEF l, r, S
<1>6. l \o <<e>> = r
  BY <1>1, <1>2, <1>3, <1>4, SeqEqual
<1> QED
  BY <1>5, <1>6 DEF l, r

LEMMA RequestFollows ==
  ASSUME MirrorInv, OneAtATime', OpsAreLoads, StartsFit, NEW c \in Clients, Request(c)
  PROVE  /\ OnSelected' /\ Courses'
         /\ channel' \in [Nodes -> Seq(Loads)]
<1> USE DEF coreVars, nodeVars
<1>1. selected \in Nodes /\ channel \in [Nodes -> Seq(Loads)]
  BY DEF MirrorInv, IndexInv, TypeOK
<1>2. ASSUME NEW op, NEW t, Begin(c, op, t),
             UNCHANGED <<queue, transport, selected, channel, mpd, storing, nodeGen>>,
             t.node = selected, t.out = selected, t.todo \in Settled
      PROVE  OnSelected' /\ Courses' /\ channel' \in [Nodes -> Seq(Loads)]
  <2>1. \A e \in View : Agreed(queue[selected], transport[selected], e)
                          => Due(t, queue[selected], transport[selected], e)
    BY <1>2 DEF Due
  <2>2. t.todo # <<>>
    BY <1>2, PlanType DEF Plans
  <2>3. Idle(c) /\ task' = [task EXCEPT ![c] = t]
    BY <1>2 DEF Begin
  <2> QED
    BY <1>1, <1>2, <2>1, <2>2, <2>3, StartFollows
<1>3. \A todo : LET t == TaskOnSelected(todo)
                IN  t.todo = todo /\ t.node = selected /\ t.out = selected
  BY DEF TaskOnSelected, NoTask
<1>4. ASSUME NEW i \in Positions(queue[selected]), PlayIndex(c, i)
      PROVE  OnSelected' /\ Courses' /\ channel' \in [Nodes -> Seq(Loads)]
  <2> DEFINE t == [TaskOnSelected(<<"go_to">> \o playSteps) EXCEPT !.pos = i]
  <2>1. <<"go_to">> \o playSteps = GoToRest
    BY PlayStepsAfter, Zenon DEF GoToRest
  <2>2. t.todo = GoToRest /\ t.node = selected /\ t.out = selected
    BY <2>1 DEF TaskOnSelected, NoTask
  <2>3. GoToRest \in Settled
    BY DEF Settled
  <2> HIDE DEF t
  <2> QED
    BY <1>2, <1>4, <2>2, <2>3 DEF PlayIndex, t
<1>5. ASSUME NEW step \in {"next", "previous"}, Skip(c, step)
      PROVE  OnSelected' /\ Courses' /\ channel' \in [Nodes -> Seq(Loads)]
  <2>1. <<step>> \o playSteps \in Settled
    <3>1. <<"next">> \o playSteps = NextRest
      BY PlayStepsAfter, Zenon DEF NextRest
    <3>2. <<"previous">> \o playSteps = PreviousRest
      BY PlayStepsAfter, Zenon DEF PreviousRest
    <3>3. NextRest \in Settled /\ PreviousRest \in Settled
      BY DEF Settled
    <3> QED
      BY <1>5, <3>1, <3>2, <3>3, Zenon
  <2> QED
    BY <1>2, <1>3, <1>5, <2>1 DEF Skip
<1>6. CASE Play(c)
  <2>1. <<"play", "start">> \in Settled
    BY DEF Settled, PlayStart
  <2> QED
    BY <1>2, <1>3, <1>6, <2>1 DEF Play
<1>7. ASSUME NEW x \in Tracks, AddToQueue(c, x)
      PROVE  OnSelected' /\ Courses' /\ channel' \in [Nodes -> Seq(Loads)]
  <2> DEFINE t == [TaskOnSelected(<<"push", "outputs", "add", "outputs", "extend">>)
                      EXCEPT !.tracks = <<x>>]
  <2>1. t.todo = PushRest /\ t.node = selected /\ t.out = selected
    BY DEF TaskOnSelected, NoTask, PushRest
  <2>2. PushRest \in Settled
    BY DEF Settled
  <2> HIDE DEF t
  <2> QED
    BY <1>2, <1>7, <2>1, <2>2 DEF AddToQueue, t
<1>8. CASE ClearQueue(c)
  <2> DEFINE t == TaskOnSelected(<<"rebuild", "set_queue", "wipe">>)
  <2>1. /\ t.todo = BuildWipe /\ t.node = selected /\ t.out = selected
        /\ t.proj = NoProjection
    BY DEF TaskOnSelected, NoTask, BuildWipe
  <2>2. Idle(c) /\ task' = [task EXCEPT ![c] = t]
    BY <1>8 DEF ClearQueue, Begin
  <2> HIDE DEF t
  <2>3. BuildWipe \in Building /\ BuildWipe \in Wiping /\ BuildWipe # <<>>
    BY PlanType DEF Building, Wiping, Plans
  <2>4. Built(NoProjection, <<>>)
    BY DEF Built, NoProjection, ValidIndex, Suffix
  <2>5. \A q, r, e : Due(t, q, r, e)
    <3>1. \A q : Target(t, q) = <<>>
      BY <2>1, <2>3, Zenon DEF Target
    <3> QED
      BY <2>1, <2>3, <2>4, <3>1, Zenon DEF Due
  <2>6. UNCHANGED <<queue, transport, selected, channel, mpd, storing, nodeGen>>
    BY <1>8 DEF ClearQueue
  <2> QED
    BY <1>1, <2>1, <2>2, <2>3, <2>5, <2>6, StartFollows
<1>9. ASSUME NEW q \in InitialQueues, NEW i \in Starts, SetQueue(c, q, i)
      PROVE  OnSelected' /\ Courses' /\ channel' \in [Nodes -> Seq(Loads)]
  <2> DEFINE t == [TaskOnSelected(<<"outputs", "rebuild", "set_queue", "replace",
                                    "outputs", "play">>)
                      EXCEPT !.tracks = q, !.pos = i, !.proj = ProjectionAt(q, i)]
  <2>0. i \in Positions(q) /\ ProjectionAt(q, i) = ProjectionFrom(q, i)
    BY DEF StartsFit, ProjectionAt
  <2>1. /\ t.todo = OutReplace /\ t.node = selected /\ t.out = selected
        /\ t.tracks = q /\ t.proj = ProjectionFrom(q, i)
    BY <2>0 DEF TaskOnSelected, NoTask, OutReplace
  <2>2. Idle(c) /\ task' = [task EXCEPT ![c] = t]
    BY <1>9 DEF SetQueue, Begin
  <2> HIDE DEF t
  <2>3. /\ OutReplace \in Building /\ OutReplace \in Replacing /\ OutReplace \notin Wiping
        /\ OutReplace # <<>>
    BY PlanType, PlanTargets DEF Building, Replacing, Plans
  <2>4. Built(ProjectionFrom(q, i), q)
    BY <2>0 DEF Built, ProjectionFrom, ValidIndex
  <2>5. \A p, r, e : Due(t, p, r, e)
    <3>1. \A p : Target(t, p) = q
      BY <2>1, <2>3, Zenon DEF Target
    <3> QED
      BY <2>1, <2>3, <2>4, <3>1, Zenon DEF Due
  <2>6. UNCHANGED <<queue, transport, selected, channel, mpd, storing, nodeGen>>
    BY <1>9 DEF SetQueue
  <2> QED
    BY <1>1, <2>1, <2>2, <2>3, <2>5, <2>6, StartFollows
<1>10. ASSUME NEW mode \in RepeatModes, SetRepeat(c, mode)
       PROVE  OnSelected' /\ Courses' /\ channel' \in [Nodes -> Seq(Loads)]
  <2>1. NoTask.todo = <<>>
    BY DEF NoTask
  <2>2. Idle(c) /\ task' = [task EXCEPT ![c] = NoTask]
    BY <1>10 DEF SetRepeat, Begin
  <2>3. UNCHANGED <<queue, transport, selected, channel, mpd, storing, nodeGen>>
    BY <1>10 DEF SetRepeat
  <2> QED
    BY <1>1, <2>1, <2>2, <2>3, StartFollows
<1>11. ASSUME NEW n \in Nodes, NEW resume \in BOOLEAN, SelectNode(c, n, resume)
       PROVE  OnSelected' /\ Courses' /\ channel' \in [Nodes -> Seq(Loads)]
  <2> DEFINE todo == <<"stop", "load", "rebuild", "set_queue">>
                        \o (IF resume THEN <<"play">> ELSE <<>>)
             t    == [NoTask EXCEPT !.todo = todo, !.node = n, !.out = selected]
  <2>1. todo \in {StopOnly, StopPlay}
    <3>1. CASE resume
      BY <3>1, FourThenOne, Zenon DEF StopPlay
    <3>2. CASE ~resume
      BY <3>2, FourThenOne, Zenon DEF StopOnly
    <3> QED
      BY <3>1, <3>2
  <2>2. t.todo = todo /\ t.node = n
    BY DEF NoTask
  <2>3. Idle(c) /\ task' = [task EXCEPT ![c] = t] /\ selected' = n
    BY <1>11 DEF SelectNode, Begin
  <2>4. UNCHANGED <<queue, transport, channel, mpd, storing, nodeGen>>
    BY <1>11 DEF SelectNode
  <2> HIDE DEF t, todo
  <2>5. t.todo \in Settled /\ t.todo \in Elsewhere /\ t.todo # <<>>
    BY <2>1, <2>2, PlanType DEF Settled, Elsewhere, Plans
  <2>6. \A q, r, e : Agreed(q, r, e) => Due(t, q, r, e)
    BY <2>5 DEF Due
  <2> QED
    BY <1>1, <2>2, <2>3, <2>4, <2>5, <2>6, StartFollows
<1>12. ASSUME NEW i \in Positions(queue[selected]), RemoveFromQueue(c, i)
       PROVE  FALSE
  BY <1>12 DEF RemoveFromQueue, Begin, OpsAreLoads
<1>13. ASSUME NEW i \in Positions(queue[selected]), NEW j \in Positions(queue[selected]),
              MoveInQueue(c, i, j)
       PROVE  FALSE
  BY <1>13 DEF MoveInQueue, Begin, OpsAreLoads
<1> QED
  BY <1>4, <1>5, <1>6, <1>7, <1>8, <1>9, <1>10, <1>11, <1>12, <1>13 DEF Request

\* No command waits two seconds for its place in the channel.
NoSendTimesOut == [][\A c \in Clients : ~SendTimeout(c)]_vars

-----------------------------------------------------------------------------
(* The theorem.                                                            *)

\* At the start each node's only command is the projection of its queue.
LEMMA MirrorInit ==
  ASSUME Init
  PROVE  MirrorInv
<1>1. IndexInv
  BY IndexInvInit
<1>2. /\ queue \in [Nodes -> Seq(Tracks)] /\ index \in [Nodes -> Index] /\ TypeOK
      /\ \A n \in Nodes : ValidIndex(index[n], queue[n])
  BY <1>1 DEF IndexInv, IndexInRange, TypeOK
<1> DEFINE first(n) == [type |-> "set_queue", gen |-> 1, paths |-> Suffix(queue[n], index[n])]
<1>3. \A n \in Nodes : channel[n] = <<first(n)>> /\ Suffix(queue[n], index[n]) \in Seq(Tracks)
  BY <1>2, SuffixType DEF Init
<1>4. \A n \in Nodes : first(n) \in Loads
  BY <1>3 DEF Loads
<1> HIDE DEF first
<1>5. channel \in [Nodes -> Seq(Loads)]
  <2>1. \A n \in Nodes : <<first(n)>> \in Seq(Loads)
    BY <1>4
  <2> QED
    BY <1>3, <2>1 DEF Init, first
<1>6. \A c \in Clients : Idle(c)
  BY DEF Init, Idle, NoTask
<1>7. OnSelected
  BY <1>6 DEF OnSelected
<1>8. ASSUME NEW n \in Nodes
      PROVE  \E e \in View : Leads(Held(n), channel[n], e) /\ Expected(n, e)
  <2> DEFINE e == After(Held(n), first(n))
  <2>1. Held(n) \in View
    BY <1>2, HeldType
  <2>2. e \in View
    BY <1>4, <2>1, AfterType
  <2>3. Leads(Held(n), Append(<<>>, first(n)), e)
    BY <1>4, <2>1, LeadsNowhere, LeadsOn, EmptySeq
  <2>4. Append(<<>>, first(n)) = channel[n]
    BY <1>3
  <2>5. e = [queue |-> Suffix(queue[n], index[n]), gen |-> 1]
    BY DEF After, first
  <2>6. transport[n].gen = 1 /\ transport[n].start = index[n]
    BY DEF Init
  <2>7. Agreed(queue[n], transport[n], e)
    BY <1>2, <2>5, <2>6 DEF Agreed
  <2> HIDE DEF e
  <2>8. Expected(n, e)
    BY <1>6, <2>7, Zenon DEF Expected, Busy
  <2> QED
    BY <2>2, <2>3, <2>4, <2>8
<1> QED
  BY <1>1, <1>5, <1>7, <1>8 DEF MirrorInv, Courses

LEMMA MirrorInductive ==
  ASSUME ~FaultyMpd, OpsAreLoads, StartsFit, MirrorInv, OneAtATime, OneAtATime',
         [Next]_vars, [\A c \in Clients : ~SendTimeout(c)]_vars
  PROVE  MirrorInv'
<1>1. IndexInv'
  BY IndexInvInductive DEF MirrorInv
<1>5. CASE UNCHANGED vars
  <2>1. \A n \in Nodes : Held(n)' = Held(n)
    BY <1>5 DEF Held, vars, nodeVars
  <2>2. \A n \in Nodes : \A e \in View : Expected(n, e) => Expected(n, e)'
    BY <1>5 DEF Expected, Busy, Idle, vars, coreVars
  <2>3. channel' = channel
    BY <1>5 DEF vars
  <2>4. Courses'
    BY <2>1, <2>2, <2>3 DEF MirrorInv, Courses
  <2>5. OnSelected'
    BY <1>5 DEF MirrorInv, OnSelected, Idle, vars, coreVars
  <2> QED
    BY <1>1, <2>3, <2>4, <2>5 DEF MirrorInv
<1>2. ASSUME NEW c \in Clients, Request(c)
      PROVE  OnSelected' /\ Courses' /\ channel' \in [Nodes -> Seq(Loads)]
  BY <1>2, RequestFollows
<1>3. ASSUME NEW c \in Clients, TaskStep(c)
      PROVE  OnSelected' /\ Courses' /\ channel' \in [Nodes -> Seq(Loads)]
  <2>1. CASE UNCHANGED vars
    BY <1>5, <2>1 DEF MirrorInv
  <2>2. CASE ~SendTimeout(c)
    BY <1>3, <2>2, TaskStepFollows
  <2> QED
    BY <2>1, <2>2
<1>4. ASSUME NEW n \in Nodes, NodeStep(n)
      PROVE  OnSelected' /\ Courses' /\ channel' \in [Nodes -> Seq(Loads)]
  BY <1>4, NodeStepFollows
<1> QED
  BY <1>1, <1>2, <1>3, <1>4, <1>5 DEF Next, MirrorInv

\* With the channels empty a node has what it was led to.
LEMMA MirrorHolds ==
  ASSUME MirrorInv
  PROVE  MirrorAgrees
<1> SUFFICES ASSUME Quiescent, NEW n \in Nodes
             PROVE  /\ nodeGen[n] = transport[n].gen
                    /\ mpd[n].queue = Suffix(queue[n], transport[n].start)
  BY DEF MirrorAgrees
<1>1. PICK e \in View : Leads(Held(n), channel[n], e) /\ Expected(n, e)
  BY Zenon DEF MirrorInv, Courses
<1>2. channel[n] = <<>> /\ storing[n] = None /\ \A c \in Clients : Idle(c)
  BY DEF Quiescent
<1>3. e = Held(n)
  <2>1. Held(n) \in View
    BY HeldType DEF MirrorInv, IndexInv
  <2> QED
    BY <1>1, <1>2, <2>1, LeadsNowhere
<1>4. e.queue = mpd[n].queue /\ e.gen = nodeGen[n]
  BY <1>2, <1>3 DEF Held
<1>5. Agreed(queue[n], transport[n], e)
  BY <1>1, <1>2, Zenon DEF Expected, Busy
<1> QED
  BY <1>4, <1>5 DEF Agreed

(* Once every command has been carried out, each node reports with the     *)
(* generation the core expects and its MPD holds the queue from the        *)
(* projection's start on: for any nodes, queues and switches between them, *)
(* through play_index, next, previous, play, add, clear, set_queue,        *)
(* set_repeat and select_node, as long as the operations do not overlap,   *)
(* every command finds a place in its channel, MPD executes it and clients *)
(* start their lists at a position of the list.                            *)
THEOREM MirrorAlwaysAgrees ==
  ASSUME ~FaultyMpd, OpsAreLoads, StartsFit
  PROVE  Spec /\ []OneAtATime /\ NoSendTimesOut => []MirrorAgrees
<1>1. /\ MirrorInv /\ OneAtATime /\ OneAtATime' /\ [Next]_vars
      /\ [\A c \in Clients : ~SendTimeout(c)]_vars
      => MirrorInv'
  BY MirrorInductive
<1> QED
  BY <1>1, MirrorInit, MirrorHolds, PTL DEF Spec, NoSendTimesOut

(* A single client waits for its operation before it starts the next: its  *)
(* operations do not overlap, as the theorem above assumes.                *)
THEOREM OneClientIsAlone ==
  ASSUME \A c, d \in Clients : c = d
  PROVE  Spec => []OneAtATime
<1>1. OneAtATime
  BY DEF OneAtATime
<1> QED
  BY <1>1, PTL
=============================================================================
