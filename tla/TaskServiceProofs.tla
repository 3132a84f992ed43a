-------------------------- MODULE TaskServiceProofs --------------------------
(* Proofs about TaskService, for any tasks, workers, tool calls, clients and  *)
(* bounds, and about the Scheduler that creates tasks.                        *)
EXTENDS TaskService, Scheduler, FiniteSetTheorems, TLAPS

-----------------------------------------------------------------------------
(* Streams of events.                                                        *)

\* What an appended event changes of a stream.
LEMMA Appended ==
    ASSUME NEW s \in Seq(EventType), NEW e \in EventType
    PROVE  /\ Append(s, e) \in Seq(EventType) /\ Len(s) \in Nat
           /\ DOMAIN s = 1 .. Len(s) /\ DOMAIN Append(s, e) = 1 .. Len(s) + 1 /\ Len(Append(s, e)) = Len(s) + 1
           /\ \A i \in 1 .. Len(s) : Append(s, e)[i] = s[i]
           /\ Append(s, e)[Len(s) + 1] = e
    OBVIOUS

\* Activity tells nothing new of the state and settles nothing.
LEMMA ActivityAppended ==
    ASSUME NEW s \in Seq(EventType), NEW e \in EventType, e.to = "none"
    PROVE  /\ \A st : Tells(s, st) => Tells(Append(s, e), st)
           /\ Settled(s) => Settled(Append(s, e))
           /\ (\A i \in DOMAIN s : s[i].to \notin Terminal) => \A i \in DOMAIN Append(s, e) : Append(s, e)[i].to \notin Terminal
    <1> DEFINE a == Append(s, e)
    <1>1. /\ Len(s) \in Nat /\ DOMAIN s = 1 .. Len(s) /\ DOMAIN a = 1 .. Len(s) + 1 /\ Len(a) = Len(s) + 1
          /\ \A i \in 1 .. Len(s) : a[i] = s[i]
          /\ a[Len(s) + 1] = e
        BY Appended
    <1> HIDE DEF a
    <1>2. ASSUME NEW st, Tells(s, st) PROVE Tells(a, st)
        <2>1. CASE st = "pending" /\ \A i \in DOMAIN s : s[i].to = "none"
            BY <1>1, <2>1 DEF Tells
        <2>2. CASE \E i \in DOMAIN s : s[i].to = st /\ \A j \in (i + 1) .. Len(s) : s[j].to = "none"
            <3>1. PICK i \in DOMAIN s : s[i].to = st /\ \A j \in (i + 1) .. Len(s) : s[j].to = "none"
                BY <2>2
            <3>2. i \in DOMAIN a /\ a[i].to = st
                BY <1>1, <3>1
            <3>3. \A j \in (i + 1) .. Len(a) : a[j].to = "none"
                BY <1>1, <3>1
            <3> QED BY <3>2, <3>3 DEF Tells
        <2> QED BY <1>2, <2>1, <2>2 DEF Tells
    <1>3. Settled(s) => Settled(a)
        BY <1>1 DEF Settled
    <1>4. (\A i \in DOMAIN s : s[i].to \notin Terminal) => \A i \in DOMAIN a : a[i].to \notin Terminal
        BY <1>1 DEF Terminal
    <1> QED BY <1>2, <1>3, <1>4 DEF a

\* A state event, appended to a stream without a terminal one.
LEMMA StateAppended ==
    ASSUME NEW s \in Seq(EventType), NEW e \in EventType, \A i \in DOMAIN s : s[i].to \notin Terminal
    PROVE  /\ Tells(Append(s, e), e.to) /\ Settled(Append(s, e))
           /\ e.to \notin Terminal => \A i \in DOMAIN Append(s, e) : Append(s, e)[i].to \notin Terminal
    <1> DEFINE a == Append(s, e)
    <1>1. /\ Len(s) \in Nat /\ DOMAIN s = 1 .. Len(s) /\ DOMAIN a = 1 .. Len(s) + 1 /\ Len(a) = Len(s) + 1
          /\ \A i \in 1 .. Len(s) : a[i] = s[i]
          /\ a[Len(s) + 1] = e
        BY Appended
    <1> HIDE DEF a
    <1>2. Tells(a, e.to)
        BY <1>1 DEF Tells
    <1>3. Settled(a)
        BY <1>1 DEF Settled
    <1>4. e.to \notin Terminal => \A i \in DOMAIN a : a[i].to \notin Terminal
        BY <1>1
    <1> QED BY <1>2, <1>3, <1>4 DEF a

-----------------------------------------------------------------------------
(* One task among the others.                                                *)

\* The part of the state that is about one task.
Row(t) == <<tasks[t], log[t], token[t], cancels[t], spawn[t], agent[t], inputs[t], approvals[t], outcome[t]>>

\* What the invariant says of one task.
TaskInv(t) == LifeInv(t) /\ AskInv(t) /\ StreamInv(t)

\* A task keeps its part of the invariant while its row does not change.
LEMMA RowKeeps ==
    ASSUME NEW t \in Tasks, UNCHANGED Row(t), TaskInv(t)
    PROVE  TaskInv(t)'
    BY DEF Row, TaskInv, LifeInv, AskInv, StreamInv, Present, IsTerminal, Tells, Settled

AgentType == [phase : {"none", "queued", "taken", "over"} \cup Live, asks : Question \cup {None}, hitl : BOOLEAN]

\* The facts about one task that its steps start from.
LEMMA Facts ==
    ASSUME IInv, NEW t \in Tasks
    PROVE  /\ tasks \in [Tasks -> RecordType] /\ log \in [Tasks -> Seq(EventType)] /\ agent \in [Tasks -> AgentType]
           /\ tasks[t] \in RecordType /\ log[t] \in Seq(EventType) /\ agent[t] \in AgentType
           /\ tasks[t].seq \in Nat /\ sinkSeq[t] \in Nat /\ inputs[t] \in Nat /\ approvals[t] \in Seq(ToolCalls)
           /\ tasks[t].state \in TaskState \cup {"absent"} /\ cancels[t] \in SUBSET {"begin", "commit"}
           /\ LifeInv(t) /\ AskInv(t) /\ StreamInv(t)
    BY DEF IInv, TypeOK, AgentType, RecordType

\* What a transition leaves: the record and the stream of its task.
LEMMA TransitionEffect ==
    ASSUME IInv, NEW t \in Tasks, NEW r \in RecordType, NEW to \in TaskState, Transition(t, r, to)
    PROVE  /\ tasks' \in [Tasks -> RecordType] /\ log' \in [Tasks -> Seq(EventType)]
           /\ tasks'[t].state = to /\ tasks'[t].token = r.token /\ tasks'[t].pending = r.pending
           /\ \A u \in Tasks \ {t} : tasks'[u] = tasks[u] /\ log'[u] = log[u]
           /\ Present(t) /\ ~IsTerminal(t) => StreamInv(t)'
    <1> DEFINE n == r.seq + 1
               e == StateEvent(n, to)
               q == [r EXCEPT !.state = to, !.seq = n]
    <1>1. n \in Nat
        BY DEF RecordType
    <1> HIDE DEF n
    <1>2. e \in EventType /\ e.to = to
        BY <1>1 DEF EventType, StateEvent
    <1>3. q \in RecordType /\ q.state = to /\ q.token = r.token /\ q.pending = r.pending
        BY <1>1 DEF RecordType
    <1>4. tasks' = [tasks EXCEPT ![t] = q] /\ log' = [log EXCEPT ![t] = Append(@, e)]
        BY DEF Transition, n
    <1> HIDE DEF e, q
    <1>5. Append(log[t], e) \in Seq(EventType)
        BY <1>2, Facts, Appended
    <1>6. tasks' \in [Tasks -> RecordType] /\ log' \in [Tasks -> Seq(EventType)] /\ tasks'[t] = q /\ log'[t] = Append(log[t], e)
          /\ \A u \in Tasks \ {t} : tasks'[u] = tasks[u] /\ log'[u] = log[u]
        BY <1>3, <1>4, <1>5, Facts
    <1>7. ASSUME Present(t), ~IsTerminal(t) PROVE StreamInv(t)'
        <2>1. \A i \in DOMAIN log[t] : log[t][i].to \notin Terminal
            BY <1>7, Facts DEF StreamInv
        <2>2. /\ Tells(Append(log[t], e), to) /\ Settled(Append(log[t], e))
              /\ to \notin Terminal => \A i \in DOMAIN Append(log[t], e) : Append(log[t], e)[i].to \notin Terminal
            BY <1>2, <2>1, Facts, StateAppended
        <2>3. log'[t] = Append(log[t], e) /\ tasks'[t].state = to
            BY <1>3, <1>6
        <2> QED BY <2>2, <2>3 DEF StreamInv, Tells, Settled, Present, IsTerminal
    <1> QED BY <1>3, <1>6, <1>7

\* A stream that gets activity while its record keeps its state.
LEMMA ActivityKeeps ==
    ASSUME IInv, NEW t \in Tasks, NEW e \in EventType, e.to = "none",
           log' = [log EXCEPT ![t] = Append(@, e)], tasks'[t].state = tasks[t].state
    PROVE  /\ log' \in [Tasks -> Seq(EventType)] /\ StreamInv(t)'
           /\ \A u \in Tasks \ {t} : log'[u] = log[u]
    <1>1. log'[t] = Append(log[t], e) /\ Append(log[t], e) \in Seq(EventType)
        BY Facts, Appended
    <1>2. log' \in [Tasks -> Seq(EventType)] /\ \A u \in Tasks \ {t} : log'[u] = log[u]
        BY <1>1, Facts
    <1> DEFINE a == Append(log[t], e)
    <1>3. /\ \A st : Tells(log[t], st) => Tells(a, st)
          /\ Settled(log[t]) => Settled(a)
          /\ (\A i \in DOMAIN log[t] : log[t][i].to \notin Terminal) => \A i \in DOMAIN a : a[i].to \notin Terminal
        BY Facts, ActivityAppended
    <1> HIDE DEF a
    <1>4. log'[t] = a /\ StreamInv(t)
        BY <1>1, Facts DEF a
    <1>5. StreamInv(t)'
        BY <1>3, <1>4 DEF StreamInv, Present, IsTerminal
    <1> QED BY <1>2, <1>5

\* A stream keeps its part while neither it nor the state of its record changes.
LEMMA StreamKeeps ==
    ASSUME NEW t \in Tasks, StreamInv(t), log'[t] = log[t], tasks'[t].state = tasks[t].state
    PROVE  StreamInv(t)'
    BY DEF StreamInv, Present, IsTerminal, Tells, Settled

\* A record that ends: complete_task, or the second half of cancel_task.
LEMMA EndEffect ==
    ASSUME IInv, NEW t \in Tasks, NEW to \in Terminal, TransitionIf(Present(t) /\ ~IsTerminal(t), t, tasks[t], to)
    PROVE  /\ tasks' \in [Tasks -> RecordType] /\ log' \in [Tasks -> Seq(EventType)] /\ StreamInv(t)'
           /\ \A u \in Tasks \ {t} : tasks'[u] = tasks[u] /\ log'[u] = log[u]
           /\ tasks'[t].token = tasks[t].token
           /\ \/ tasks'[t] = tasks[t] /\ log'[t] = log[t] /\ (~Present(t) \/ IsTerminal(t))
              \/ tasks'[t].state = to /\ Present(t) /\ ~IsTerminal(t)
    <1>1. to \in TaskState /\ tasks[t] \in RecordType
        BY Facts DEF TaskState
    <1>2. CASE Present(t) /\ ~IsTerminal(t)
        <2>1. Transition(t, tasks[t], to)
            BY <1>2 DEF TransitionIf
        <2> QED BY <1>1, <1>2, <2>1, TransitionEffect
    <1>3. CASE ~(Present(t) /\ ~IsTerminal(t))
        <2>1. tasks' = tasks /\ log' = log
            BY <1>3 DEF TransitionIf, managerVars
        <2>2. StreamInv(t)'
            BY <2>1, Facts, StreamKeeps
        <2> QED BY <1>3, <2>1, <2>2, Facts
    <1> QED BY <1>2, <1>3

\* A step about one task keeps the invariant if it keeps that task's part.
LEMMA Gather ==
    ASSUME IInv, NEW t \in Tasks, TypeOK', QueueInv', \A u \in Tasks \ {t} : UNCHANGED Row(u),
           LifeInv(t)', AskInv(t)', StreamInv(t)'
    PROVE  IInv'
    <1>1. \A u \in Tasks \ {t} : TaskInv(u)'
        BY RowKeeps DEF IInv, TaskInv
    <1> QED BY <1>1 DEF IInv, TaskInv

\* The queue is left alone, and so are the tasks in it.
LEMMA QueueKeeps ==
    ASSUME IInv, queue' = queue, \A u \in Tasks : agent[u].phase = "queued" => agent'[u].phase = "queued"
    PROVE  QueueInv'
    <1>1. \A i \in DOMAIN queue : queue[i] \in Tasks
        BY DEF IInv, TypeOK
    <1> QED BY <1>1 DEF IInv, QueueInv

Phase == {"none", "queued", "taken", "over"} \cup Live

\* The agent of t moves to phase p and asks q.
Moved(t, p, q) ==
    \/ agent' = [agent EXCEPT ![t].phase = p, ![t].asks = q]
    \/ agent' = [agent EXCEPT ![t].phase = p] /\ q = agent[t].asks

\* The agent of one task moves on; the others do not.
LEMMA AgentMoves ==
    ASSUME IInv, NEW t \in Tasks, NEW p \in Phase, NEW q \in Question \cup {None}, Moved(t, p, q)
    PROVE  /\ agent' \in [Tasks -> AgentType] /\ \A u \in Tasks \ {t} : agent'[u] = agent[u]
           /\ agent'[t].phase = p /\ agent'[t].asks = q /\ agent'[t].hitl = agent[t].hitl
    <1> DEFINE r == [agent[t] EXCEPT !.phase = p, !.asks = q]
    <1>1. r \in AgentType /\ r.phase = p /\ r.asks = q /\ r.hitl = agent[t].hitl
        BY Facts DEF AgentType, Phase
    <1>2. agent' = [agent EXCEPT ![t] = r]
        <2>1. agent \in [Tasks -> AgentType] /\ agent[t] \in AgentType
            BY Facts
        <2>2. CASE agent' = [agent EXCEPT ![t].phase = p, ![t].asks = q]
            BY <2>1, <2>2
        <2>3. CASE agent' = [agent EXCEPT ![t].phase = p] /\ q = agent[t].asks
            <3>1. [agent[t] EXCEPT !.phase = p] = r
                BY <2>1, <2>3 DEF AgentType
            <3> QED BY <2>1, <2>3, <3>1
        <2> QED BY <2>2, <2>3 DEF Moved
    <1> HIDE DEF r
    <1> QED BY <1>1, <1>2, Facts

-----------------------------------------------------------------------------
(* spawn_task.                                                               *)

\* The record of a new task is pending and its stream is empty.
LEMMA CreatePendingTaskKeeps ==
    ASSUME IInv, NEW t \in Tasks, CreatePendingTask(t)
    PROVE  IInv'
    <1>1. /\ spawn[t] = "new" /\ spawn' = [spawn EXCEPT ![t] = "created"]
          /\ tasks' = [tasks EXCEPT ![t] = [Absent EXCEPT !.state = "pending"]]
          /\ UNCHANGED <<log, sinkSeq, token, cancels, connected, queue, worker, agent, inputs, approvals, outcome>>
        BY DEF CreatePendingTask, SpawnGoes, clientVars, hitlVars
    <1> DEFINE r == [Absent EXCEPT !.state = "pending"]
    <1>2. r \in RecordType /\ r.state = "pending"
        BY DEF Absent, RecordType, TaskState
    <1>3. tasks'[t] = r /\ spawn'[t] = "created" /\ tasks' \in [Tasks -> RecordType]
        BY <1>1, <1>2 DEF IInv, TypeOK
    <1> HIDE DEF r
    <1>4. TypeOK'
        BY <1>1, <1>3 DEF IInv, TypeOK
    <1>5. \A u \in Tasks \ {t} : UNCHANGED Row(u)
        BY <1>1 DEF IInv, TypeOK, Row
    <1>6. cancels[t] = {} /\ agent[t].phase = "none" /\ log[t] = <<>>
        BY <1>1, Facts DEF LifeInv
    <1>7. LifeInv(t)' /\ AskInv(t)'
        BY <1>1, <1>2, <1>3, <1>6, Facts DEF LifeInv, AskInv, Present, IsTerminal, Terminal, Live
    <1>8. StreamInv(t)'
        BY <1>1, <1>2, <1>3, <1>6 DEF StreamInv, Tells, Settled
    <1> QED BY <1>1, <1>4, <1>5, <1>7, <1>8, QueueKeeps, Gather

\* A spawn that gives up after the record exists leaves the record.
LEMMA GivesUpKeeps ==
    ASSUME IInv, NEW t \in Tasks, SpawnGoes(t, "ready", "failed"),
           UNCHANGED <<managerVars, sinkSeq, token, clientVars, queue, worker, agent, hitlVars, outcome>>
    PROVE  IInv'
    <1>1. /\ spawn[t] = "ready" /\ spawn' = [spawn EXCEPT ![t] = "failed"]
          /\ UNCHANGED <<tasks, log, sinkSeq, token, cancels, connected, queue, worker, agent, inputs, approvals, outcome>>
        BY DEF SpawnGoes, managerVars, clientVars, hitlVars
    <1>2. spawn'[t] = "failed" /\ TypeOK'
        BY <1>1 DEF IInv, TypeOK
    <1>3. \A u \in Tasks \ {t} : UNCHANGED Row(u)
        BY <1>1 DEF IInv, TypeOK, Row
    <1>4. LifeInv(t)' /\ AskInv(t)'
        BY <1>1, <1>2, Facts DEF LifeInv, AskInv, Present, IsTerminal
    <1>5. StreamInv(t)'
        BY <1>1, Facts, StreamKeeps
    <1> QED BY <1>1, <1>2, <1>3, <1>4, <1>5, QueueKeeps, Gather

\* The task of a missing provider fails before it has a token.
LEMMA ProviderMissingKeeps ==
    ASSUME IInv, NEW t \in Tasks, ProviderMissing(t)
    PROVE  IInv'
    <1>1. /\ spawn[t] = "created" /\ spawn' = [spawn EXCEPT ![t] = "failed"]
          /\ TransitionIf(Present(t) /\ ~IsTerminal(t), t, tasks[t], "failed")
          /\ UNCHANGED <<sinkSeq, token, cancels, connected, queue, worker, agent, inputs, approvals, outcome>>
        BY DEF ProviderMissing, SpawnGoes, Complete, clientVars, hitlVars
    <1>2. "failed" \in Terminal
        BY DEF Terminal
    <1>3. /\ tasks' \in [Tasks -> RecordType] /\ log' \in [Tasks -> Seq(EventType)] /\ StreamInv(t)'
          /\ \A u \in Tasks \ {t} : tasks'[u] = tasks[u] /\ log'[u] = log[u]
        BY <1>1, <1>2, EndEffect
    <1>4. tasks[t].state = "pending"
        BY <1>1, Facts DEF LifeInv
    <1>5. tasks'[t].state = "failed"
        BY <1>1, <1>2, <1>4, EndEffect DEF Present, IsTerminal, Terminal
    <1>6. spawn'[t] = "failed" /\ TypeOK'
        BY <1>1, <1>3 DEF IInv, TypeOK
    <1>7. \A u \in Tasks \ {t} : UNCHANGED Row(u)
        BY <1>1, <1>3 DEF IInv, TypeOK, Row
    <1>8. LifeInv(t)' /\ AskInv(t)'
        BY <1>1, <1>5, <1>6, Facts DEF LifeInv, AskInv, Present, IsTerminal
    <1> QED BY <1>1, <1>3, <1>6, <1>7, <1>8, QueueKeeps, Gather

\* The token is stored in the record, which is still pending.
LEMMA SetCancellationTokenKeeps ==
    ASSUME IInv, NEW t \in Tasks, SetCancellationToken(t)
    PROVE  IInv'
    <1>1. /\ spawn[t] = "created" /\ spawn' = [spawn EXCEPT ![t] = "tokened"]
          /\ tasks' = [tasks EXCEPT ![t].token = TRUE]
          /\ UNCHANGED <<log, sinkSeq, token, cancels, connected, queue, worker, agent, inputs, approvals, outcome>>
        BY DEF SetCancellationToken, SpawnGoes, clientVars, hitlVars
    <1>2. tasks'[t] = [tasks[t] EXCEPT !.token = TRUE] /\ \A u \in Tasks \ {t} : tasks'[u] = tasks[u]
        BY <1>1, Facts
    <1>a. tasks'[t].state = tasks[t].state /\ tasks'[t].token /\ tasks'[t] \in RecordType
        BY <1>2, Facts DEF RecordType
    <1>3. tasks'[t].state = tasks[t].state /\ tasks'[t].token /\ tasks' \in [Tasks -> RecordType]
        BY <1>1, <1>2, <1>a, Facts
    <1>4. spawn'[t] = "tokened" /\ TypeOK'
        BY <1>1, <1>3 DEF IInv, TypeOK
    <1>5. \A u \in Tasks \ {t} : UNCHANGED Row(u)
        BY <1>1, <1>2 DEF IInv, TypeOK, Row
    <1>6. tasks[t].state = "pending" /\ cancels[t] = {} /\ agent[t].phase = "none"
        BY <1>1, Facts DEF LifeInv
    <1>7. LifeInv(t)' /\ AskInv(t)'
        BY <1>1, <1>3, <1>4, <1>6, Facts DEF LifeInv, AskInv, Present, IsTerminal, Terminal
    <1>8. StreamInv(t)'
        BY <1>1, <1>3, Facts, StreamKeeps
    <1> QED BY <1>1, <1>4, <1>5, <1>7, <1>8, QueueKeeps, Gather

\* The work item gets its channels.
LEMMA SetHitlSendersKeeps ==
    ASSUME IInv, NEW t \in Tasks, SetHitlSenders(t)
    PROVE  IInv'
    <1> DEFINE h == t \in HitlTasks
    <1>1. /\ spawn[t] = "tokened" /\ spawn' = [spawn EXCEPT ![t] = "ready"]
          /\ agent' = [agent EXCEPT ![t].hitl = h]
          /\ UNCHANGED <<tasks, log, sinkSeq, token, cancels, connected, queue, worker, inputs, approvals, outcome>>
        BY DEF SetHitlSenders, SpawnGoes, managerVars, clientVars, hitlVars
    <1>2. h \in BOOLEAN
        OBVIOUS
    <1> HIDE DEF h
    <1>3. agent'[t] = [agent[t] EXCEPT !.hitl = h] /\ \A u \in Tasks \ {t} : agent'[u] = agent[u]
        BY <1>1, Facts
    <1>4. agent'[t].phase = agent[t].phase /\ agent'[t].asks = agent[t].asks /\ agent' \in [Tasks -> AgentType]
        <2>1. [agent[t] EXCEPT !.hitl = h] \in AgentType
            BY <1>2, Facts DEF AgentType
        <2>2. agent'[t].phase = agent[t].phase /\ agent'[t].asks = agent[t].asks
            BY <1>3, Facts DEF AgentType
        <2> QED BY <1>1, <1>3, <2>1, <2>2, Facts
    <1>5. spawn'[t] = "ready" /\ TypeOK'
        BY <1>1, <1>4 DEF IInv, TypeOK, AgentType
    <1>6. \A u \in Tasks \ {t} : UNCHANGED Row(u)
        BY <1>1, <1>3 DEF IInv, TypeOK, Row
    <1>7. LifeInv(t)' /\ AskInv(t)'
        BY <1>1, <1>4, <1>5, Facts DEF LifeInv, AskInv, Present, IsTerminal
    <1>8. StreamInv(t)'
        BY <1>1, Facts, StreamKeeps
    <1>9. QueueInv'
        BY <1>1, <1>3, <1>4, QueueKeeps
    <1> QED BY <1>5, <1>6, <1>7, <1>8, <1>9, Gather

\* The work item is queued, once.
LEMMA SubmitKeeps ==
    ASSUME IInv, NEW t \in Tasks, Submit(t)
    PROVE  IInv'
    <1>1. /\ spawn[t] = "ready" /\ spawn' = [spawn EXCEPT ![t] = "submitted"]
          /\ queue' = Append(queue, t) /\ agent' = [agent EXCEPT ![t].phase = "queued"]
          /\ UNCHANGED <<tasks, log, sinkSeq, token, cancels, connected, worker, inputs, approvals, outcome>>
        BY DEF Submit, SpawnGoes, managerVars, clientVars, hitlVars
    <1>2. agent[t].asks \in Question \cup {None}
        BY Facts DEF AgentType
    <1>3. agent'[t].phase = "queued" /\ agent'[t].asks = agent[t].asks /\ agent' \in [Tasks -> AgentType]
          /\ \A u \in Tasks \ {t} : agent'[u] = agent[u]
        <2>1. Moved(t, "queued", agent[t].asks) /\ "queued" \in Phase
            BY <1>1 DEF Moved, Phase
        <2> QED BY <1>2, <2>1, AgentMoves
    <1>4. spawn'[t] = "submitted" /\ TypeOK'
        BY <1>1, <1>3 DEF IInv, TypeOK, AgentType
    <1>5. \A u \in Tasks \ {t} : UNCHANGED Row(u)
        BY <1>1, <1>3 DEF IInv, TypeOK, Row
    <1>6. agent[t].phase = "none" /\ tasks[t].state = "pending" /\ tasks[t].token /\ cancels[t] = {} /\ outcome[t] = "none"
        BY <1>1, Facts DEF LifeInv, Present
    <1>7. LifeInv(t)' /\ AskInv(t)'
        BY <1>1, <1>3, <1>4, <1>6, Facts DEF LifeInv, AskInv, Present, IsTerminal, Terminal, Live
    <1>8. StreamInv(t)'
        BY <1>1, Facts, StreamKeeps
    <1>9. QueueInv'
        <2>1. queue \in Seq(Tasks) /\ QueueInv
            BY DEF IInv, TypeOK
        <2>2. \A i \in DOMAIN queue : queue[i] \in Tasks /\ queue[i] # t
            BY <1>6, <2>1 DEF QueueInv
        <2>3. DOMAIN queue' = 1 .. Len(queue) + 1 /\ DOMAIN queue = 1 .. Len(queue) /\ Len(queue) \in Nat
              /\ queue'[Len(queue) + 1] = t /\ \A i \in DOMAIN queue : queue'[i] = queue[i]
            BY <1>1, <2>1
        <2>4. \A i \in DOMAIN queue' : i = Len(queue) + 1 \/ i \in DOMAIN queue
            BY <2>3
        <2>5. \A i \in DOMAIN queue' : agent'[queue'[i]].phase = "queued"
            BY <1>3, <2>1, <2>2, <2>3, <2>4 DEF QueueInv
        <2>6. \A i, j \in DOMAIN queue' : queue'[i] = queue'[j] => i = j
            BY <2>1, <2>2, <2>3, <2>4 DEF QueueInv
        <2> QED BY <2>5, <2>6 DEF QueueInv
    <1> QED BY <1>4, <1>5, <1>7, <1>8, <1>9, Gather

\* spawn_task keeps the invariant.
LEMMA SpawnStepKeeps ==
    ASSUME IInv, NEW t \in Tasks, SpawnStep(t)
    PROVE  IInv'
    BY CreatePendingTaskKeeps, ProviderMissingKeeps, SetCancellationTokenKeeps, SetHitlSendersKeeps, SubmitKeeps,
       GivesUpKeeps DEF SpawnStep, PrepareFails, PoolExhausted

-----------------------------------------------------------------------------
(* The workers.                                                              *)

\* A worker takes the task at the head of the queue.
LEMMA TakeWorkKeeps ==
    ASSUME IInv, NEW w \in Workers, TakeWork(w)
    PROVE  IInv'
    <1>a. queue # <<>> /\ queue \in Seq(Tasks)
        BY DEF TakeWork, IInv, TypeOK
    <1>b. PICK t \in Tasks : t = Head(queue)
        BY <1>a
    <1>1. /\ queue # <<>> /\ queue' = Tail(queue) /\ worker' = [worker EXCEPT ![w] = t]
          /\ agent' = [agent EXCEPT ![t].phase = "taken"]
          /\ UNCHANGED <<tasks, log, sinkSeq, token, cancels, connected, spawn, inputs, approvals, outcome>>
        BY <1>b DEF TakeWork, managerVars, clientVars, hitlVars
    <1>2. queue \in Seq(Tasks) /\ QueueInv
        BY DEF IInv, TypeOK
    <1>3. /\ Len(queue) \in Nat /\ Len(queue) # 0 /\ DOMAIN queue = 1 .. Len(queue) /\ queue' \in Seq(Tasks)
          /\ t = queue[1] /\ t \in Tasks
          /\ DOMAIN queue' = 1 .. Len(queue) - 1 /\ \A i \in DOMAIN queue' : queue'[i] = queue[i + 1]
        BY <1>b, <1>1, <1>2
    <1>4. agent[t].phase = "queued"
        BY <1>2, <1>3 DEF QueueInv
    <1>5. agent[t].asks \in Question \cup {None}
        BY <1>3, Facts DEF AgentType
    <1>6. /\ agent'[t].phase = "taken" /\ agent'[t].asks = agent[t].asks /\ agent' \in [Tasks -> AgentType]
          /\ \A u \in Tasks \ {t} : agent'[u] = agent[u]
        <2>1. Moved(t, "taken", agent[t].asks) /\ "taken" \in Phase
            BY <1>1 DEF Moved, Phase
        <2> QED BY <1>5, <2>1, AgentMoves
    <1>7. TypeOK'
        BY <1>1, <1>3, <1>6 DEF IInv, TypeOK, AgentType
    <1>8. \A u \in Tasks \ {t} : UNCHANGED Row(u)
        BY <1>1, <1>6 DEF Row
    <1>c. UNCHANGED <<tasks, log, token, cancels, spawn, inputs, approvals, outcome>>
        BY <1>1
    <1>9. LifeInv(t)' /\ AskInv(t)'
        <2>1. LifeInv(t)'
            BY <1>4, <1>6, <1>c, Facts DEF LifeInv, Present, IsTerminal, Live
        <2>2. AskInv(t)'
            BY <1>4, <1>6, <1>c, Facts DEF AskInv
        <2> QED BY <2>1, <2>2
    <1>10. StreamInv(t)'
        BY <1>c, Facts, StreamKeeps
    <1>11. QueueInv'
        <2>1. \A i \in DOMAIN queue' : i + 1 \in DOMAIN queue /\ i + 1 # 1
            BY <1>3
        <2>2. \A i \in DOMAIN queue' : queue'[i] \in Tasks /\ queue'[i] # t /\ agent[queue'[i]].phase = "queued"
            BY <1>2, <1>3, <2>1 DEF QueueInv
        <2>3. \A i, j \in DOMAIN queue' : queue'[i] = queue'[j] => i + 1 = j + 1
            BY <1>2, <1>3, <2>1 DEF QueueInv
        <2>4. \A i, j \in DOMAIN queue' : queue'[i] = queue'[j] => i = j
            BY <1>3, <2>3
        <2> QED BY <1>6, <2>2, <2>4 DEF QueueInv
    <1> QED BY <1>3, <1>7, <1>8, <1>9, <1>10, <1>11, Gather

\* A work item ends outside a question, or by its token.
LEMMA EndsKeeps ==
    ASSUME IInv, NEW w \in Workers, NEW result \in Terminal, Ends(w, result), NEW t \in Tasks, worker[w] = t,
           agent[t].phase \in {"taken", "running"} \/ (agent[t].phase = "awaiting" /\ token[t])
    PROVE  IInv'
    <1>1. /\ worker' = [worker EXCEPT ![w] = None] /\ agent' = [agent EXCEPT ![t].phase = "over", ![t].asks = None]
          /\ inputs' = [inputs EXCEPT ![t] = 0] /\ approvals' = [approvals EXCEPT ![t] = <<>>]
          /\ sinkSeq' = [sinkSeq EXCEPT ![t] = 0] /\ outcome' = [outcome EXCEPT ![t] = result]
          /\ UNCHANGED <<tasks, log, token, cancels, connected, spawn, queue>>
        BY DEF Ends, managerVars, clientVars
    <1>2. t \in Tasks
        BY DEF IInv, TypeOK
    <1>3. agent[t].phase \in {"taken", "running"} \/ (agent[t].phase = "awaiting" /\ token[t])
        OBVIOUS
    <1>4. /\ agent'[t].phase = "over" /\ agent'[t].asks = None /\ agent' \in [Tasks -> AgentType]
          /\ \A u \in Tasks \ {t} : agent'[u] = agent[u]
        <2>1. Moved(t, "over", None) /\ "over" \in Phase
            BY <1>1 DEF Moved, Phase
        <2> QED BY <2>1, AgentMoves
    <1>5. TypeOK'
        <2>1. /\ tasks' \in [Tasks -> RecordType] /\ log' \in [Tasks -> Seq(EventType)] /\ token' \in [Tasks -> BOOLEAN]
              /\ cancels' \in [Tasks -> SUBSET {"begin", "commit"}] /\ connected' \in BOOLEAN
              /\ spawn' \in [Tasks -> {"new", "created", "tokened", "ready", "submitted", "failed"}]
              /\ queue' \in Seq(Tasks) /\ worker' \in [Workers -> Tasks \cup {None}]
            BY <1>1 DEF IInv, TypeOK
        <2>2. /\ sinkSeq' \in [Tasks -> Nat] /\ inputs' \in [Tasks -> Nat] /\ approvals' \in [Tasks -> Seq(ToolCalls)]
              /\ outcome' \in [Tasks -> Terminal \cup {"none", "taken"}]
            BY <1>1 DEF IInv, TypeOK
        <2> QED BY <1>4, <2>1, <2>2 DEF TypeOK, AgentType
    <1>6. \A u \in Tasks \ {t} : UNCHANGED Row(u)
        BY <1>1, <1>4 DEF IInv, TypeOK, Row
    <1>7. inputs'[t] = 0 /\ approvals'[t] = <<>> /\ token'[t] = token[t] /\ tasks'[t] = tasks[t]
        BY <1>1, <1>2 DEF IInv, TypeOK
    <1>8. LifeInv(t)'
        BY <1>1, <1>2, <1>3, <1>4, Facts DEF LifeInv, Present, IsTerminal, Live
    <1>9. AskInv(t)'
        <2>1. tasks[t].state \in {"waiting_input", "waiting_approval"} => token[t]
            BY <1>2, <1>3, Facts, TaskServiceAssumption DEF AskInv
        <2> QED BY <1>4, <1>7, <2>1 DEF AskInv
    <1>10. StreamInv(t)'
        BY <1>1, <1>2, Facts, StreamKeeps
    <1>11. QueueInv'
        <2>1. agent[t].phase # "queued"
            BY <1>3
        <2> QED BY <1>1, <1>4, <2>1, QueueKeeps
    <1> QED BY <1>2, <1>5, <1>6, <1>8, <1>9, <1>10, <1>11, Gather

\* A submitted task changes from one live state to another, whatever becomes of
\* the question of its agent.
LEMMA LiveTransition ==
    ASSUME IInv, NEW t \in Tasks, NEW r \in RecordType, r.token = tasks[t].token,
           NEW to \in {"running", "waiting_input", "waiting_approval", "paused"}, Transition(t, r, to),
           spawn[t] = "submitted", Present(t), ~IsTerminal(t),
           agent' \in [Tasks -> AgentType], \A u \in Tasks \ {t} : agent'[u] = agent[u],
           \/ agent'[t].phase = agent[t].phase
           \/ agent[t].phase \in {"taken", "running"} /\ agent'[t].phase \in Live,
           inputs' \in [Tasks -> Nat], approvals' \in [Tasks -> Seq(ToolCalls)],
           \A u \in Tasks \ {t} : inputs'[u] = inputs[u] /\ approvals'[u] = approvals[u],
           UNCHANGED <<sinkSeq, token, cancels, connected, spawn, queue, worker, outcome>>, AskInv(t)'
    PROVE  IInv'
    <1>1. to \in TaskState /\ to \notin Terminal
        BY DEF TaskState, Terminal
    <1>2. /\ tasks' \in [Tasks -> RecordType] /\ log' \in [Tasks -> Seq(EventType)] /\ StreamInv(t)'
          /\ tasks'[t].state = to /\ tasks'[t].token = r.token
          /\ \A u \in Tasks \ {t} : tasks'[u] = tasks[u] /\ log'[u] = log[u]
        BY <1>1, TransitionEffect
    <1>3. TypeOK'
        BY <1>2 DEF IInv, TypeOK, AgentType
    <1>4. \A u \in Tasks \ {t} : UNCHANGED Row(u)
        BY <1>2 DEF Row
    <1>5. LifeInv(t)'
        BY <1>1, <1>2, Facts DEF LifeInv, Present, IsTerminal, Live
    <1>6. QueueInv'
        <2>1. \A u \in Tasks : agent[u].phase = "queued" => agent'[u].phase = "queued"
            OBVIOUS
        <2> QED BY <2>1, QueueKeeps
    <1> QED BY <1>2, <1>3, <1>4, <1>5, <1>6, Gather

\* start_task, or a task that was cancelled while it was in the queue.
LEMMA StartTaskKeeps ==
    ASSUME IInv, NEW w \in Workers, StartTask(w)
    PROVE  IInv'
    <1>1. PICK t \in Tasks : t = worker[w]
        BY DEF StartTask, IInv, TypeOK
    <1>2. agent[t].phase = "taken" /\ worker[w] = t
        BY <1>1 DEF StartTask
    <1>3. CASE Ends(w, "failed")
        <2>1. "failed" \in Terminal
            BY DEF Terminal
        <2> QED BY <1>1, <1>2, <1>3, <2>1, EndsKeeps
    <1>4. CASE ~Ends(w, "failed")
        <2>1. /\ tasks[t].state = "pending" /\ Transition(t, tasks[t], "running")
              /\ agent' = [agent EXCEPT ![t].phase = "running"]
              /\ UNCHANGED <<sinkSeq, token, cancels, connected, spawn, queue, worker, inputs, approvals, outcome>>
            BY <1>1, <1>4 DEF StartTask, clientVars, poolVars, hitlVars
        <2>2. agent[t].asks \in Question \cup {None} /\ "running" \in Live
            BY Facts DEF AgentType, Live
        <2>3. /\ agent'[t].phase = "running" /\ agent'[t].asks = agent[t].asks /\ agent' \in [Tasks -> AgentType]
              /\ \A u \in Tasks \ {t} : agent'[u] = agent[u]
            <3>1. Moved(t, "running", agent[t].asks) /\ "running" \in Phase
                BY <2>1 DEF Moved, Phase, Live
            <3> QED BY <2>2, <3>1, AgentMoves
        <2>4. spawn[t] = "submitted" /\ Present(t) /\ ~IsTerminal(t) /\ tasks[t] \in RecordType
            BY <1>2, <2>1, Facts DEF LifeInv, Present, IsTerminal, Terminal
        <2>5. tasks'[t].state = "running"
            BY <2>1, <2>4, TransitionEffect DEF TaskState
        <2>6. AskInv(t)'
            <3>1. inputs' = inputs /\ approvals' = approvals
                BY <2>1
            <3>2. AskInv(t) /\ agent[t].phase = "taken"
                BY <1>2, Facts
            <3> QED BY <2>3, <2>5, <3>1, <3>2 DEF AskInv
        <2>7. inputs' \in [Tasks -> Nat] /\ approvals' \in [Tasks -> Seq(ToolCalls)]
              /\ \A u \in Tasks \ {t} : inputs'[u] = inputs[u] /\ approvals'[u] = approvals[u]
            BY <2>1 DEF IInv, TypeOK
        <2>8. UNCHANGED <<sinkSeq, token, cancels, connected, spawn, queue, worker, outcome>>
            BY <2>1
        <2> QED BY <1>2, <2>1, <2>2, <2>3, <2>4, <2>6, <2>7, <2>8, LiveTransition
    <1> QED BY <1>3, <1>4

\* The task of a worker that is in one of some phases.
LEMMA WorkersTask ==
    ASSUME IInv, NEW w \in Workers, NEW phases, InPhase(w, phases)
    PROVE  \E t \in Tasks : t = worker[w] /\ agent[t].phase \in phases
    BY DEF InPhase, IInv, TypeOK

\* The agent loop returns, fails or is cancelled.
LEMMA StopsKeep ==
    ASSUME IInv, NEW w \in Workers, StopCancelled(w) \/ \E r \in Terminal : FinishAgent(w, r)
    PROVE  IInv'
    <1>1. CASE StopCancelled(w)
        <2>1. PICK t \in Tasks : t = worker[w] /\ agent[t].phase \in {"running", "awaiting"}
            BY <1>1, WorkersTask DEF StopCancelled
        <2>2. token[t] /\ Ends(w, "cancelled") /\ "cancelled" \in Terminal
            BY <1>1, <2>1 DEF StopCancelled, Terminal
        <2> QED BY <2>1, <2>2, EndsKeeps
    <1>2. CASE \E r \in Terminal : FinishAgent(w, r)
        <2>1. PICK r \in Terminal : Ends(w, r) /\ (InPhase(w, {"running"}) \/ InPhase(w, {"taken"}))
            BY <1>2 DEF FinishAgent
        <2>2. PICK t \in Tasks : t = worker[w] /\ agent[t].phase \in {"running", "taken"}
            BY <2>1, WorkersTask
        <2> QED BY <2>1, <2>2, EndsKeeps
    <1> QED BY <1>1, <1>2

\* A step of an agent that only adds activity to its stream.
LEMMA ChatterKeeps ==
    ASSUME IInv, NEW t \in Tasks, NEW e \in EventType, e.to = "none", log' = [log EXCEPT ![t] = Append(@, e)],
           agent[t].phase \in Live, sinkSeq' \in [Tasks -> Nat], tasks' \in [Tasks -> RecordType],
           tasks'[t].state = tasks[t].state, tasks'[t].token = tasks[t].token, tasks'[t].pending = tasks[t].pending,
           \A u \in Tasks \ {t} : tasks'[u] = tasks[u],
           UNCHANGED <<token, cancels, connected, spawn, queue, worker, inputs, approvals, outcome>>,
           agent' = agent \/ (agent[t].phase = "asking" /\ agent' = [agent EXCEPT ![t].phase = "awaiting"])
    PROVE  IInv'
    <1>1. /\ log' \in [Tasks -> Seq(EventType)] /\ StreamInv(t)'
          /\ \A u \in Tasks \ {t} : log'[u] = log[u]
        BY ActivityKeeps
    <1>2. agent[t].asks \in Question \cup {None} /\ "awaiting" \in Live
        BY Facts DEF AgentType, Live
    <1>3. /\ agent' \in [Tasks -> AgentType] /\ \A u \in Tasks \ {t} : agent'[u] = agent[u]
          /\ agent'[t].asks = agent[t].asks
          /\ agent'[t].phase = agent[t].phase \/ (agent[t].phase = "asking" /\ agent'[t].phase = "awaiting")
        <2>1. CASE agent' = agent
            BY <2>1, Facts
        <2>2. CASE agent[t].phase = "asking" /\ agent' = [agent EXCEPT ![t].phase = "awaiting"]
            <3>1. Moved(t, "awaiting", agent[t].asks) /\ "awaiting" \in Phase
                BY <2>2 DEF Moved, Phase, Live
            <3>2. /\ agent' \in [Tasks -> AgentType] /\ \A u \in Tasks \ {t} : agent'[u] = agent[u]
                  /\ agent'[t].phase = "awaiting" /\ agent'[t].asks = agent[t].asks
                BY <1>2, <3>1, AgentMoves
            <3> QED BY <2>2, <3>2
        <2> QED BY <2>1, <2>2
    <1>4. TypeOK'
        BY <1>1, <1>3 DEF IInv, TypeOK, AgentType
    <1>5. \A u \in Tasks \ {t} : UNCHANGED Row(u)
        BY <1>1, <1>3 DEF Row
    <1>6. LifeInv(t)'
        BY <1>3, Facts DEF LifeInv, Present, IsTerminal, Live
    <1>7. AskInv(t)'
        BY <1>3, Facts DEF AskInv
    <1>8. QueueInv'
        BY <1>3, QueueKeeps DEF Live
    <1> QED BY <1>1, <1>4, <1>5, <1>6, <1>7, <1>8, Gather

\* Activity, and the announcement of a question, go through the sink.
LEMMA SinkStepsKeep ==
    ASSUME IInv, NEW w \in Workers, EmitActivity(w) \/ Announce(w)
    PROVE  IInv'
    <1>1. PICK t \in Tasks : /\ t = worker[w] /\ SinkSends(t)
                             /\ \/ agent[t].phase = "running" /\ agent' = agent
                                \/ agent[t].phase = "asking" /\ agent' = [agent EXCEPT ![t].phase = "awaiting"]
        BY WorkersTask DEF EmitActivity, Announce
    <1>2. UNCHANGED <<tasks, token, cancels, connected, spawn, queue, worker, inputs, approvals, outcome>>
        BY DEF EmitActivity, Announce, clientVars, poolVars, hitlVars
    <1> DEFINE e == Event("sink", sinkSeq[t])
    <1>3. e \in EventType /\ e.to = "none"
        BY Facts DEF Event, EventType
    <1>4. log' = [log EXCEPT ![t] = Append(@, e)]
        BY <1>1 DEF SinkSends
    <1> HIDE DEF e
    <1>5. sinkSeq' \in [Tasks -> Nat]
        BY <1>1 DEF SinkSends, IInv, TypeOK
    <1>6. tasks' \in [Tasks -> RecordType] /\ tasks' = tasks /\ agent[t].phase \in Live
        BY <1>1, <1>2, Facts DEF Live
    <1> QED BY <1>1, <1>2, <1>3, <1>4, <1>5, <1>6, ChatterKeeps

\* An artifact is reported through the manager.
LEMMA EmitEventKeeps ==
    ASSUME IInv, NEW w \in Workers, EmitEvent(w)
    PROVE  IInv'
    <1>1. PICK t \in Tasks : t = worker[w] /\ agent[t].phase \in {"running"}
        BY WorkersTask DEF EmitEvent
    <1> DEFINE n == tasks[t].seq + 1
               e == Event("manager", n)
    <1>2. /\ tasks' = [tasks EXCEPT ![t].seq = @ + 1] /\ log' = [log EXCEPT ![t] = Append(@, e)]
          /\ UNCHANGED <<sinkSeq, token, cancels, connected, spawn, queue, worker, agent, inputs, approvals, outcome>>
        BY <1>1 DEF EmitEvent, clientVars, poolVars, hitlVars
    <1>3. n \in Nat
        BY Facts
    <1>4. tasks' = [tasks EXCEPT ![t] = [tasks[t] EXCEPT !.seq = n]]
        BY <1>2, Facts
    <1> HIDE DEF n
    <1>5. e \in EventType /\ e.to = "none"
        BY <1>3 DEF Event, EventType
    <1> HIDE DEF e
    <1> DEFINE r == [tasks[t] EXCEPT !.seq = n]
    <1>6. r \in RecordType /\ r.state = tasks[t].state /\ r.token = tasks[t].token /\ r.pending = tasks[t].pending
        BY <1>3, Facts DEF RecordType
    <1> HIDE DEF r
    <1>7. tasks' \in [Tasks -> RecordType] /\ tasks'[t] = r /\ \A u \in Tasks \ {t} : tasks'[u] = tasks[u]
        BY <1>4, <1>6, Facts DEF r
    <1>8. sinkSeq' \in [Tasks -> Nat] /\ agent[t].phase \in Live
        BY <1>1, <1>2 DEF IInv, TypeOK, Live
    <1> QED BY <1>2, <1>5, <1>6, <1>7, <1>8, ChatterKeeps

\* The task moves to its waiting state and the agent asks, also if the move was
\* refused.
LEMMA AskKeeps ==
    ASSUME IInv, NEW w \in Workers, NEW q \in Question, Ask(w, q)
    PROVE  IInv'
    <1>1. PICK t \in Tasks : t = worker[w] /\ agent[t].phase \in {"running"}
        BY WorkersTask DEF Ask
    <1> DEFINE r == IF q = "input" THEN tasks[t] ELSE [tasks[t] EXCEPT !.pending = q]
               to == IF q = "input" THEN "waiting_input" ELSE "waiting_approval"
    <1>2. /\ TransitionIf(tasks[t].state = "running", t, r, to)
          /\ agent' = [agent EXCEPT ![t].phase = "asking", ![t].asks = q]
          /\ UNCHANGED <<sinkSeq, token, cancels, connected, spawn, queue, worker, inputs, approvals, outcome>>
        BY <1>1 DEF Ask, clientVars, poolVars, hitlVars
    <1>3. /\ r \in RecordType /\ r.token = tasks[t].token /\ (q # "input" => r.pending = q)
          /\ to \in {"waiting_input", "waiting_approval"} /\ (to = "waiting_input" <=> q = "input")
        BY Facts DEF RecordType, Question
    <1> HIDE DEF r, to
    <1>4. agent' = [agent EXCEPT ![t].phase = "asking", ![t].asks = q] /\ "asking" \in Live
        BY <1>2 DEF Live
    <1>5. /\ agent'[t].phase = "asking" /\ agent'[t].asks = q /\ agent' \in [Tasks -> AgentType]
          /\ \A u \in Tasks \ {t} : agent'[u] = agent[u]
        <2>1. Moved(t, "asking", q) /\ "asking" \in Phase
            BY <1>4 DEF Moved, Phase, Live
        <2> QED BY <2>1, AgentMoves
    <1>6. agent[t].asks = None /\ inputs[t] = 0 /\ approvals[t] = <<>> /\ spawn[t] = "submitted" /\ q # None
        <2>0. AskInv(t) /\ LifeInv(t) /\ agent[t].phase = "running" /\ None \notin Question
            BY <1>1, Facts, TaskServiceAssumption DEF Question
        <2>a. agent[t].asks = None /\ spawn[t] = "submitted" /\ q # None
            BY <2>0 DEF AskInv, LifeInv
        <2>1. agent[t].asks = None /\ inputs[t] = 0 /\ spawn[t] = "submitted" /\ q # None
            BY <2>0, <2>a DEF AskInv, Question
        <2>2. approvals[t] # <<>> => approvals[t] = <<None>>
            BY <2>1, Facts DEF AskInv
        <2>3. approvals[t] # <<None>>
            <3> SUFFICES ASSUME approvals[t] = <<None>> PROVE FALSE
                OBVIOUS
            <3>1. <<None>> \in Seq(ToolCalls)
                BY Facts
            <3>2. <<None>>[1] \in ToolCalls
                BY <3>1
            <3> QED BY <3>2, TaskServiceAssumption
        <2> QED BY <2>1, <2>2, <2>3
    <1>7. inputs'[t] = 0 /\ approvals'[t] = <<>>
        BY <1>2, <1>6
    <1>8. CASE tasks[t].state = "running"
        <2>1. Transition(t, r, to)
            BY <1>2, <1>8 DEF TransitionIf
        <2>2. to \in TaskState
            BY <1>3 DEF TaskState
        <2>3. tasks'[t].state = to /\ tasks'[t].pending = r.pending
            BY <1>3, <2>1, <2>2, TransitionEffect
        <2>4. AskInv(t)'
            BY <1>3, <1>5, <1>6, <1>7, <2>3 DEF AskInv
        <2>5. inputs' \in [Tasks -> Nat] /\ approvals' \in [Tasks -> Seq(ToolCalls)]
              /\ \A u \in Tasks \ {t} : inputs'[u] = inputs[u] /\ approvals'[u] = approvals[u]
            BY <1>2 DEF IInv, TypeOK
        <2>6. UNCHANGED <<sinkSeq, token, cancels, connected, spawn, queue, worker, outcome>>
            BY <1>2
        <2>7. Present(t) /\ ~IsTerminal(t)
            BY <1>8 DEF Present, IsTerminal, Terminal
        <2>8. agent[t].phase \in {"taken", "running"} /\ agent'[t].phase \in Live
            BY <1>1, <1>4, <1>5
        <2> QED BY <1>3, <1>5, <1>6, <2>1, <2>4, <2>5, <2>6, <2>7, <2>8, LiveTransition
    <1>9. CASE tasks[t].state # "running"
        <2>1. tasks' = tasks /\ log' = log
            BY <1>2, <1>9 DEF TransitionIf, managerVars
        <2>2. UNCHANGED <<sinkSeq, token, cancels, connected, spawn, queue, worker, inputs, approvals, outcome>>
            BY <1>2
        <2>3. TypeOK'
            BY <1>5, <2>1, <2>2 DEF IInv, TypeOK, AgentType
        <2>4. \A u \in Tasks \ {t} : UNCHANGED Row(u)
            BY <1>5, <2>1, <2>2 DEF Row
        <2>5. LifeInv(t)'
            BY <1>1, <1>5, <2>1, <2>2, Facts DEF LifeInv, Present, IsTerminal, Live
        <2>6. AskInv(t)'
            <3>1. tasks[t].state \notin {"waiting_input", "waiting_approval"}
                BY <1>1, <1>6, Facts, TaskServiceAssumption DEF AskInv
            <3> QED BY <1>5, <1>6, <1>7, <2>1, <3>1 DEF AskInv
        <2>7. StreamInv(t)'
            BY <2>1, Facts, StreamKeeps
        <2>8. QueueInv'
            BY <1>1, <1>5, <2>2, QueueKeeps
        <2> QED BY <2>3, <2>4, <2>5, <2>6, <2>7, <2>8, Gather
    <1> QED BY <1>8, <1>9

\* The answer reaches the question it is for, and the agent goes on.
LEMMA ReceiveKeeps ==
    ASSUME IInv, NEW w \in Workers, ReceiveInput(w) \/ ReceiveApproval(w)
    PROVE  IInv'
    <1>1. PICK t \in Tasks : t = worker[w] /\ agent[t].phase \in {"awaiting"}
        BY WorkersTask DEF ReceiveInput, ReceiveApproval
    <1>2. UNCHANGED <<tasks, log, sinkSeq, token, cancels, connected, spawn, queue, worker, outcome>>
        BY DEF ReceiveInput, ReceiveApproval, managerVars, clientVars, poolVars, hitlVars
    <1>3. /\ agent' = [agent EXCEPT ![t].phase = "running", ![t].asks = None]
          /\ inputs' \in [Tasks -> Nat] /\ approvals' \in [Tasks -> Seq(ToolCalls)]
          /\ \A u \in Tasks \ {t} : inputs'[u] = inputs[u] /\ approvals'[u] = approvals[u]
          /\ inputs'[t] = 0 /\ approvals'[t] = <<>>
          /\ tasks[t].state \notin {"waiting_input", "waiting_approval"}
        <2>1. CASE ReceiveInput(w)
            <3>1. /\ agent[t].asks = "input" /\ inputs[t] > 0 /\ inputs' = [inputs EXCEPT ![t] = @ - 1]
                  /\ agent' = [agent EXCEPT ![t].phase = "running", ![t].asks = None] /\ approvals' = approvals
                BY <1>1, <2>1 DEF ReceiveInput
            <3>2. inputs[t] = 1
                BY <3>1, Facts DEF AskInv
            <3>3. approvals[t] = <<>>
                <4>1. approvals[t] # <<>> => approvals[t] = <<"input">>
                    BY <3>1, Facts DEF AskInv
                <4>2. approvals[t] # <<"input">>
                    <5> SUFFICES ASSUME approvals[t] = <<"input">> PROVE FALSE
                        OBVIOUS
                    <5>1. <<"input">> \in Seq(ToolCalls)
                        BY Facts
                    <5>2. <<"input">>[1] \in ToolCalls
                        BY <5>1
                    <5> QED BY <5>2, TaskServiceAssumption
                <4> QED BY <4>1, <4>2
            <3>4. tasks[t].state \notin {"waiting_input", "waiting_approval"}
                <4>1. tasks[t].pending \in ToolCalls \cup {None}
                    BY Facts DEF RecordType
                <4>2. AskInv(t) /\ agent[t].phase # "over"
                    BY <1>1, Facts
                <4>3. tasks[t].state # "waiting_input"
                    BY <3>2, <4>2 DEF AskInv
                <4>4. tasks[t].state # "waiting_approval"
                    BY <3>1, <4>1, <4>2, TaskServiceAssumption DEF AskInv
                <4> QED BY <4>3, <4>4
            <3>5. inputs' \in [Tasks -> Nat] /\ inputs'[t] = 0 /\ \A u \in Tasks \ {t} : inputs'[u] = inputs[u]
                BY <3>1, <3>2 DEF IInv, TypeOK
            <3>6. approvals' \in [Tasks -> Seq(ToolCalls)]
                BY <3>1 DEF IInv, TypeOK
            <3> QED BY <3>1, <3>3, <3>4, <3>5, <3>6
        <2>2. CASE ReceiveApproval(w)
            <3>1. /\ agent[t].asks \in ToolCalls /\ approvals[t] # <<>> /\ approvals' = [approvals EXCEPT ![t] = Tail(@)]
                  /\ inputs' = inputs
                  /\ agent' = IF Head(approvals[t]) = agent[t].asks
                              THEN [agent EXCEPT ![t].phase = "running", ![t].asks = None] ELSE agent
                BY <1>1, <2>2 DEF ReceiveApproval
            <3>2. approvals[t] = <<agent[t].asks>>
                BY <3>1, Facts DEF AskInv
            <3>3. Head(approvals[t]) = agent[t].asks /\ Tail(approvals[t]) = <<>> /\ <<>> \in Seq(ToolCalls)
                BY <3>2
            <3>4. inputs[t] = 0
                BY <3>1, Facts, TaskServiceAssumption DEF AskInv
            <3>5. tasks[t].state \notin {"waiting_input", "waiting_approval"}
                BY <1>1, <3>1, Facts, TaskServiceAssumption DEF AskInv
            <3>6. approvals' \in [Tasks -> Seq(ToolCalls)] /\ approvals'[t] = <<>>
                  /\ \A u \in Tasks \ {t} : approvals'[u] = approvals[u]
                BY <3>1, <3>3 DEF IInv, TypeOK
            <3>7. inputs' \in [Tasks -> Nat]
                BY <3>1 DEF IInv, TypeOK
            <3> QED BY <3>1, <3>3, <3>4, <3>5, <3>6, <3>7
        <2> QED BY <2>1, <2>2
    <1>4. /\ agent'[t].phase = "running" /\ agent'[t].asks = None /\ agent' \in [Tasks -> AgentType]
          /\ \A u \in Tasks \ {t} : agent'[u] = agent[u]
        <2>1. Moved(t, "running", None) /\ "running" \in Phase
            BY <1>3 DEF Moved, Phase, Live
        <2> QED BY <2>1, AgentMoves
    <1>5. TypeOK'
        BY <1>2, <1>3, <1>4 DEF IInv, TypeOK, AgentType
    <1>6. \A u \in Tasks \ {t} : UNCHANGED Row(u)
        BY <1>2, <1>3, <1>4 DEF Row
    <1>7. LifeInv(t)'
        BY <1>1, <1>2, <1>4, Facts DEF LifeInv, Present, IsTerminal, Live
    <1>8. AskInv(t)'
        BY <1>2, <1>3, <1>4 DEF AskInv
    <1>9. StreamInv(t)'
        BY <1>2, Facts, StreamKeeps
    <1>10. QueueInv'
        BY <1>1, <1>2, <1>4, QueueKeeps
    <1> QED BY <1>5, <1>6, <1>7, <1>8, <1>9, <1>10, Gather

\* The steps of a worker keep the invariant.
LEMMA WorkersKeep ==
    ASSUME IInv, NEW w \in Workers, AgentStep(w) \/ WorkerStep(w)
    PROVE  IInv'
    BY TakeWorkKeeps, StartTaskKeeps, StopsKeep, SinkStepsKeep, EmitEventKeeps, AskKeeps, ReceiveKeeps
       DEF AgentStep, WorkerStep

-----------------------------------------------------------------------------
(* The server's own tasks and the clients.                                   *)

\* A task ends that was never submitted, was signalled, or whose agent is over.
LEMMA EndKeeps ==
    ASSUME IInv, NEW t \in Tasks, NEW to \in Terminal, TransitionIf(Present(t) /\ ~IsTerminal(t), t, tasks[t], to),
           spawn[t] \in {"submitted", "failed"}, spawn[t] = "submitted" => token[t] \/ agent[t].phase = "over",
           cancels' \in [Tasks -> SUBSET {"begin", "commit"}], outcome' \in [Tasks -> Terminal \cup {"none", "taken"}],
           \A u \in Tasks \ {t} : cancels'[u] = cancels[u] /\ outcome'[u] = outcome[u],
           cancels'[t] \subseteq cancels[t], outcome'[t] # "none" => agent[t].phase = "over",
           UNCHANGED <<sinkSeq, token, connected, spawn, queue, worker, agent, inputs, approvals>>
    PROVE  IInv'
    <1>1. /\ tasks' \in [Tasks -> RecordType] /\ log' \in [Tasks -> Seq(EventType)] /\ StreamInv(t)'
          /\ \A u \in Tasks \ {t} : tasks'[u] = tasks[u] /\ log'[u] = log[u]
          /\ tasks'[t].token = tasks[t].token
          /\ \/ tasks'[t] = tasks[t] /\ log'[t] = log[t] /\ (~Present(t) \/ IsTerminal(t))
             \/ tasks'[t].state = to /\ Present(t) /\ ~IsTerminal(t)
        BY EndEffect
    <1>2. to \notin {"absent", "pending", "waiting_input", "waiting_approval"}
        BY DEF Terminal
    <1>3. TypeOK'
        BY <1>1 DEF IInv, TypeOK
    <1>4. \A u \in Tasks \ {t} : UNCHANGED Row(u)
        BY <1>1 DEF Row
    <1>5. LifeInv(t)'
        BY <1>1, <1>2, Facts DEF LifeInv, Present, IsTerminal
    <1>6. AskInv(t)'
        BY <1>1, <1>2, Facts DEF AskInv
    <1> QED BY <1>1, <1>3, <1>4, <1>5, <1>6, QueueKeeps, Gather

\* complete_task comes after the end of the work item.
LEMMA CompleteTaskKeeps ==
    ASSUME IInv, NEW t \in Tasks, CompleteTask(t)
    PROVE  IInv'
    <1>1. /\ outcome[t] \in Terminal /\ TransitionIf(Present(t) /\ ~IsTerminal(t), t, tasks[t], outcome[t])
          /\ outcome' = [outcome EXCEPT ![t] = "taken"]
          /\ UNCHANGED <<sinkSeq, token, cancels, connected, spawn, queue, worker, agent, inputs, approvals>>
        BY DEF CompleteTask, Complete, clientVars, poolVars, hitlVars
    <1>2. agent[t].phase = "over" /\ spawn[t] = "submitted"
        BY <1>1, Facts DEF LifeInv, Terminal
    <1>3. /\ cancels' \in [Tasks -> SUBSET {"begin", "commit"}] /\ outcome' \in [Tasks -> Terminal \cup {"none", "taken"}]
          /\ \A u \in Tasks \ {t} : cancels'[u] = cancels[u] /\ outcome'[u] = outcome[u]
          /\ cancels'[t] \subseteq cancels[t]
        BY <1>1 DEF IInv, TypeOK
    <1>4. PICK to \in Terminal : to = outcome[t]
        BY <1>1
    <1>5. TransitionIf(Present(t) /\ ~IsTerminal(t), t, tasks[t], to)
        BY <1>1, <1>4
    <1>6. UNCHANGED <<sinkSeq, token, connected, spawn, queue, worker, agent, inputs, approvals>>
        BY <1>1
    <1> QED BY <1>2, <1>3, <1>5, <1>6, EndKeeps

\* The second half of cancel_task comes after the first, which signalled.
LEMMA CommitCancelKeeps ==
    ASSUME IInv, NEW t \in Tasks, CommitCancel(t)
    PROVE  IInv'
    <1>1. /\ "commit" \in cancels[t] /\ cancels' = [cancels EXCEPT ![t] = @ \ {"commit"}]
          /\ TransitionIf(Present(t) /\ ~IsTerminal(t), t, tasks[t], "cancelled")
          /\ UNCHANGED <<sinkSeq, token, connected, spawn, queue, worker, agent, inputs, approvals, outcome>>
        BY DEF CommitCancel, poolVars, hitlVars
    <1>2. "cancelled" \in Terminal /\ spawn[t] \in {"submitted", "failed"}
          /\ (spawn[t] = "submitted" => token[t] \/ agent[t].phase = "over")
        BY <1>1, Facts DEF LifeInv, Terminal
    <1>3. /\ cancels' \in [Tasks -> SUBSET {"begin", "commit"}] /\ outcome' \in [Tasks -> Terminal \cup {"none", "taken"}]
          /\ \A u \in Tasks \ {t} : cancels'[u] = cancels[u] /\ outcome'[u] = outcome[u]
          /\ cancels'[t] \subseteq cancels[t]
        BY <1>1 DEF IInv, TypeOK
    <1>4. outcome'[t] # "none" => agent[t].phase = "over"
        BY <1>1, Facts DEF LifeInv
    <1>5. UNCHANGED <<sinkSeq, token, connected, spawn, queue, worker, agent, inputs, approvals>>
        BY <1>1
    <1> QED BY <1>1, <1>2, <1>3, <1>4, <1>5, EndKeeps

\* The first half signals the token of the record, if there is one.
LEMMA SignalCancelKeeps ==
    ASSUME IInv, NEW t \in Tasks, SignalCancel(t), spawn[t] \in {"submitted", "failed"}
    PROVE  IInv'
    <1> DEFINE b == token[t] \/ tasks[t].token
               c == (cancels[t] \ {"begin"}) \cup {"commit"}
    <1>1. /\ token' = [token EXCEPT ![t] = b] /\ cancels' = [cancels EXCEPT ![t] = c]
          /\ UNCHANGED <<tasks, log, sinkSeq, connected, spawn, queue, worker, agent, inputs, approvals, outcome>>
        BY DEF SignalCancel, managerVars, poolVars, hitlVars
    <1>2. b \in BOOLEAN /\ c \in SUBSET {"begin", "commit"} /\ (token[t] => b) /\ (tasks[t].token => b)
        BY Facts
    <1> HIDE DEF b, c
    <1>3. token'[t] = b /\ cancels'[t] = c /\ TypeOK'
        BY <1>1, <1>2 DEF IInv, TypeOK
    <1>4. \A u \in Tasks \ {t} : UNCHANGED Row(u)
        BY <1>1 DEF IInv, TypeOK, Row
    <1>5. LifeInv(t)'
        <2>1. spawn[t] = "submitted" => b \/ agent[t].phase = "over"
            BY <1>2, Facts DEF LifeInv
        <2> QED BY <1>1, <1>2, <1>3, <2>1, Facts DEF LifeInv, Present, IsTerminal
    <1>6. AskInv(t)'
        BY <1>1, <1>2, <1>3, Facts DEF AskInv
    <1>7. StreamInv(t)'
        BY <1>1, Facts, StreamKeeps
    <1> QED BY <1>1, <1>3, <1>4, <1>5, <1>6, <1>7, QueueKeeps, Gather

\* The end of the connection collects the live tasks that it spawned.
LEMMA DisconnectKeeps ==
    ASSUME IInv, Disconnect
    PROVE  IInv'
    <1>1. /\ \A t \in ConnTasks : spawn[t] \in {"new", "submitted", "failed"}
          /\ connected' = FALSE
          /\ cancels' = [t \in Tasks |-> IF t \in ConnTasks /\ Present(t) /\ ~IsTerminal(t)
                                         THEN cancels[t] \cup {"begin"} ELSE cancels[t]]
          /\ UNCHANGED <<tasks, log, sinkSeq, token, spawn, queue, worker, agent, inputs, approvals, outcome>>
        BY DEF Disconnect, managerVars, poolVars, hitlVars
    <1>2. TypeOK'
        BY <1>1 DEF IInv, TypeOK
    <1>3. ASSUME NEW t \in Tasks PROVE LifeInv(t)' /\ AskInv(t)' /\ StreamInv(t)'
        <2>1. cancels'[t] = cancels[t] \/ (cancels'[t] = cancels[t] \cup {"begin"} /\ spawn[t] \in {"submitted", "failed"})
            BY <1>1, Facts DEF LifeInv
        <2>2. LifeInv(t)'
            BY <1>1, <2>1, Facts DEF LifeInv, Present, IsTerminal
        <2>3. AskInv(t)'
            BY <1>1, Facts DEF AskInv
        <2>4. StreamInv(t)'
            BY <1>1, Facts, StreamKeeps
        <2> QED BY <2>2, <2>3, <2>4
    <1>4. QueueInv'
        BY <1>1, QueueKeeps
    <1> QED BY <1>2, <1>3, <1>4 DEF IInv

\* An evicted record was terminal.
LEMMA CleanupExpiredKeeps ==
    ASSUME IInv, NEW t \in Tasks, CleanupExpired(t)
    PROVE  IInv'
    <1>1. /\ IsTerminal(t) /\ tasks' = [tasks EXCEPT ![t] = Absent]
          /\ log' = (IF agent[t].phase \in {"none", "over"} THEN [log EXCEPT ![t] = <<>>] ELSE log)
          /\ UNCHANGED <<sinkSeq, token, cancels, connected, spawn, queue, worker, agent, inputs, approvals, outcome>>
        BY DEF CleanupExpired, clientVars, poolVars, hitlVars
    <1>2. Absent \in RecordType /\ Absent.state = "absent" /\ <<>> \in Seq(EventType)
        BY DEF Absent, RecordType
    <1>3. /\ tasks' \in [Tasks -> RecordType] /\ tasks'[t] = Absent /\ log' \in [Tasks -> Seq(EventType)]
          /\ log'[t] \in {<<>>, log[t]} /\ \A u \in Tasks \ {t} : tasks'[u] = tasks[u] /\ log'[u] = log[u]
        BY <1>1, <1>2, Facts
    <1>4. TypeOK'
        BY <1>1, <1>3 DEF IInv, TypeOK
    <1>5. \A u \in Tasks \ {t} : UNCHANGED Row(u)
        BY <1>1, <1>3 DEF Row
    <1>6. LifeInv(t)'
        <2>1. tasks'[t].state = "absent" /\ tasks[t].state # "pending" /\ tasks[t].state # "absent"
            BY <1>1, <1>2, <1>3 DEF IsTerminal, Terminal
        <2>2. spawn[t] \in {"submitted", "failed"}
            BY <2>1, Facts DEF LifeInv, Present, IInv, TypeOK
        <2> QED BY <1>1, <2>1, <2>2, Facts DEF LifeInv, Present, IsTerminal, Terminal
    <1>7. AskInv(t)'
        BY <1>1, <1>2, <1>3, Facts DEF AskInv
    <1>8. StreamInv(t)'
        BY <1>2, <1>3, Facts DEF StreamInv, Present, Settled
    <1> QED BY <1>1, <1>4, <1>5, <1>6, <1>7, <1>8, QueueKeeps, Gather

\* A paused task is not a waiting one, nor is a resumed one.
LEMMA PauseResumeKeep ==
    ASSUME IInv, NEW t \in Tasks, PauseTask(t) \/ ResumeTask(t)
    PROVE  IInv'
    <1>1. PICK to \in {"running", "paused"} :
             /\ Transition(t, tasks[t], to) /\ Known(t) /\ tasks[t].state \in {"running", "paused"}
             /\ UNCHANGED <<sinkSeq, token, cancels, connected, spawn, queue, worker, agent, inputs, approvals, outcome>>
        BY DEF PauseTask, ResumeTask, clientVars, poolVars, hitlVars
    <1>2. spawn[t] = "submitted" /\ Present(t) /\ ~IsTerminal(t) /\ tasks[t] \in RecordType /\ to \in TaskState
        BY <1>1, Facts DEF Known, IsTerminal, Terminal, TaskState
    <1>3. tasks'[t].state = to
        BY <1>1, <1>2, TransitionEffect
    <1>4. AskInv(t)'
        BY <1>1, <1>3, Facts DEF AskInv
    <1>5. /\ agent' \in [Tasks -> AgentType] /\ inputs' \in [Tasks -> Nat] /\ approvals' \in [Tasks -> Seq(ToolCalls)]
          /\ agent' = agent /\ inputs' = inputs /\ approvals' = approvals
        BY <1>1, Facts DEF IInv, TypeOK
    <1>6. UNCHANGED <<sinkSeq, token, cancels, connected, spawn, queue, worker, outcome>>
        BY <1>1
    <1> QED BY <1>1, <1>2, <1>4, <1>5, <1>6, LiveTransition

\* An answer is accepted once, while the agent asks for it.
LEMMA AnswerKeeps ==
    ASSUME IInv, NEW t \in Tasks, ProvideInput(t) \/ \E c \in ToolCalls : RespondApproval(t, c)
    PROVE  IInv'
    <1>1. spawn[t] = "submitted" /\ Present(t) /\ agent[t].phase # "over" /\ tasks[t] \in RecordType
        BY Facts DEF ProvideInput, RespondApproval, Answerable, Known
    <1>2. UNCHANGED <<sinkSeq, token, cancels, connected, spawn, queue, worker, agent, outcome>>
        BY DEF ProvideInput, RespondApproval, clientVars, poolVars
    <1>3. agent' = agent /\ agent' \in [Tasks -> AgentType] /\ "running" \in TaskState
        BY <1>2, Facts DEF TaskState
    <1>4. CASE ProvideInput(t)
        <2>1. tasks[t].state = "waiting_input" /\ inputs' = [inputs EXCEPT ![t] = @ + 1] /\ approvals' = approvals
              /\ Transition(t, tasks[t], "running")
            BY <1>4 DEF ProvideInput
        <2>2. agent[t].asks = "input" /\ inputs[t] = 0 /\ ~IsTerminal(t)
            BY <1>1, <2>1, Facts DEF AskInv, IsTerminal, Terminal
        <2>3. inputs' \in [Tasks -> Nat] /\ inputs'[t] = 1 /\ approvals' \in [Tasks -> Seq(ToolCalls)]
              /\ \A u \in Tasks \ {t} : inputs'[u] = inputs[u] /\ approvals'[u] = approvals[u]
            BY <2>1, <2>2 DEF IInv, TypeOK
        <2>4. tasks'[t].state = "running"
            BY <1>1, <1>3, <2>1, TransitionEffect
        <2>5. AskInv(t)'
            BY <1>3, <2>1, <2>2, <2>3, <2>4, Facts DEF AskInv
        <2> QED BY <1>1, <1>2, <1>3, <2>1, <2>2, <2>3, <2>5, LiveTransition
    <1>5. ASSUME NEW c \in ToolCalls, RespondApproval(t, c) PROVE IInv'
        <2> DEFINE r == [tasks[t] EXCEPT !.pending = None]
        <2>1. tasks[t].state = "waiting_approval" /\ tasks[t].pending \in {None, c} /\ inputs' = inputs
              /\ approvals' = [approvals EXCEPT ![t] = Append(@, c)] /\ Transition(t, r, "running")
            BY <1>5 DEF RespondApproval
        <2>2. agent[t].asks = c /\ approvals[t] = <<>> /\ ~IsTerminal(t)
            BY <1>1, <2>1, Facts DEF AskInv, IsTerminal, Terminal
        <2>3. Append(approvals[t], c) = <<c>> /\ <<c>> \in Seq(ToolCalls)
            BY <2>2
        <2>4. inputs' \in [Tasks -> Nat] /\ approvals' \in [Tasks -> Seq(ToolCalls)] /\ approvals'[t] = <<c>>
              /\ \A u \in Tasks \ {t} : inputs'[u] = inputs[u] /\ approvals'[u] = approvals[u]
            BY <2>1, <2>3 DEF IInv, TypeOK
        <2>5. r \in RecordType /\ r.token = tasks[t].token
            BY <1>1 DEF RecordType
        <2> HIDE DEF r
        <2>6. tasks'[t].state = "running"
            BY <1>3, <2>1, <2>5, TransitionEffect
        <2>7. AskInv(t)'
            BY <1>3, <2>1, <2>2, <2>4, <2>6, Facts DEF AskInv
        <2> QED BY <1>1, <1>2, <1>3, <2>1, <2>2, <2>4, <2>5, <2>7, LiveTransition
    <1> QED BY <1>4, <1>5

-----------------------------------------------------------------------------
(* The invariant and the properties.                                         *)

\* The invariant holds at first.
LEMMA InitInvariant ==
    ASSUME Init
    PROVE  IInv
    <1>1. TypeOK
        <2>1. Absent \in RecordType /\ [phase |-> "none", asks |-> None, hitl |-> FALSE] \in AgentType
            BY DEF Absent, RecordType, AgentType
        <2>2. /\ <<>> \in Seq(EventType) /\ <<>> \in Seq(Tasks) /\ <<>> \in Seq(ToolCalls) /\ TRUE \in BOOLEAN
              /\ {} \in SUBSET {"begin", "commit"} /\ 0 \in Nat
            OBVIOUS
        <2> QED BY <2>1, <2>2 DEF Init, TypeOK, AgentType
    <1>2. QueueInv
        BY DEF Init, QueueInv
    <1>3. ASSUME NEW t \in Tasks PROVE LifeInv(t) /\ AskInv(t) /\ StreamInv(t)
        <2>1. /\ tasks[t].state = "absent" /\ log[t] = <<>> /\ cancels[t] = {} /\ spawn[t] = "new" /\ outcome[t] = "none"
              /\ agent[t].phase = "none" /\ agent[t].asks = None /\ inputs[t] = 0 /\ approvals[t] = <<>>
            BY DEF Init, Absent
        <2>2. LifeInv(t) /\ AskInv(t)
            BY <2>1 DEF LifeInv, AskInv, Present
        <2>3. StreamInv(t)
            BY <2>1 DEF StreamInv, Present, Settled
        <2> QED BY <2>2, <2>3
    <1> QED BY <1>1, <1>2, <1>3 DEF IInv

\* Every step keeps the invariant.
LEMMA NextKeeps ==
    ASSUME IInv, Next
    PROVE  IInv'
    <1>1. ASSUME NEW t \in Tasks, ServerStep(t) PROVE IInv'
        <2>1. CASE CommitCancel(t)
            BY <2>1, CommitCancelKeeps
        <2>2. CASE CancelCollected(t)
            <3>1. SignalCancel(t) /\ spawn[t] \in {"submitted", "failed"}
                BY <2>2, Facts DEF CancelCollected, LifeInv
            <3> QED BY <3>1, SignalCancelKeeps
        <2>3. CASE CompleteTask(t)
            BY <2>3, CompleteTaskKeeps
        <2> QED BY <1>1, <2>1, <2>2, <2>3 DEF ServerStep
    <1>2. ASSUME NEW t \in Tasks, ClientStep(t) PROVE IInv'
        <2>1. CASE CancelTask(t)
            BY <2>1, SignalCancelKeeps DEF CancelTask, Known
        <2> QED BY <1>2, <2>1, PauseResumeKeep, AnswerKeeps DEF ClientStep
    <1>3. Attended \subseteq Tasks
        BY TaskServiceAssumption
    <1> QED BY <1>1, <1>2, <1>3, SpawnStepKeeps, CleanupExpiredKeeps, WorkersKeep, DisconnectKeeps DEF Next

\* The inductive invariant: who ends a task has told its agent, questions have
\* their answers, streams are settled, and the queue holds a task once.
THEOREM Invariant == Spec => []IInv
    <1>1. Init => IInv
        BY InitInvariant
    <1>2. IInv /\ [Next]_vars => IInv'
        <2> SUFFICES ASSUME IInv, [Next]_vars PROVE IInv'
            OBVIOUS
        <2>1. CASE UNCHANGED vars
            <3>1. UNCHANGED <<tasks, log, sinkSeq, token, cancels, connected, spawn, queue, worker, agent, inputs, approvals, outcome>>
                BY <2>1 DEF vars
            <3>2. TypeOK' /\ QueueInv'
                BY <3>1 DEF IInv, TypeOK, QueueInv
            <3>3. ASSUME NEW t \in Tasks PROVE TaskInv(t)'
                <4>1. UNCHANGED Row(t) /\ TaskInv(t)
                    BY <3>1 DEF Row, IInv, TaskInv
                <4> QED BY <4>1, RowKeeps
            <3> QED BY <3>2, <3>3 DEF IInv, TaskInv
        <2> QED BY <2>1, NextKeeps
    <1> QED BY <1>1, <1>2, PTL DEF Spec

\* Every variable keeps its type.
THEOREM TypeCorrect == Spec => []TypeOK
    <1>1. IInv => TypeOK
        BY DEF IInv
    <1> QED BY <1>1, Invariant, PTL

\* An agent that outlives its task has been told to stop.
THEOREM ToldTheorem == Spec => []LiveAgentIsTold
    <1>1. IInv => LiveAgentIsTold
        <2> SUFFICES ASSUME IInv, NEW t \in Tasks, agent[t].phase \in Live
                     PROVE  tasks[t].state \in {"running", "paused", "waiting_input", "waiting_approval"} \/ token[t]
            BY DEF LiveAgentIsTold
        <2>1. LifeInv(t) /\ tasks[t].state \in TaskState \cup {"absent"}
            BY Facts
        <2>2. agent[t].phase \notin {"none", "over"}
            BY DEF Live
        <2> QED BY <2>1, <2>2 DEF LifeInv, Present, IsTerminal, TaskState
    <1> QED BY <1>1, Invariant, PTL

\* Answers and questions pair up.
THEOREM AnswersTheorem == Spec => []AnswersMatchQuestions
    <1>1. IInv => AnswersMatchQuestions
        <2> SUFFICES ASSUME IInv, NEW t \in Tasks
                     PROVE  /\ tasks[t].state = "waiting_input" => (agent[t].asks = "input" /\ inputs[t] = 0) \/ token[t]
                            /\ tasks[t].state = "waiting_approval" =>
                                 (agent[t].asks = tasks[t].pending /\ approvals[t] = <<>>) \/ token[t]
                            /\ inputs[t] > 0 => inputs[t] = 1 /\ agent[t].asks = "input"
                            /\ approvals[t] # <<>> => approvals[t] = <<agent[t].asks>>
            BY DEF AnswersMatchQuestions
        <2>1. AskInv(t) /\ inputs[t] \in Nat
            BY Facts
        <2> QED BY <2>1 DEF AskInv
    <1> QED BY <1>1, Invariant, PTL

\* Whoever replays a stream knows the state.
THEOREM StreamTheorem == Spec => []StreamTellsState
    <1>1. IInv => StreamTellsState
        BY DEF IInv, StreamInv, Tells, StreamTellsState
    <1> QED BY <1>1, Invariant, PTL

\* No state change follows a terminal event.
THEOREM TerminalTheorem == Spec => []OneTerminalEvent
    <1>1. IInv => OneTerminalEvent
        BY DEF IInv, StreamInv, Settled, OneTerminalEvent
    <1> QED BY <1>1, Invariant, PTL

-----------------------------------------------------------------------------
(* The scheduler, which creates tasks (Scheduler), for any number of          *)
(* schedules, every set of occurrences and every policy of each, and any      *)
(* number of faults.                                                          *)

-----------------------------------------------------------------------------
(* The elements of a finite set in order.                                    *)

\* The set of the elements of S below x.
Below(S, x) == {y \in S : y < x}

\* Of two integers the larger has at least as many elements of S below it, and
\* more if the smaller is in S.
LEMMA BelowGrows ==
    ASSUME NEW S, IsFiniteSet(S), S \subseteq Int, NEW x \in Int, NEW z \in Int, x <= z
    PROVE  /\ Cardinality(Below(S, x)) \in Nat /\ Cardinality(Below(S, z)) \in Nat
           /\ Cardinality(Below(S, x)) <= Cardinality(Below(S, z))
           /\ x \in S /\ x < z => Cardinality(Below(S, x)) < Cardinality(Below(S, z))
    <1>1. Below(S, z) \in SUBSET S /\ Below(S, x) \in SUBSET Below(S, z)
        <2>1. \A y \in S : y < x => y < z
            OBVIOUS
        <2> QED BY <2>1 DEF Below
    <1>2. IsFiniteSet(Below(S, z)) /\ IsFiniteSet(Below(S, x))
        BY <1>1, FS_Subset
    <1>3. Cardinality(Below(S, x)) \in Nat /\ Cardinality(Below(S, z)) \in Nat
        BY <1>2, FS_CardinalityType
    <1>4. /\ Cardinality(Below(S, x)) <= Cardinality(Below(S, z))
          /\ Cardinality(Below(S, z)) = Cardinality(Below(S, x)) => Below(S, z) = Below(S, x)
        BY <1>1, <1>2, FS_Subset
    <1>5. x \in S /\ x < z => x \in Below(S, z) /\ x \notin Below(S, x)
        BY DEF Below
    <1> QED BY <1>3, <1>4, <1>5

\* Every rank below the size of S is the rank of one of its elements.
LEMMA Ranks ==
    ASSUME NEW S, IsFiniteSet(S), S \subseteq Int, NEW k \in 0 .. Cardinality(S) - 1
    PROVE  \E x \in S : Cardinality(Below(S, x)) = k
    <1> DEFINE T == 0 .. Cardinality(S) - 1
               rank == [x \in S |-> Cardinality(Below(S, x))]
    <1>1. Cardinality(S) \in Nat
        BY FS_CardinalityType
    <1>2. IsFiniteSet(T) /\ Cardinality(T) = Cardinality(S)
        BY <1>1, FS_Interval
    <1>3. ASSUME NEW x \in S PROVE Cardinality(Below(S, x)) \in T
        <2>1. Below(S, x) \in SUBSET S /\ x \notin Below(S, x)
            BY DEF Below
        <2>2. Cardinality(Below(S, x)) <= Cardinality(S) /\ Cardinality(Below(S, x)) # Cardinality(S)
            BY <2>1, FS_Subset
        <2>3. Cardinality(Below(S, x)) \in Nat
            BY <2>1, FS_Subset, FS_CardinalityType
        <2> QED BY <1>1, <2>2, <2>3
    <1>4. \A x, z \in S : rank[x] = rank[z] => x = z
        <2> SUFFICES ASSUME NEW x \in S, NEW z \in S, Cardinality(Below(S, x)) = Cardinality(Below(S, z)), x < z
                     PROVE  FALSE
            OBVIOUS
        <2>1. x \in Int /\ z \in Int /\ x <= z
            OBVIOUS
        <2>2. Cardinality(Below(S, x)) < Cardinality(Below(S, z)) /\ Cardinality(Below(S, x)) \in Nat
            BY <2>1, BelowGrows
        <2> QED BY <2>2
    <1>5. rank \in Injection(S, T)
        <2>1. rank \in [S -> T]
            BY <1>3
        <2> HIDE DEF rank, T
        <2> QED BY <1>4, <2>1 DEF Injection, IsInjective
    <1> HIDE DEF rank, T
    <1>6. rank \in Surjection(S, T)
        BY <1>2, <1>5, FS_Injection
    <1>7. PICK x \in S : rank[x] = k
        BY <1>6 DEF Surjection, T
    <1> QED BY <1>7 DEF rank

\* InOrder lists elements of the set, in strictly increasing order.
LEMMA InOrderIncreases ==
    ASSUME NEW S, IsFiniteSet(S), S \subseteq Int, NEW n \in Nat
    PROVE  /\ InOrder(S, n) \in Seq(S)
           /\ \A i, j \in DOMAIN InOrder(S, n) : i < j => InOrder(S, n)[i] < InOrder(S, n)[j]
    <1> DEFINE f == InOrder(S, n)
               m == IF Cardinality(S) < n THEN Cardinality(S) ELSE n
    <1>1. Cardinality(S) \in Nat /\ m \in Nat /\ m <= Cardinality(S)
        BY FS_CardinalityType
    <1>2. f = [i \in 1 .. m |-> CHOOSE x \in S : Cardinality(Below(S, x)) = i - 1]
        BY DEF InOrder, Below
    <1> HIDE DEF f, m
    <1>3. ASSUME NEW i \in 1 .. m PROVE f[i] \in S /\ Cardinality(Below(S, f[i])) = i - 1
        <2>1. i - 1 \in 0 .. Cardinality(S) - 1
            BY <1>1
        <2>2. \E x \in S : Cardinality(Below(S, x)) = i - 1
            BY <2>1, Ranks
        <2> QED BY <1>2, <2>2
    <1>4. f \in [1 .. m -> S]
        BY <1>2, <1>3
    <1>5. f \in Seq(S)
        BY <1>1, <1>4
    <1>6. ASSUME NEW i \in 1 .. m, NEW j \in 1 .. m, i < j PROVE f[i] < f[j]
        <2>1. f[i] \in Int /\ f[j] \in Int
            BY <1>3
        <2>2. f[j] <= f[i] => Cardinality(Below(S, f[j])) <= Cardinality(Below(S, f[i]))
            BY <2>1, BelowGrows
        <2> QED BY <1>1, <1>3, <1>6, <2>1, <2>2
    <1>7. DOMAIN f = 1 .. m
        BY <1>4
    <1> QED BY <1>5, <1>6, <1>7 DEF f

-----------------------------------------------------------------------------
(* The calls of a tick and of a backfill.                                    *)

\* Sequences of calls.
LEMMA CallType ==
    ASSUME NEW s \in Seq(Entries \X Nat), NEW i \in DOMAIN s
    PROVE  s[i][1] \in Entries /\ s[i][2] \in Nat /\ s[i] = <<s[i][1], s[i][2]>>
    <1>1. s[i] \in Entries \X Nat
        OBVIOUS
    <1> QED BY <1>1

\* The head of the calls and what is behind it.
LEMMA TailCalls ==
    ASSUME NEW s \in Seq(Entries \X Nat), s # <<>>
    PROVE  /\ Tail(s) \in Seq(Entries \X Nat) /\ 1 \in DOMAIN s /\ Head(s) = s[1]
           /\ Head(s)[1] \in Entries /\ Head(s)[2] \in Nat
           /\ \A i \in DOMAIN Tail(s) : i + 1 \in DOMAIN s /\ Tail(s)[i] = s[i + 1] /\ i \in Nat /\ i + 1 > 1
    <1>1. Tail(s) \in Seq(Entries \X Nat) /\ 1 \in DOMAIN s /\ Head(s) = s[1]
        OBVIOUS
    <1>2. \A i \in DOMAIN Tail(s) : i + 1 \in DOMAIN s /\ Tail(s)[i] = s[i + 1] /\ i \in Nat /\ i + 1 > 1
        OBVIOUS
    <1> QED BY <1>1, <1>2, CallType

\* The occurrences of a schedule are finitely many naturals.
LEMMA DueFinite ==
    ASSUME NEW e \in Entries
    PROVE  Due[e] \subseteq Nat /\ IsFiniteSet(Due[e])
    <1>1. Due[e] \in SUBSET (1 .. MaxTime) /\ MaxTime \in Nat
        BY SchedulerAssumption
    <1>2. IsFiniteSet(1 .. MaxTime)
        BY <1>1, FS_Interval
    <1> QED BY <1>1, <1>2, FS_Subset

\* What a backfill calls: missed occurrences of the schedule, in order.
LEMMA BackfillCalls ==
    ASSUME SchedulerTypeOK, NEW e \in Entries, NEW s, s = Calls(e, InOrder(Missed(e), BackfillCap))
    PROVE  /\ s \in Seq(Entries \X Nat)
           /\ \A i \in DOMAIN s : s[i][1] = e /\ s[i][2] \in Missed(e)
           /\ \A i, j \in DOMAIN s : i < j => s[i][2] < s[j][2]
    <1> DEFINE times == InOrder(Missed(e), BackfillCap)
    <1>1. Missed(e) \in SUBSET Due[e]
        BY DEF Missed, After
    <1>2. IsFiniteSet(Missed(e)) /\ Missed(e) \subseteq Nat
        BY <1>1, DueFinite, FS_Subset
    <1>3. /\ times \in Seq(Missed(e))
          /\ \A i, j \in DOMAIN times : i < j => times[i] < times[j]
        BY <1>2, InOrderIncreases, SchedulerAssumption
    <1>4. s = [i \in DOMAIN times |-> <<e, times[i]>>]
        BY DEF Calls
    <1> HIDE DEF times
    <1>5. DOMAIN times = 1 .. Len(times) /\ Len(times) \in Nat /\ \A i \in DOMAIN times : times[i] \in Missed(e)
        BY <1>3
    <1>6. \A i \in DOMAIN times : s[i] = <<e, times[i]>> /\ s[i] \in Entries \X Nat
        BY <1>2, <1>4, <1>5
    <1>7. s \in Seq(Entries \X Nat) /\ DOMAIN s = DOMAIN times
        BY <1>4, <1>5, <1>6
    <1> QED BY <1>3, <1>5, <1>6, <1>7

\* What a tick calls: every schedule with an occurrence since the last one, once.
LEMMA TickCalls ==
    ASSUME SchedulerTypeOK, Wake
    PROVE  /\ todo' \in Seq(Entries \X Nat)
           /\ \A i \in DOMAIN todo' : todo'[i][2] = clock /\ Elapsed(todo'[i][1], last_tick)
           /\ \A i, j \in DOMAIN todo' : i < j => todo'[i][1] # todo'[j][1]
    <1> DEFINE S == {e \in Entries : Elapsed(e, last_tick)}
               due == InOrder(S, N)
    <1>1. S \in SUBSET Entries
        OBVIOUS
    <1>2. IsFiniteSet(Entries) /\ Entries \subseteq Int
        BY SchedulerAssumption, FS_Interval DEF Entries
    <1>3. IsFiniteSet(S) /\ S \subseteq Int
        BY <1>1, <1>2, FS_Subset
    <1>4. todo' = [i \in DOMAIN due |-> <<due[i], clock>>]
        BY DEF Wake
    <1>5. S \subseteq Entries /\ \A e \in S : Elapsed(e, last_tick)
        OBVIOUS
    <1> HIDE DEF S
    <1>6. due \in Seq(S) /\ \A i, j \in DOMAIN due : i < j => due[i] < due[j]
        BY <1>3, InOrderIncreases, SchedulerAssumption
    <1> HIDE DEF due
    <1>7. DOMAIN due = 1 .. Len(due) /\ Len(due) \in Nat /\ \A i \in DOMAIN due : due[i] \in S
        BY <1>6
    <1>8. \A i \in DOMAIN due : todo'[i] = <<due[i], clock>> /\ todo'[i] \in Entries \X Nat
        BY <1>4, <1>5, <1>7 DEF SchedulerTypeOK
    <1>9. todo' \in Seq(Entries \X Nat) /\ DOMAIN todo' = DOMAIN due
        BY <1>4, <1>7, <1>8
    <1>10. \A i, j \in DOMAIN due : i < j => due[i] # due[j]
        <2>1. \A i \in DOMAIN due : due[i] \in Int
            BY <1>3, <1>7
        <2> QED BY <1>6, <2>1
    <1> QED BY <1>5, <1>7, <1>8, <1>9, <1>10

-----------------------------------------------------------------------------
(* Types and times.                                                          *)

\* A write of the .last_fire file changes one schedule's, or fails and may leave
\* it unreadable.
LEMMA WriteEffect ==
    ASSUME SchedulerTypeOK, NEW e \in Entries, NEW t \in Nat, WriteLastFire(e, t)
    PROVE  /\ disk' \in [Entries -> Nat \cup {NoFire}] /\ faults' \in Nat
           /\ disk'[e] \in {disk[e], t, NoFire}
           /\ \A k \in Entries \ {e} : disk'[k] = disk[k]
    <1>1. disk \in [Entries -> Nat \cup {NoFire}] /\ faults \in Nat
        BY DEF SchedulerTypeOK
    <1> QED BY <1>1 DEF WriteLastFire

\* SchedulerTypeOK is preserved by every step.
LEMMA TypeInductive ==
    ASSUME SchedulerTypeOK, PersistsLastTask, [SchedulerNext]_schedulerVars
    PROVE  SchedulerTypeOK'
    <1> USE SchedulerAssumption DEF SchedulerTypeOK
    <1>1. CASE Tick \/ Start \/ Crash
        <2>1. <<>> \in Seq(Entries \X Nat) /\ 1 \in 1 .. (N + 1) /\ clock + 1 \in Nat /\ faults + 1 \in Nat
            OBVIOUS
        <2>2. CASE Tick
            BY <2>1, <2>2 DEF Tick, volatile
        <2>3. CASE Start
            BY <2>1, <2>3 DEF Start
        <2>4. CASE Crash
            BY <2>1, <2>4 DEF Crash
        <2> QED BY <1>1, <2>2, <2>3, <2>4
    <1>2. CASE HandleMissed
        <2>1. entry \in Entries /\ entry' \in 1 .. (N + 1)
            BY <1>2 DEF HandleMissed, Entries
        <2>2. disk' \in [Entries -> Nat \cup {NoFire}] /\ faults' \in Nat
            BY <1>2, <2>1, WriteEffect DEF HandleMissed
        <2>3. <<<<entry, now>>>> \in Seq(Entries \X Nat)
            BY <2>1
        <2>4. todo' \in Seq(Entries \X Nat)
            BY <1>2, <2>1, <2>3, BackfillCalls DEF HandleMissed
        <2> QED BY <1>2, <2>1, <2>2, <2>4 DEF HandleMissed
    <1>3. CASE EnterLoop
        BY <1>3 DEF EnterLoop
    <1>4. CASE Wake
        BY <1>4, TickCalls DEF Wake
    <1>5. CASE CreateTask
        <2>1. Head(todo)[1] \in Entries /\ Head(todo)[2] \in Nat
            BY <1>5, TailCalls DEF CreateTask
        <2> DEFINE e == Head(todo)[1]
                   stale == created[e] # <<>> /\ disk[e] # created[e][Len(created[e])].at
        <2>2. stale \in BOOLEAN
            OBVIOUS
        <2>3. created' = [created EXCEPT ![e] = Append(@, [at |-> Head(todo)[2], stale |-> stale])]
            BY <1>5 DEF CreateTask
        <2> HIDE DEF stale
        <2>4. [at |-> Head(todo)[2], stale |-> stale] \in Fire
            BY <2>1, <2>2 DEF Fire
        <2>5. created[e] \in Seq(Fire)
            BY <2>1
        <2>6. Append(created[e], [at |-> Head(todo)[2], stale |-> stale]) \in Seq(Fire)
            BY <2>4, <2>5
        <2>7. created' \in [Entries -> Seq(Fire)]
            BY <2>1, <2>3, <2>6
        <2> QED BY <1>5, <2>7 DEF CreateTask
    <1>6. CASE CreateFails
        BY <1>6, TailCalls DEF CreateFails
    <1>7. CASE Persist
        <2>1. /\ Tail(todo) \in Seq(Entries \X Nat)
              /\ Head(todo)[1] \in Entries /\ Head(todo)[2] \in Nat
            BY <1>7, TailCalls DEF Persist, PersistsLastTask
        <2>2. disk' \in [Entries -> Nat \cup {NoFire}] /\ faults' \in Nat
            BY <1>7, <2>1, WriteEffect DEF Persist
        <2> QED BY <1>7, <2>1, <2>2 DEF Persist
    <1>8. CASE UNCHANGED schedulerVars
        BY <1>8 DEF schedulerVars, volatile
    <1> HIDE DEF SchedulerTypeOK
    <1> QED BY <1>1, <1>2, <1>3, <1>4, <1>5, <1>6, <1>7, <1>8 DEF SchedulerNext, Step

\* Every step keeps the scheduler's times in the past.
LEMMA PastStep ==
    ASSUME SchedulerTypeOK, SchedulerTypeOK', InThePast, PersistsLastTask, [SchedulerNext]_schedulerVars
    PROVE  InThePast'
    <1>1. clock \in Nat /\ now \in Nat /\ last_tick \in Nat /\ todo \in Seq(Entries \X Nat)
        BY DEF SchedulerTypeOK
    <1>2. CASE Tick
        <2>1. clock' = clock + 1 /\ UNCHANGED <<now, last_tick, todo>>
            BY <1>2 DEF Tick, volatile
        <2>2. \A i \in DOMAIN todo : todo[i][2] <= clock + 1
            BY <1>1, CallType DEF InThePast
        <2> QED BY <1>1, <2>1, <2>2 DEF InThePast
    <1>3. CASE Start \/ Crash
        BY <1>1, <1>3 DEF Start, Crash, InThePast
    <1>4. CASE HandleMissed
        <2>1. UNCHANGED <<clock, now, last_tick>> /\ entry \in Entries
            BY <1>4 DEF HandleMissed
        <2>2. \A d \in Missed(entry) : d <= now /\ d \in Nat
            BY <1>1, <2>1, DueFinite DEF Missed, After
        <2>3. \/ todo' = todo \/ todo' = <<>> \/ todo' = <<<<entry, now>>>>
              \/ todo' = Calls(entry, InOrder(Missed(entry), BackfillCap))
            BY <1>4 DEF HandleMissed
        <2>4. \A i \in DOMAIN todo' : todo'[i][2] <= now
            <3>1. CASE todo' = Calls(entry, InOrder(Missed(entry), BackfillCap))
                BY <2>1, <2>2, <3>1, BackfillCalls
            <3>2. CASE todo' = <<<<entry, now>>>>
                BY <1>1, <3>2
            <3> QED BY <1>4, <2>3, <3>1, <3>2 DEF HandleMissed
        <2>5. \A i \in DOMAIN todo' : todo'[i][2] \in Nat
            BY CallType DEF SchedulerTypeOK
        <2>6. \A i \in DOMAIN todo' : todo'[i][2] <= clock
            BY <1>1, <2>4, <2>5 DEF InThePast
        <2> QED BY <2>1, <2>6 DEF InThePast
    <1>5. CASE EnterLoop
        BY <1>1, <1>5 DEF EnterLoop, InThePast
    <1>6. CASE Wake
        BY <1>1, <1>6, TickCalls DEF Wake, InThePast
    <1>7. CASE CreateTask \/ UNCHANGED schedulerVars
        BY <1>7 DEF CreateTask, schedulerVars, volatile, InThePast
    <1>8. CASE CreateFails \/ Persist
        <2>1. todo # <<>> /\ todo' = Tail(todo) /\ UNCHANGED <<clock, now, last_tick>>
            BY <1>8 DEF CreateFails, Persist, PersistsLastTask
        <2> QED BY <1>1, <2>1, TailCalls DEF InThePast
    <1> QED BY <1>2, <1>3, <1>4, <1>5, <1>6, <1>7, <1>8 DEF SchedulerNext, Step

\* Creating a task appends its fire time to the schedule's tasks, marked stale
\* if the file does not name the one before it.
LEMMA CreateEffect ==
    ASSUME SchedulerTypeOK, CreateTask
    PROVE  LET e == Head(todo)[1]
               n == Len(created[e])
           IN  /\ todo # <<>> /\ e \in Entries /\ Head(todo)[2] \in Nat
               /\ created[e] \in Seq(Fire) /\ created'[e] # <<>>
               /\ n \in Nat /\ DOMAIN created[e] = 1 .. n /\ DOMAIN created'[e] = 1 .. n + 1 /\ Len(created'[e]) = n + 1
               /\ \A i \in 1 .. n : created'[e][i] = created[e][i]
               /\ created'[e][n + 1].at = Head(todo)[2]
               /\ created[e] # <<>> /\ disk[e] # created[e][n].at => created'[e][n + 1].stale
               /\ \A k \in Entries \ {e} : created'[k] = created[k]
    <1> DEFINE e == Head(todo)[1]
               n == Len(created[e])
               stale == created[e] # <<>> /\ disk[e] # created[e][n].at
               fire == [at |-> Head(todo)[2], stale |-> stale]
    <1>1. todo # <<>> /\ e \in Entries /\ Head(todo)[2] \in Nat /\ created[e] \in Seq(Fire)
        BY TailCalls DEF CreateTask, SchedulerTypeOK
    <1>2. created' = [created EXCEPT ![e] = Append(@, fire)]
        BY DEF CreateTask
    <1>3. stale \in BOOLEAN /\ (created[e] # <<>> /\ disk[e] # created[e][n].at => stale)
        OBVIOUS
    <1> HIDE DEF stale
    <1>4. fire.at = Head(todo)[2] /\ fire.stale = stale /\ fire \in Fire
        BY <1>1, <1>3 DEF Fire
    <1> HIDE DEF fire
    <1>5. created'[e] = Append(created[e], fire) /\ \A k \in Entries \ {e} : created'[k] = created[k]
        BY <1>1, <1>2 DEF SchedulerTypeOK
    <1>6. /\ n \in Nat /\ DOMAIN created[e] = 1 .. n /\ DOMAIN created'[e] = 1 .. n + 1 /\ Len(created'[e]) = n + 1
          /\ \A i \in 1 .. n : created'[e][i] = created[e][i]
          /\ created'[e][n + 1] = fire /\ created'[e] # <<>>
        BY <1>1, <1>4, <1>5
    <1> QED BY <1>1, <1>3, <1>4, <1>5, <1>6

\* Every step keeps the fire time about to be written that of the last task.
LEMMA PersistStep ==
    ASSUME SchedulerTypeOK, PersistsLastTask, [SchedulerNext]_schedulerVars
    PROVE  PersistsLastTask'
    <1>1. CASE CreateTask
        BY <1>1, CreateEffect DEF CreateTask, PersistsLastTask
    <1>2. CASE Tick \/ UNCHANGED schedulerVars
        BY <1>2 DEF Tick, schedulerVars, volatile, PersistsLastTask
    <1>3. CASE Start \/ Crash \/ HandleMissed \/ EnterLoop \/ Wake \/ CreateFails \/ Persist
        BY <1>3 DEF Start, Crash, HandleMissed, EnterLoop, Wake, CreateFails, Persist, PersistsLastTask
    <1> QED BY <1>1, <1>2, <1>3 DEF SchedulerNext, Step

\* Every step keeps the disk within the last tick of the main loop.
LEMMA TickStep ==
    ASSUME SchedulerTypeOK, InThePast, PersistsLastTask, TickCoversDisk, FileNeverLeads, [SchedulerNext]_schedulerVars
    PROVE  TickCoversDisk'
    <1>1. /\ clock \in Nat /\ last_tick \in Nat /\ todo \in Seq(Entries \X Nat)
          /\ \A e \in Entries : disk[e] \in Int
        BY DEF SchedulerTypeOK, NoFire
    <1>2. CASE Tick \/ CreateTask \/ UNCHANGED schedulerVars
        BY <1>2 DEF Tick, CreateTask, schedulerVars, volatile, TickCoversDisk
    <1>3. CASE Start \/ Crash \/ HandleMissed
        BY <1>3 DEF Start, Crash, HandleMissed, TickCoversDisk
    <1>4. \A e \in Entries : disk[e] <= clock
        BY <1>1 DEF FileNeverLeads, NoFire
    <1>5. CASE EnterLoop
        BY <1>4, <1>5 DEF EnterLoop, TickCoversDisk
    <1>6. CASE Wake
        BY <1>1, <1>4, <1>6, TickCalls DEF Wake, TickCoversDisk
    <1>7. CASE CreateFails
        <2>1. todo # <<>> /\ todo' = Tail(todo) /\ UNCHANGED <<pc, disk, last_tick>>
            BY <1>7 DEF CreateFails
        <2> QED BY <1>1, <2>1, TailCalls DEF TickCoversDisk
    <1>8. CASE Persist
        <2>1. /\ todo # <<>> /\ todo' = Tail(todo) /\ UNCHANGED <<pc, last_tick>>
              /\ WriteLastFire(Head(todo)[1], Head(todo)[2])
            BY <1>8 DEF Persist, PersistsLastTask
        <2>2. Head(todo)[1] \in Entries /\ Head(todo)[2] \in Nat /\ 1 \in DOMAIN todo /\ Head(todo) = todo[1]
            BY <1>1, <2>1, TailCalls
        <2>3. SUFFICES ASSUME pc = "loop" PROVE TickCoversDisk'
            BY <2>1 DEF TickCoversDisk
        <2>4. \A e \in Entries : disk'[e] <= last_tick
            BY <1>1, <2>1, <2>2, <2>3, WriteEffect DEF TickCoversDisk, NoFire
        <2> QED BY <1>1, <2>1, <2>3, <2>4, TailCalls DEF TickCoversDisk
    <1> QED BY <1>2, <1>3, <1>5, <1>6, <1>7, <1>8 DEF SchedulerNext, Step

\* Every step keeps the calls due.
LEMMA CallsStep ==
    ASSUME SchedulerTypeOK, PersistsLastTask, TickCoversDisk, CallsAreDue, [SchedulerNext]_schedulerVars
    PROVE  CallsAreDue'
    <1>1. /\ clock \in Nat /\ last_tick \in Nat /\ now \in Nat /\ todo \in Seq(Entries \X Nat)
          /\ \A e \in Entries : disk[e] \in Int
        BY DEF SchedulerTypeOK, NoFire
    <1>2. CASE Tick \/ EnterLoop \/ UNCHANGED schedulerVars
        BY <1>2 DEF Tick, EnterLoop, schedulerVars, volatile, CallsAreDue
    <1>3. CASE CreateTask
        <2>1. UNCHANGED <<todo, disk>> /\ ~firing
            BY <1>3 DEF CreateTask
        <2> QED BY <2>1 DEF CallsAreDue
    <1>4. CASE Start \/ Crash
        <2>1. todo' = <<>>
            BY <1>4 DEF Start, Crash
        <2> QED BY <2>1 DEF CallsAreDue
    <1>5. CASE HandleMissed
        <2>1. entry \in Entries /\ todo = <<>> /\ Due[entry] \subseteq Nat
            BY <1>5, DueFinite DEF HandleMissed
        <2>2. CASE todo' = <<>>
            BY <2>2 DEF CallsAreDue
        <2>3. CASE todo' = <<<<entry, now>>>> /\ UNCHANGED disk /\ Missed(entry) # {}
            <3>1. PICK d \in Due[entry] : disk[entry] < d /\ d <= now
                BY <1>1, <2>1, <2>3 DEF Missed, After
            <3>2. DOMAIN todo' = {1} /\ todo'[1][1] = entry /\ todo'[1][2] = now
                BY <2>3
            <3>3. \A i \in DOMAIN todo' : \E dd \in Due[todo'[i][1]] : disk'[todo'[i][1]] < dd /\ dd <= todo'[i][2]
                BY <2>3, <3>1, <3>2
            <3>4. \A i, j \in DOMAIN todo' : ~(i < j)
                BY <3>2
            <3> QED BY <3>3, <3>4 DEF CallsAreDue
        <2>4. CASE todo' = Calls(entry, InOrder(Missed(entry), BackfillCap)) /\ UNCHANGED disk
            <3>1. /\ \A i \in DOMAIN todo' : todo'[i][1] = entry /\ todo'[i][2] \in Missed(entry)
                  /\ \A i, j \in DOMAIN todo' : i < j => todo'[i][2] < todo'[j][2]
                BY <2>1, <2>4, BackfillCalls
            <3>2. \A d \in Missed(entry) : d \in Due[entry] /\ disk[entry] < d /\ d <= d
                BY <1>1, <2>1 DEF Missed, After
            <3>3. \A i \in DOMAIN todo' : \E dd \in Due[todo'[i][1]] : disk'[todo'[i][1]] < dd /\ dd <= todo'[i][2]
                BY <2>4, <3>1, <3>2
            <3>4. \A i, j \in DOMAIN todo' : i < j => \E dd \in Due[todo'[i][1]] : todo'[i][2] < dd /\ dd <= todo'[j][2]
                BY <3>1, <3>2
            <3> QED BY <3>3, <3>4 DEF CallsAreDue
        <2> QED BY <1>5, <2>1, <2>2, <2>3, <2>4 DEF HandleMissed
    <1>6. CASE Wake
        <2>1. /\ todo' \in Seq(Entries \X Nat)
              /\ \A i \in DOMAIN todo' : todo'[i][2] = clock /\ Elapsed(todo'[i][1], last_tick)
              /\ \A i, j \in DOMAIN todo' : i < j => todo'[i][1] # todo'[j][1]
            BY <1>6, TickCalls
        <2>2. UNCHANGED disk /\ \A e \in Entries : disk[e] <= last_tick
            BY <1>6 DEF Wake, TickCoversDisk
        <2>3. ASSUME NEW i \in DOMAIN todo'
              PROVE  \E d \in Due[todo'[i][1]] : disk'[todo'[i][1]] < d /\ d <= todo'[i][2]
            <3>1. todo'[i][1] \in Entries
                BY <2>1, CallType
            <3>2. PICK d \in Due[todo'[i][1]] : d > last_tick /\ d <= clock
                BY <2>1 DEF Elapsed, After
            <3>3. d \in Nat /\ disk[todo'[i][1]] \in Int
                BY <1>1, <3>1, <3>2, DueFinite
            <3>4. disk'[todo'[i][1]] < d /\ d <= todo'[i][2]
                BY <1>1, <2>1, <2>2, <3>1, <3>2, <3>3
            <3> QED BY <3>4
        <2> QED BY <2>1, <2>3 DEF CallsAreDue
    <1>7. CASE CreateFails \/ Persist
        <2>1. /\ todo # <<>> /\ todo' = Tail(todo) /\ ~firing'
              /\ disk' = disk \/ (firing /\ WriteLastFire(Head(todo)[1], Head(todo)[2]))
            BY <1>7 DEF CreateFails, Persist, PersistsLastTask
        <2>2. /\ Head(todo)[1] \in Entries /\ Head(todo)[2] \in Nat /\ 1 \in DOMAIN todo /\ Head(todo) = todo[1]
              /\ \A i \in DOMAIN todo' : i + 1 \in DOMAIN todo /\ todo'[i] = todo[i + 1] /\ i \in Nat /\ i + 1 > 1
            BY <1>1, <2>1, TailCalls
        <2>3. ASSUME NEW i \in DOMAIN todo'
              PROVE  \E d \in Due[todo'[i][1]] : disk'[todo'[i][1]] < d /\ d <= todo'[i][2]
            <3>1. todo[i + 1][1] \in Entries
                BY <1>1, <2>2, CallType
            <3>2. CASE disk'[todo[i + 1][1]] = disk[todo[i + 1][1]]
                BY <2>2, <3>2 DEF CallsAreDue
            <3>3. CASE todo[i + 1][1] = todo[1][1] /\ disk'[todo[i + 1][1]] = todo[1][2]
                BY <2>2, <3>3 DEF CallsAreDue
            <3>4. CASE disk'[todo[i + 1][1]] = NoFire
                <4>1. PICK d \in Due[todo[i + 1][1]] : d <= todo[i + 1][2]
                    BY <2>2 DEF CallsAreDue
                <4>2. d \in 1 .. MaxTime
                    BY <3>1, <4>1, SchedulerAssumption
                <4>3. NoFire < d
                    BY <4>2, SchedulerAssumption DEF NoFire
                <4> QED BY <2>2, <3>4, <4>1, <4>3
            <3> QED BY <2>1, <2>2, <3>1, <3>2, <3>3, <3>4, WriteEffect
        <2>4. ASSUME NEW i \in DOMAIN todo', NEW j \in DOMAIN todo', i < j, todo'[i][1] = todo'[j][1]
              PROVE  \E d \in Due[todo'[i][1]] : todo'[i][2] < d /\ d <= todo'[j][2]
            BY <2>2, <2>4 DEF CallsAreDue
        <2> QED BY <2>3, <2>4 DEF CallsAreDue
    <1> QED BY <1>2, <1>3, <1>4, <1>5, <1>6, <1>7 DEF SchedulerNext, Step

-----------------------------------------------------------------------------
(* The properties.                                                           *)

\* Every step keeps the file of a schedule behind its tasks.
LEMMA FileStep ==
    ASSUME SchedulerTypeOK, InThePast, PersistsLastTask, FileNeverLeads, [SchedulerNext]_schedulerVars
    PROVE  FileNeverLeads'
    <1>1. /\ clock \in Nat /\ now \in Nat /\ todo \in Seq(Entries \X Nat)
          /\ \A e \in Entries : disk[e] \in Int
        BY DEF SchedulerTypeOK, NoFire
    <1>2. CASE Tick
        BY <1>1, <1>2 DEF Tick, FileNeverLeads
    <1>3. CASE Start \/ Crash \/ EnterLoop \/ Wake \/ CreateFails \/ UNCHANGED schedulerVars
        BY <1>3 DEF Start, Crash, EnterLoop, Wake, CreateFails, schedulerVars, FileNeverLeads
    <1>4. CASE HandleMissed
        <2>1. UNCHANGED <<clock, created>> /\ entry \in Entries
            BY <1>4 DEF HandleMissed
        <2>2. UNCHANGED disk \/ (Policy[entry] = "skip" /\ WriteLastFire(entry, now))
            BY <1>4 DEF HandleMissed
        <2>3. CASE UNCHANGED disk
            BY <2>1, <2>3 DEF FileNeverLeads
        <2>4. CASE Policy[entry] = "skip" /\ WriteLastFire(entry, now)
            BY <1>1, <2>1, <2>4, WriteEffect DEF FileNeverLeads, InThePast
        <2> QED BY <2>2, <2>3, <2>4
    <1>5. CASE CreateTask
        <2>1. UNCHANGED <<clock, disk>>
            BY <1>5 DEF CreateTask
        <2>2. \A k \in Entries : \A i \in DOMAIN created[k] : i \in DOMAIN created'[k] /\ created'[k][i] = created[k][i]
            <3> DEFINE e == Head(todo)[1]
                       n == Len(created[e])
            <3>1. /\ n \in Nat /\ DOMAIN created[e] = 1 .. n /\ DOMAIN created'[e] = 1 .. n + 1
                  /\ \A i \in 1 .. n : created'[e][i] = created[e][i]
                  /\ \A k \in Entries \ {e} : created'[k] = created[k]
                BY <1>5, CreateEffect
            <3> HIDE DEF e, n
            <3>2. \A i \in 1 .. n : i \in 1 .. n + 1
                BY <3>1
            <3> QED BY <3>1, <3>2
        <2> QED BY <2>1, <2>2 DEF FileNeverLeads
    <1>6. CASE Persist
        <2> DEFINE e == Head(todo)[1]
        <2>1. /\ UNCHANGED <<clock, created>> /\ WriteLastFire(e, Head(todo)[2]) /\ todo # <<>>
              /\ created[e] # <<>> /\ created[e][Len(created[e])].at = Head(todo)[2]
            BY <1>6 DEF Persist, PersistsLastTask
        <2>2. e \in Entries /\ Head(todo)[2] \in Nat /\ Head(todo)[2] <= clock
            BY <1>1, <2>1, TailCalls DEF InThePast
        <2>3. Len(created[e]) \in DOMAIN created[e]
            <3>1. created[e] \in Seq(Fire)
                BY <2>2 DEF SchedulerTypeOK
            <3> QED BY <2>1, <3>1
        <2> HIDE DEF e
        <2>4. ASSUME NEW k \in Entries, disk'[k] # NoFire
              PROVE  /\ disk'[k] <= clock
                     /\ Policy[k] # "skip" => \E i \in DOMAIN created[k] : created[k][i].at = disk'[k]
            <3>1. CASE disk'[k] = disk[k]
                BY <2>4, <3>1 DEF FileNeverLeads
            <3>2. CASE k = e /\ disk'[k] = Head(todo)[2]
                BY <2>1, <2>2, <2>3, <3>2
            <3> QED BY <2>1, <2>2, <2>4, <3>1, <3>2, WriteEffect
        <2> QED BY <2>1, <2>4 DEF FileNeverLeads
    <1> QED BY <1>2, <1>3, <1>4, <1>5, <1>6 DEF SchedulerNext, Step

\* Every step keeps two tasks of a schedule an occurrence apart: a task is
\* created for an occurrence after the time on disk, which is that of the task
\* before it or makes the new one stale.
LEMMA OneTaskStep ==
    ASSUME SchedulerTypeOK, CallsAreDue, OneTaskPerOccurrence, [SchedulerNext]_schedulerVars
    PROVE  OneTaskPerOccurrence'
    <1>1. CASE UNCHANGED created
        BY <1>1 DEF OneTaskPerOccurrence
    <1>2. CASE CreateTask
        <2> DEFINE e == Head(todo)[1]
                   n == Len(created[e])
        <2>1. /\ todo # <<>> /\ e \in Entries /\ n \in Nat /\ created[e] \in Seq(Fire)
              /\ DOMAIN created[e] = 1 .. n /\ DOMAIN created'[e] = 1 .. n + 1
              /\ \A i \in 1 .. n : created'[e][i] = created[e][i]
              /\ created'[e][n + 1].at = Head(todo)[2]
              /\ created[e] # <<>> /\ disk[e] # created[e][n].at => created'[e][n + 1].stale
              /\ \A k \in Entries \ {e} : created'[k] = created[k]
            BY <1>2, CreateEffect
        <2>2. PICK d \in Due[e] : disk[e] < d /\ d <= Head(todo)[2]
            <3>1. 1 \in DOMAIN todo /\ Head(todo) = todo[1] /\ ~firing
                BY <1>2, <2>1, TailCalls DEF CreateTask, SchedulerTypeOK
            <3> QED BY <3>1 DEF CallsAreDue
        <2> HIDE DEF e, n
        <2>3. ASSUME NEW i \in 1 .. n + 1, i > 1
              PROVE  \/ \E dd \in Due[e] : created'[e][i - 1].at < dd /\ dd <= created'[e][i].at
                     \/ created'[e][i].stale
            <3>1. CASE i = n + 1
                <4>1. n \in 1 .. n /\ i - 1 = n /\ created'[e][n] = created[e][n] /\ created[e] # <<>>
                    BY <2>1, <2>3, <3>1
                <4>2. CASE disk[e] = created[e][n].at
                    BY <2>1, <2>2, <3>1, <4>1, <4>2
                <4>3. CASE disk[e] # created[e][n].at
                    BY <2>1, <3>1, <4>1, <4>3
                <4> QED BY <4>2, <4>3
            <3>2. CASE i # n + 1
                <4>1. i \in 1 .. n /\ i - 1 \in 1 .. n
                    BY <2>1, <2>3, <3>2
                <4> QED BY <2>1, <2>3, <4>1 DEF OneTaskPerOccurrence
            <3> QED BY <3>1, <3>2
        <2> QED BY <2>1, <2>3 DEF OneTaskPerOccurrence
    <1>3. UNCHANGED created \/ CreateTask
        BY DEF SchedulerNext, Step, Tick, Start, HandleMissed, EnterLoop, Wake, Persist, CreateFails, Crash, schedulerVars
    <1> QED BY <1>1, <1>2, <1>3

\* The inductive invariant holds in every reachable state.
THEOREM SchedulerInvariant == SchedulerSpec => []SchedulerInv
    <1>1. SchedulerInit => SchedulerInv
        <2> SUFFICES ASSUME SchedulerInit PROVE SchedulerInv
            OBVIOUS
        <2>1. SchedulerTypeOK
            <3>1. <<>> \in Seq(Fire) /\ <<>> \in Seq(Entries \X Nat) /\ 1 \in 1 .. (N + 1)
                BY SchedulerAssumption
            <3> QED BY <3>1 DEF SchedulerInit, SchedulerTypeOK
        <2>2. InThePast /\ PersistsLastTask /\ TickCoversDisk /\ CallsAreDue
            BY DEF SchedulerInit, InThePast, PersistsLastTask, TickCoversDisk, CallsAreDue
        <2>3. FileNeverLeads /\ OneTaskPerOccurrence
            BY DEF SchedulerInit, FileNeverLeads, OneTaskPerOccurrence
        <2> QED BY <2>1, <2>2, <2>3 DEF SchedulerInv
    <1>2. SchedulerInv /\ [SchedulerNext]_schedulerVars => SchedulerInv'
        BY TypeInductive, PastStep, PersistStep, TickStep, CallsStep, FileStep, OneTaskStep DEF SchedulerInv
    <1> QED BY <1>1, <1>2, PTL DEF SchedulerSpec

\* Every reachable state is well typed.
THEOREM SchedulerTypeCorrect == SchedulerSpec => []SchedulerTypeOK
    <1>1. SchedulerInv => SchedulerTypeOK
        BY DEF SchedulerInv
    <1> QED BY <1>1, SchedulerInvariant, PTL

\* A crash or a failed write between a task and its record leaves the .last_fire
\* file behind the tasks of the schedule, never ahead of them.
THEOREM FileTheorem == SchedulerSpec => []FileNeverLeads
    <1>1. SchedulerInv => FileNeverLeads
        BY DEF SchedulerInv
    <1> QED BY <1>1, SchedulerInvariant, PTL

\* No occurrence of a cron expression yields two tasks, across the loop, the
\* missed-run policies and restarts, unless the first one's record was lost.
THEOREM OneTaskTheorem == SchedulerSpec => []OneTaskPerOccurrence
    <1>1. SchedulerInv => OneTaskPerOccurrence
        BY DEF SchedulerInv
    <1> QED BY <1>1, SchedulerInvariant, PTL

=============================================================================
