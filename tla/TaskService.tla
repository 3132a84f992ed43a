----------------------------- MODULE TaskService -----------------------------
(* The tasks of the API server: TaskManager records and their event channels *)
(* (task.rs), SimulacraEngine::spawn_task and the activity sink (engine.rs), *)
(* the worker pool (pool.rs), the human-in-the-loop channels of the agent    *)
(* loop (hitl.rs) and the clients that cancel, pause, resume and answer      *)
(* (server.rs).  An agent's turns are reduced to what they send to the task. *)
EXTENDS Integers, FiniteSets, Sequences

CONSTANTS Tasks,          \* task ids
          ConnTasks,      \* the tasks created over the one WebSocket connection
          HitlTasks,      \* the tasks whose metadata enables human input or approval
          Attended,       \* the tasks whose clients act on them
          Workers,        \* worker threads of the pool
          ToolCalls,      \* tool call ids that may need approval
          QueueCapacity,  \* bound of the pool's crossbeam channel
          MaxChatter,     \* bound: log length up to which an agent emits activity
          MaxLog,         \* bound: log length up to which it asks or is paused
          None            \* no task, no question

ASSUME TaskServiceAssumption ==
    /\ IsFiniteSet(Tasks)
    /\ ConnTasks \subseteq Tasks /\ HitlTasks \subseteq Tasks /\ Attended \subseteq Tasks
    /\ QueueCapacity \in Nat \ {0}
    /\ MaxChatter \in [Tasks -> Nat] /\ MaxLog \in [Tasks -> Nat]
    /\ None \notin Tasks \cup ToolCalls \cup {"input"}
    /\ "input" \notin ToolCalls

VARIABLES tasks,      \* TaskManagerInner.tasks: the record of each id
          log,        \* TaskEventChannel.log
          sinkSeq,    \* EngineActivitySink.seq
          token,      \* the CancellationToken shared with the worker: cancelled?
          cancels,    \* halves of cancel_task still to run, per task
          connected,  \* the WebSocket loop is running
          spawn,      \* where spawn_task is
          queue,      \* the pool's channel
          worker,     \* the task each worker thread runs
          agent,      \* the work item: its phase and the question it asks
          inputs,     \* messages in the input channel
          approvals,  \* tool call ids in the approval channel
          outcome     \* the oneshot from the work item to the completion task

managerVars == <<tasks, log>>
clientVars == <<cancels, connected>>
hitlVars == <<inputs, approvals>>
poolVars == <<spawn, queue, worker>>
vars == <<tasks, log, sinkSeq, token, cancels, connected, spawn, queue,
          worker, agent, inputs, approvals, outcome>>

-----------------------------------------------------------------------------
(* Task records *)

Terminal == {"completed", "failed", "killed", "cancelled"}
TaskState == {"pending", "running", "waiting_input", "waiting_approval", "paused"} \cup Terminal
Question == {"input"} \cup ToolCalls

(* The record of an id the manager does not hold. *)
Absent == [state |-> "absent", seq |-> 0, token |-> FALSE, pending |-> None]

Present(t) == tasks[t].state # "absent"
IsTerminal(t) == tasks[t].state \in Terminal

StateEvent(n, to) == [by |-> "manager", seq |-> n, to |-> to]
Event(who, n) == [by |-> who, seq |-> n, to |-> "none"]

(* transition_with_reason: r is the record as the closure left it; the state *)
(* change and its event go together under the tasks lock.                   *)
Transition(t, r, to) ==
    /\ tasks' = [tasks EXCEPT ![t] = [r EXCEPT !.state = to, !.seq = r.seq + 1]]
    /\ log' = [log EXCEPT ![t] = Append(@, StateEvent(r.seq + 1, to))]

(* A transition that is refused leaves the record alone. *)
TransitionIf(guard, t, r, to) == IF guard THEN Transition(t, r, to) ELSE UNCHANGED managerVars

(* Mutant: complete_task does not look at the current state. *)
CompleteAnyway(t, to) == TransitionIf(Present(t), t, tasks[t], to)

(* complete_task *)
Complete(t, to) == TransitionIf(Present(t) /\ ~IsTerminal(t), t, tasks[t], to)

-----------------------------------------------------------------------------
(* spawn_task *)

Live == {"running", "asking", "awaiting"}
HitlCapacity == 8

Init ==
    /\ tasks = [t \in Tasks |-> Absent]
    /\ log = [t \in Tasks |-> <<>>]
    /\ sinkSeq = [t \in Tasks |-> 0]
    /\ token = [t \in Tasks |-> FALSE]
    /\ cancels = [t \in Tasks |-> {}]
    /\ connected = TRUE
    /\ spawn = [t \in Tasks |-> "new"]
    /\ queue = <<>>
    /\ worker = [w \in Workers |-> None]
    /\ agent = [t \in Tasks |-> [phase |-> "none", asks |-> None, hitl |-> FALSE]]
    /\ inputs = [t \in Tasks |-> 0]
    /\ approvals = [t \in Tasks |-> <<>>]
    /\ outcome = [t \in Tasks |-> "none"]

SpawnGoes(t, from, to) == spawn[t] = from /\ spawn' = [spawn EXCEPT ![t] = to]

CreatePendingTask(t) ==
    /\ t \in ConnTasks => connected
    /\ SpawnGoes(t, "new", "created")
    /\ tasks' = [tasks EXCEPT ![t] = [Absent EXCEPT !.state = "pending"]]
    /\ UNCHANGED <<log, sinkSeq, token, clientVars, queue, worker, agent, hitlVars, outcome>>

(* build_provider refuses: the one early return that fails the task first. *)
ProviderMissing(t) ==
    /\ SpawnGoes(t, "created", "failed")
    /\ Complete(t, "failed")
    /\ UNCHANGED <<sinkSeq, token, clientVars, queue, worker, agent, hitlVars, outcome>>

(* Mutant: the token is not stored in the record. *)
TokenNotStored(t) ==
    /\ SpawnGoes(t, "created", "tokened")
    /\ UNCHANGED <<managerVars, sinkSeq, token, clientVars, queue, worker, agent, hitlVars, outcome>>

SetCancellationToken(t) ==
    /\ SpawnGoes(t, "created", "tokened")
    /\ tasks' = [tasks EXCEPT ![t].token = TRUE]
    /\ UNCHANGED <<log, sinkSeq, token, clientVars, queue, worker, agent, hitlVars, outcome>>

SetHitlSenders(t) ==
    /\ SpawnGoes(t, "tokened", "ready")
    /\ agent' = [agent EXCEPT ![t].hitl = t \in HitlTasks]
    /\ UNCHANGED <<managerVars, sinkSeq, token, clientVars, queue, worker, hitlVars, outcome>>

(* Any `?` between the record and the submission: a bad attachment or skill. *)
PrepareFails(t) ==
    /\ SpawnGoes(t, "ready", "failed")
    /\ UNCHANGED <<managerVars, sinkSeq, token, clientVars, queue, worker, agent, hitlVars, outcome>>

Submit(t) ==
    /\ Len(queue) < QueueCapacity
    /\ SpawnGoes(t, "ready", "submitted")
    /\ queue' = Append(queue, t)
    /\ agent' = [agent EXCEPT ![t].phase = "queued"]
    /\ UNCHANGED <<managerVars, sinkSeq, token, clientVars, worker, hitlVars, outcome>>

PoolExhausted(t) ==
    /\ Len(queue) >= QueueCapacity
    /\ SpawnGoes(t, "ready", "failed")
    /\ UNCHANGED <<managerVars, sinkSeq, token, clientVars, queue, worker, agent, hitlVars, outcome>>

-----------------------------------------------------------------------------
(* The worker and its work item *)

TakeWork(w) ==
    /\ worker[w] = None /\ queue # <<>>
    /\ worker' = [worker EXCEPT ![w] = Head(queue)]
    /\ queue' = Tail(queue)
    /\ agent' = [agent EXCEPT ![Head(queue)].phase = "taken"]
    /\ UNCHANGED <<managerVars, sinkSeq, token, clientVars, spawn, hitlVars, outcome>>

(* The work item ends: its receivers drop with what they hold, its sink with *)
(* its counter, and its result reaches the oneshot.                          *)
Ends(w, result) ==
    /\ worker' = [worker EXCEPT ![w] = None]
    /\ agent' = [agent EXCEPT ![worker[w]].phase = "over", ![worker[w]].asks = None]
    /\ inputs' = [inputs EXCEPT ![worker[w]] = 0]
    /\ approvals' = [approvals EXCEPT ![worker[w]] = <<>>]
    /\ sinkSeq' = [sinkSeq EXCEPT ![worker[w]] = 0]
    /\ outcome' = [outcome EXCEPT ![worker[w]] = result]
    /\ UNCHANGED <<managerVars, token, clientVars, spawn, queue>>

StartTask(w) ==
    LET t == worker[w] IN
    /\ t # None /\ agent[t].phase = "taken"
    /\ \/ /\ tasks[t].state = "pending"
          /\ Transition(t, tasks[t], "running")
          /\ agent' = [agent EXCEPT ![t].phase = "running"]
          /\ UNCHANGED <<sinkSeq, token, clientVars, poolVars, hitlVars, outcome>>
       \/ /\ tasks[t].state # "pending"
          /\ Ends(w, "failed")

InPhase(w, phases) == worker[w] # None /\ agent[worker[w]].phase \in phases

(* agent_loop.run returns, an error stops the item, or it panics.  The first *)
(* step of the item, building its runtime, may fail before start_task.      *)
FinishAgent(w, result) ==
    /\ result \in {"completed", "killed", "failed"}
    /\ InPhase(w, {"running"}) \/ (InPhase(w, {"taken"}) /\ result = "failed")
    /\ Ends(w, result)

(* Mutant: a pending question is not raced against the token. *)
StopBetweenQuestions(w) ==
    /\ InPhase(w, {"running"})
    /\ token[worker[w]]
    /\ Ends(w, "cancelled")

(* The cancelled() branch of the select! that runs the agent loop. *)
StopCancelled(w) ==
    /\ InPhase(w, {"running", "awaiting"})
    /\ token[worker[w]]
    /\ Ends(w, "cancelled")

(* The sink numbers an event with its own counter and sends it directly. *)
SinkSends(t) ==
    /\ log' = [log EXCEPT ![t] = Append(@, Event("sink", sinkSeq[t]))]
    /\ sinkSeq' = [sinkSeq EXCEPT ![t] = @ + 1]

EmitActivity(w) ==
    /\ InPhase(w, {"running"})
    /\ Len(log[worker[w]]) < MaxChatter[worker[w]]
    /\ SinkSends(worker[w])
    /\ UNCHANGED <<tasks, token, clientVars, poolVars, agent, hitlVars, outcome>>

(* The mailbox sink reports an artifact through TaskManager::emit_event. *)
EmitEvent(w) ==
    LET t == worker[w] IN
    /\ InPhase(w, {"running"})
    /\ Present(t)
    /\ Len(log[t]) < MaxChatter[t]
    /\ tasks' = [tasks EXCEPT ![t].seq = @ + 1]
    /\ log' = [log EXCEPT ![t] = Append(@, Event("manager", tasks[t].seq + 1))]
    /\ UNCHANGED <<sinkSeq, token, clientVars, poolVars, agent, hitlVars, outcome>>

(* A human-in-the-loop event: the sink first moves the task to its waiting   *)
(* state (a refusal is only logged) and sends the event afterwards.         *)
Ask(w, q) ==
    LET t == worker[w] IN
    /\ InPhase(w, {"running"}) /\ agent[t].hitl
    /\ Len(log[t]) < MaxLog[t]
    /\ TransitionIf(tasks[t].state = "running",
                    t,
                    IF q = "input" THEN tasks[t] ELSE [tasks[t] EXCEPT !.pending = q],
                    IF q = "input" THEN "waiting_input" ELSE "waiting_approval")
    /\ agent' = [agent EXCEPT ![t].phase = "asking", ![t].asks = q]
    /\ UNCHANGED <<sinkSeq, token, clientVars, poolVars, hitlVars, outcome>>

Announce(w) ==
    /\ InPhase(w, {"asking"})
    /\ SinkSends(worker[w])
    /\ agent' = [agent EXCEPT ![worker[w]].phase = "awaiting"]
    /\ UNCHANGED <<tasks, token, clientVars, poolVars, hitlVars, outcome>>

ReceiveInput(w) ==
    LET t == worker[w] IN
    /\ InPhase(w, {"awaiting"})
    /\ agent[t].asks = "input" /\ inputs[t] > 0
    /\ inputs' = [inputs EXCEPT ![t] = @ - 1]
    /\ agent' = [agent EXCEPT ![t].phase = "running", ![t].asks = None]
    /\ UNCHANGED <<managerVars, sinkSeq, token, clientVars, poolVars, approvals, outcome>>

(* A response for another tool call is dropped and the wait goes on. *)
ReceiveApproval(w) ==
    LET t == worker[w] IN
    /\ InPhase(w, {"awaiting"})
    /\ agent[t].asks \in ToolCalls /\ approvals[t] # <<>>
    /\ approvals' = [approvals EXCEPT ![t] = Tail(@)]
    /\ agent' = IF Head(approvals[t]) = agent[t].asks
                THEN [agent EXCEPT ![t].phase = "running", ![t].asks = None]
                ELSE agent
    /\ UNCHANGED <<managerVars, sinkSeq, token, clientVars, poolVars, inputs, outcome>>

(* Mutant: a dropped oneshot or an error completes nothing. *)
CompleteSuccessOnly(t) ==
    /\ outcome[t] \in Terminal
    /\ IF outcome[t] = "failed" THEN UNCHANGED managerVars ELSE Complete(t, outcome[t])
    /\ outcome' = [outcome EXCEPT ![t] = "taken"]
    /\ UNCHANGED <<sinkSeq, token, clientVars, poolVars, agent, hitlVars>>

(* The tokio task that awaits the oneshot and completes the task record. *)
CompleteTask(t) ==
    /\ outcome[t] \in Terminal
    /\ Complete(t, outcome[t])
    /\ outcome' = [outcome EXCEPT ![t] = "taken"]
    /\ UNCHANGED <<sinkSeq, token, clientVars, poolVars, agent, hitlVars>>

-----------------------------------------------------------------------------
(* Clients.  A task id reaches a client only when spawn_task has returned.  *)

Known(t) == spawn[t] = "submitted" /\ Present(t)

(* cancel_task takes the lock twice: once to signal the stored token ... *)
SignalCancel(t) ==
    /\ token' = [token EXCEPT ![t] = @ \/ tasks[t].token]
    /\ cancels' = [cancels EXCEPT ![t] = (@ \ {"begin"}) \cup {"commit"}]
    /\ UNCHANGED <<managerVars, sinkSeq, connected, poolVars, agent, hitlVars, outcome>>

CancelTask(t) == Known(t) /\ SignalCancel(t)

(* ... and once to change the state. *)
CommitCancel(t) ==
    /\ "commit" \in cancels[t]
    /\ cancels' = [cancels EXCEPT ![t] = @ \ {"commit"}]
    /\ TransitionIf(Present(t) /\ ~IsTerminal(t), t, tasks[t], "cancelled")
    /\ UNCHANGED <<sinkSeq, token, connected, poolVars, agent, hitlVars, outcome>>

(* The connection's loop ends between two commands, so none of its spawns is *)
(* under way: cancel_connection_tasks collects its live tasks ...            *)
Disconnect ==
    /\ connected
    /\ \A t \in ConnTasks : spawn[t] \in {"new", "submitted", "failed"}
    /\ connected' = FALSE
    /\ cancels' = [t \in Tasks |-> IF t \in ConnTasks /\ Present(t) /\ ~IsTerminal(t)
                                   THEN cancels[t] \cup {"begin"} ELSE cancels[t]]
    /\ UNCHANGED <<managerVars, sinkSeq, token, poolVars, agent, hitlVars, outcome>>

(* ... and cancels them one by one. *)
CancelCollected(t) == "begin" \in cancels[t] /\ SignalCancel(t)

(* Mutant: the state changes without its event. *)
PauseSilently(t) ==
    /\ Known(t) /\ tasks[t].state = "running"
    /\ Len(log[t]) < MaxLog[t]
    /\ tasks' = [tasks EXCEPT ![t].state = "paused"]
    /\ UNCHANGED <<log, sinkSeq, token, clientVars, poolVars, agent, hitlVars, outcome>>

PauseTask(t) ==
    /\ Known(t) /\ tasks[t].state = "running"
    /\ Len(log[t]) < MaxLog[t]
    /\ Transition(t, tasks[t], "paused")
    /\ UNCHANGED <<sinkSeq, token, clientVars, poolVars, agent, hitlVars, outcome>>

ResumeTask(t) ==
    /\ Known(t) /\ tasks[t].state = "paused"
    /\ Transition(t, tasks[t], "running")
    /\ UNCHANGED <<sinkSeq, token, clientVars, poolVars, agent, hitlVars, outcome>>

(* try_send succeeds while the work item holds the receivers. *)
Answerable(t) == Known(t) /\ agent[t].hitl /\ agent[t].phase # "over"

(* Mutant: input is accepted in any live state. *)
InputAnytime(t) ==
    /\ Answerable(t) /\ ~IsTerminal(t) /\ inputs[t] < HitlCapacity
    /\ inputs' = [inputs EXCEPT ![t] = @ + 1]
    /\ IF tasks[t].state = "waiting_input" THEN Transition(t, tasks[t], "running") ELSE UNCHANGED managerVars
    /\ UNCHANGED <<sinkSeq, token, clientVars, poolVars, agent, approvals, outcome>>

ProvideInput(t) ==
    /\ Answerable(t) /\ tasks[t].state = "waiting_input" /\ inputs[t] < HitlCapacity
    /\ inputs' = [inputs EXCEPT ![t] = @ + 1]
    /\ Transition(t, tasks[t], "running")
    /\ UNCHANGED <<sinkSeq, token, clientVars, poolVars, agent, approvals, outcome>>

RespondApproval(t, c) ==
    /\ Answerable(t) /\ tasks[t].state = "waiting_approval" /\ Len(approvals[t]) < HitlCapacity
    /\ tasks[t].pending \in {None, c}
    /\ approvals' = [approvals EXCEPT ![t] = Append(@, c)]
    /\ Transition(t, [tasks[t] EXCEPT !.pending = None], "running")
    /\ UNCHANGED <<sinkSeq, token, clientVars, poolVars, agent, inputs, outcome>>

(* cleanup_expired, once the grace period of a terminal record has passed.  *)
(* The event log goes with the last clone of the channel.                   *)
CleanupExpired(t) ==
    /\ IsTerminal(t)
    /\ tasks' = [tasks EXCEPT ![t] = Absent]
    /\ log' = IF agent[t].phase \in {"none", "over"} THEN [log EXCEPT ![t] = <<>>] ELSE log
    /\ UNCHANGED <<sinkSeq, token, clientVars, poolVars, agent, hitlVars, outcome>>

SpawnStep(t) ==
    \/ CreatePendingTask(t) \/ ProviderMissing(t) \/ SetCancellationToken(t)
    \/ SetHitlSenders(t) \/ PrepareFails(t) \/ Submit(t) \/ PoolExhausted(t)

AgentStep(w) ==
    \/ EmitActivity(w) \/ EmitEvent(w) \/ \E q \in Question : Ask(w, q)

WorkerStep(w) ==
    \/ TakeWork(w) \/ StartTask(w) \/ Announce(w) \/ ReceiveInput(w) \/ ReceiveApproval(w)
    \/ StopCancelled(w) \/ \E r \in Terminal : FinishAgent(w, r)

ClientStep(t) ==
    \/ CancelTask(t) \/ PauseTask(t) \/ ResumeTask(t) \/ ProvideInput(t)
    \/ \E c \in ToolCalls : RespondApproval(t, c)

ServerStep(t) == CommitCancel(t) \/ CancelCollected(t) \/ CompleteTask(t)

Next ==
    \/ \E t \in Tasks : SpawnStep(t) \/ ServerStep(t) \/ CleanupExpired(t)
    \/ \E t \in Attended : ClientStep(t)
    \/ \E w \in Workers : AgentStep(w) \/ WorkerStep(w)
    \/ Disconnect

Spec == Init /\ [][Next]_vars

(* The worker threads and the server's own tokio tasks are scheduled; agents *)
(* end (their turns are bounded); clients and humans owe nothing.            *)
Fairness ==
    /\ \A w \in Workers : WF_vars(WorkerStep(w))
    /\ \A t \in Tasks : WF_vars(CommitCancel(t)) /\ WF_vars(CancelCollected(t)) /\ WF_vars(CompleteTask(t))

FairSpec == Spec /\ Fairness

-----------------------------------------------------------------------------
(* Properties *)

EventType == [by : {"manager", "sink"}, seq : Nat, to : TaskState \cup {"none"}]
RecordType == [state : TaskState \cup {"absent"}, seq : Nat, token : BOOLEAN,
               pending : ToolCalls \cup {None}]

(* Every variable holds a value of the type of the field it models. *)
TypeOK ==
    /\ tasks \in [Tasks -> RecordType]
    /\ log \in [Tasks -> Seq(EventType)]
    /\ sinkSeq \in [Tasks -> Nat]
    /\ token \in [Tasks -> BOOLEAN]
    /\ cancels \in [Tasks -> SUBSET {"begin", "commit"}]
    /\ connected \in BOOLEAN
    /\ spawn \in [Tasks -> {"new", "created", "tokened", "ready", "submitted", "failed"}]
    /\ queue \in Seq(Tasks)
    /\ worker \in [Workers -> Tasks \cup {None}]
    /\ agent \in [Tasks -> [phase : {"none", "queued", "taken", "over"} \cup Live,
                            asks : Question \cup {None}, hitl : BOOLEAN]]
    /\ inputs \in [Tasks -> Nat]
    /\ approvals \in [Tasks -> Seq(ToolCalls)]
    /\ outcome \in [Tasks -> Terminal \cup {"none", "taken"}]

(* cancel_task takes the lock twice and the token is stored after the record *)
(* exists, yet an agent that runs although its task has ended or was evicted *)
(* always has its token cancelled: no cancelled task keeps a deaf agent.     *)
LiveAgentIsTold ==
    \A t \in Tasks : agent[t].phase \in Live =>
        \/ tasks[t].state \in {"running", "paused", "waiting_input", "waiting_approval"}
        \/ token[t]

(* Answers and questions pair up.  A task that shows waiting_input or        *)
(* waiting_approval has an agent that asks for just that and no answer yet   *)
(* (or its token is cancelled), and an answer in a channel is the only one   *)
(* and is for the question the agent asks now: a late or repeated answer     *)
(* never reaches a later question.                                           *)
AnswersMatchQuestions ==
    \A t \in Tasks :
        /\ tasks[t].state = "waiting_input" =>
               (agent[t].asks = "input" /\ inputs[t] = 0) \/ token[t]
        /\ tasks[t].state = "waiting_approval" =>
               (agent[t].asks = tasks[t].pending /\ approvals[t] = <<>>) \/ token[t]
        /\ inputs[t] > 0 => inputs[t] = 1 /\ agent[t].asks = "input"
        /\ approvals[t] # <<>> => approvals[t] = <<agent[t].asks>>

(* A client that replays the stream of a task knows its state: the last      *)
(* state event names the state the record has (none: still pending).         *)
StreamTellsState ==
    \A t \in Tasks : Present(t) =>
        \/ /\ tasks[t].state = "pending"
           /\ \A i \in DOMAIN log[t] : log[t][i].to = "none"
        \/ \E i \in DOMAIN log[t] :
              /\ log[t][i].to = tasks[t].state
              /\ \A j \in (i + 1) .. Len(log[t]) : log[t][j].to = "none"

(* task_events closes a stream at the first terminal event.  That loses no   *)
(* state change: nothing changes the state of a task after a terminal event, *)
(* however cancel, completion and eviction interleave.                       *)
OneTerminalEvent ==
    \A t \in Tasks : \A i, j \in DOMAIN log[t] :
        i < j /\ log[t][i].to \in Terminal => log[t][j].to = "none"

(* A cancelled task gives its worker back, even from a question nobody will  *)
(* answer.                                                                   *)
CancelFreesWorker ==
    \A t \in Tasks : (tasks[t].state = "cancelled" /\ agent[t].phase # "none")
                        ~> (agent[t].phase = "over")

(* A submitted task reaches a terminal state (and may then be evicted),      *)
(* unless an agent waits for a human: a question holds its worker.           *)
SubmittedEnds ==
    \A t \in Tasks : (spawn[t] = "submitted")
        ~> (IsTerminal(t) \/ ~Present(t) \/ \E u \in Tasks : agent[u].phase = "awaiting")
-----------------------------------------------------------------------------
(* The inductive invariant of the proofs.                                    *)

(* From the record to the end of the agent.  The token is in the record      *)
(* before anybody can cancel; whoever ends a submitted task has signalled it *)
(* before, or comes after the end of the work item.                          *)
LifeInv(t) ==
    /\ spawn[t] = "new" => ~Present(t) /\ log[t] = <<>>
    /\ spawn[t] \in {"created", "tokened", "ready"} => tasks[t].state = "pending"
    /\ spawn[t] \in {"tokened", "ready", "submitted"} /\ Present(t) => tasks[t].token
    /\ cancels[t] # {} => spawn[t] \in {"submitted", "failed"}
    /\ agent[t].phase # "none" => spawn[t] = "submitted"
    /\ spawn[t] = "submitted" /\ (~Present(t) \/ IsTerminal(t) \/ "commit" \in cancels[t]) =>
         token[t] \/ agent[t].phase = "over"
    /\ tasks[t].state = "pending" => agent[t].phase \notin Live
    /\ outcome[t] # "none" => agent[t].phase = "over"

(* A task waits for the answer its agent asks for; a question left open at    *)
(* the end of the agent was cancelled.                                        *)
AskInv(t) ==
    /\ agent[t].asks # None <=> agent[t].phase \in {"asking", "awaiting"}
    /\ tasks[t].state = "waiting_input" =>
         IF agent[t].phase = "over" THEN token[t] ELSE agent[t].asks = "input" /\ inputs[t] = 0
    /\ tasks[t].state = "waiting_approval" =>
         IF agent[t].phase = "over" THEN token[t]
         ELSE agent[t].asks = tasks[t].pending /\ tasks[t].pending # None /\ approvals[t] = <<>>
    /\ inputs[t] # 0 => inputs[t] = 1 /\ agent[t].asks = "input"
    /\ approvals[t] # <<>> => approvals[t] = <<agent[t].asks>>

(* The last state event of s names the state; pending has none. *)
Tells(s, state) ==
    \/ state = "pending" /\ \A i \in DOMAIN s : s[i].to = "none"
    \/ \E i \in DOMAIN s : s[i].to = state /\ \A j \in (i + 1) .. Len(s) : s[j].to = "none"

(* Nothing follows a terminal event but activity. *)
Settled(s) == \A i, j \in DOMAIN s : i < j /\ s[i].to \in Terminal => s[j].to = "none"

StreamInv(t) ==
    /\ Present(t) => Tells(log[t], tasks[t].state)
    /\ Settled(log[t])
    /\ Present(t) /\ ~IsTerminal(t) => \A i \in DOMAIN log[t] : log[t][i].to \notin Terminal

(* A task is in the queue once, until a worker takes it. *)
QueueInv ==
    /\ \A i \in DOMAIN queue : agent[queue[i]].phase = "queued"
    /\ \A i, j \in DOMAIN queue : queue[i] = queue[j] => i = j

IInv ==
    /\ TypeOK /\ QueueInv
    /\ \A t \in Tasks : LifeInv(t) /\ AskInv(t) /\ StreamInv(t)

=============================================================================
