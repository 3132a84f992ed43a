------------------------------ MODULE ActorLoop ------------------------------
(***************************************************************************)
(* The message loop of the supervisor (supervisor/actor.rs), from the      *)
(* bounded channel through the priority heap to dispatch, with the JoinSet *)
(* of child tasks it selects on, and its end.                              *)
(*                                                                         *)
(* What a message does is the subject of SpawnLedger and ChildResults;     *)
(* here a message has a priority, a sender, and may start a child.  Every  *)
(* batch takes the whole channel and the heap orders equal priorities      *)
(* arbitrarily, so the channel is a set.  The branches for "no task yet"   *)
(* and "all tasks finished" (ever_dispatched) do the same and are one.     *)
(*                                                                         *)
(* As in SpawnLedger, a faulty variant that no action uses precedes some   *)
(* definitions.                                                            *)
(***************************************************************************)
EXTENDS Integers, FiniteSets

CONSTANTS
    Clients,        \* holders of a sender outside the supervisor (the root's tools)
    Tasks,          \* child ids
    Messages,
    From,           \* the client or child that sends a message
    Priority,       \* MessagePriority: Work 0, Command 1, Supervision 2, Signal 3
    Spawning,       \* Spawn messages
    HoldsSender,    \* children whose own tools hold a sender
    FactorySender,  \* the supervisor's task factory holds one, as in both hosts
    Capacity        \* of the channel

LoopParameters ==
    /\ From \in [Messages -> Clients \cup Tasks]
    /\ Priority \in [Messages -> 0..3]
    /\ Spawning \subseteq Messages /\ HoldsSender \subseteq Tasks
    /\ FactorySender \in BOOLEAN
    /\ Capacity \in Nat \ {0}

ASSUME LoopAssumption == LoopParameters

VARIABLES
    pc,      \* "select" on messages and tasks, "dispatch" a batch, last task
             \* "reaped", "drain" the tasks of a closed channel, "exited"
    channel, \* messages sent and not received
    heap,    \* priority_queue
    clients, \* clients that still hold their sender
    task,    \* state of each child task
    fresh    \* messages sent since the batch being dispatched was received

vars == <<pc, channel, heap, clients, task, fresh>>

Init ==
    /\ pc = "select"
    /\ channel = {} /\ heap = {} /\ fresh = {}
    /\ clients = Clients
    /\ task = [t \in Tasks |-> "none"]

\* Children in the JoinSet: their task is running, or has ended and waits to be
\* joined.
JoinSet == {t \in Tasks : task[t] \in {"running", "ended"}}

ChildrenKeepSenders ==
    \/ clients # {}
    \/ FactorySender
    \/ \E t \in HoldsSender : task[t] # "none"

\* Some sender is left, so recv() does not return None.
Open ==
    \/ clients # {}
    \/ FactorySender
    \/ \E t \in HoldsSender : task[t] = "running"

MaySend(s) == s \in clients \/ (s \in HoldsSender /\ task[s] = "running")

Send(m) ==
    /\ pc # "exited" /\ MaySend(From[m])
    /\ m \notin channel \cup heap
    /\ Cardinality(channel) < Capacity
    /\ channel' = channel \cup {m}
    /\ fresh' = fresh \cup {m}
    /\ UNCHANGED <<pc, heap, clients, task>>

DropClient(c) ==
    /\ c \in clients
    /\ clients' = clients \ {c}
    /\ UNCHANGED <<pc, channel, heap, task, fresh>>

\* The lifecycle future of a child resolves.
TaskEnds(t) ==
    /\ task[t] = "running"
    /\ task' = [task EXCEPT ![t] = "ended"]
    /\ UNCHANGED <<pc, channel, heap, clients, fresh>>

-----------------------------------------------------------------------------
\* recv() and then try_recv() until the channel is empty.
TakeAll(taken) == taken = channel

\* A batch is received, by the select or after the last task was joined.
Receive ==
    /\ pc \in {"select", "reaped"} /\ channel # {}
    /\ \E taken \in SUBSET channel :
        /\ TakeAll(taken)
        /\ heap' = taken
        /\ channel' = channel \ taken
    /\ fresh' = {}
    /\ pc' = "dispatch"
    /\ UNCHANGED <<clients, task>>

RefillHeap(m) ==
    /\ m \in heap \cup channel
    /\ \A n \in heap \cup channel : Priority[n] <= Priority[m]

\* BinaryHeap::pop.
Pop(m) ==
    /\ m \in heap
    /\ \A n \in heap : Priority[n] <= Priority[m]


\* The batch is dispatched to its end.
AfterDispatch(rest) == IF rest = {} THEN "select" ELSE "dispatch"

\* dispatch_message_into: an accepted Spawn adds a task to the JoinSet.
Dispatch(m) ==
    /\ pc = "dispatch" /\ Pop(m)
    /\ heap' = heap \ {m}
    /\ pc' = AfterDispatch(heap \ {m})
    /\ \/ UNCHANGED task
       \/ /\ m \in Spawning
          /\ \E t \in Tasks : task[t] = "none" /\ task' = [task EXCEPT ![t] = "running"]
    /\ UNCHANGED <<channel, clients, fresh>>

\* The select joins a task when recv() was pending; a message may have come, or
\* the last sender gone, between the two polls.
Reap(t) ==
    /\ pc = "select" /\ task[t] = "ended"
    /\ task' = [task EXCEPT ![t] = "joined"]
    /\ pc' = IF JoinSet = {t} THEN "reaped" ELSE pc
    /\ UNCHANGED <<channel, heap, clients, fresh>>


\* try_recv() found nothing: Empty goes back to the select, Disconnected ends.
AfterReap == IF Open THEN "select" ELSE "exited"

Reaped ==
    /\ pc = "reaped" /\ channel = {}
    /\ pc' = AfterReap
    /\ UNCHANGED <<channel, heap, clients, task, fresh>>

\* recv() returned None.
Closed ==
    /\ pc = "select" /\ channel = {} /\ ~Open
    /\ pc' = IF JoinSet = {} THEN "exited" ELSE "drain"
    /\ UNCHANGED <<channel, heap, clients, task, fresh>>

\* After the channel is closed the loop only waits for its tasks.
Drain(t) ==
    /\ pc = "drain" /\ task[t] = "ended"
    /\ task' = [task EXCEPT ![t] = "joined"]
    /\ pc' = IF JoinSet = {t} THEN "exited" ELSE pc
    /\ UNCHANGED <<channel, heap, clients, fresh>>

-----------------------------------------------------------------------------
LoopStep ==
    \/ Receive \/ Reaped \/ Closed
    \/ \E m \in Messages : Dispatch(m)
    \/ \E t \in Tasks : Reap(t) \/ Drain(t)

Next ==
    \/ LoopStep
    \/ \E m \in Messages : Send(m)
    \/ \E c \in Clients : DropClient(c)
    \/ \E t \in Tasks : TaskEnds(t)

Spec == Init /\ [][Next]_vars

\* The loop is a tokio task: it is polled whenever it can go on.  Nothing is
\* assumed of the senders and of the children.
FairSpec == Spec /\ WF_vars(LoopStep)

-----------------------------------------------------------------------------
TypeOK ==
    /\ pc \in {"select", "dispatch", "reaped", "drain", "exited"}
    /\ channel \subseteq Messages /\ heap \subseteq Messages /\ fresh \subseteq Messages
    /\ channel \cap heap = {}
    /\ heap # {} <=> pc = "dispatch"
    /\ clients \subseteq Clients
    /\ task \in [Tasks -> {"none", "running", "ended", "joined"}]

\* "The supervisor must stay alive for late joins/cancels": when the loop has
\* ended nothing is queued, nobody can send any more and no child is left.
ExitsLast == pc = "exited" => channel = {} /\ heap = {} /\ ~Open /\ JoinSet = {}

\* Signals before supervision, commands and work: a message is dispatched only
\* when every message of higher priority came after its batch was received.
PriorityOrder ==
    [][\A m \in Messages :
          m \in heap \cup channel /\ m \notin heap' \cup channel' =>
              \A n \in (heap \cup channel) \ fresh : Priority[n] <= Priority[m]]_vars

\* The inductive invariant behind both: the loop ends only without senders and
\* tasks, and whatever is in the channel came after the batch being dispatched.
Ending ==
    /\ pc \in {"drain", "exited"} => channel = {} /\ ~Open
    /\ pc \in {"reaped", "exited"} => JoinSet = {}

IInv == TypeOK /\ Ending /\ (pc = "dispatch" => channel \subseteq fresh)

\* Low priority is late and never forgotten: every message sent is dispatched,
\* although signals may keep coming.
NoStarvation == \A m \in Messages : m \in channel ~> m \notin channel \cup heap

\* The loop ends once every sender is gone and every child has ended; a Spawn
\* that is still queued is dispatched and its child waited for.
LoopEnds ==
    (clients = {} /\ ~FactorySender /\ \A t \in Tasks : task[t] # "running")
        ~> pc = "exited" \/ \E t \in Tasks : task[t] = "running"
=============================================================================
