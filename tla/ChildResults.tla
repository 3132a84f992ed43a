---------------------------- MODULE ChildResults -----------------------------
(***************************************************************************)
(* The supervisor's result cache (supervisor/child_queries.rs) and the     *)
(* lifecycle task of every accepted child (supervisor/actor.rs).           *)
(*                                                                         *)
(* The owner of the children joins them, waits for one or for any of       *)
(* several of them with a timeout, polls their status, cancels and closes  *)
(* them.  The actor handles these messages one at a time; the lifecycle    *)
(* tasks and the timers of bounded waits run beside it and meet it at the  *)
(* mutex around child_results.  A request is a oneshot sender: it can be   *)
(* used once, and using it fails when the caller has dropped the receiver  *)
(* (its tool call was cancelled).                                          *)
(*                                                                         *)
(* WaitChild is WaitChildren for a single child.  Who owns a child is the  *)
(* subject of SpawnLedger; here every request comes from the owner.  The   *)
(* host-only inspections change nothing and have no action.                *)
(*                                                                         *)
(* As in SpawnLedger, a faulty variant that no action uses precedes some   *)
(* definitions.                                                            *)
(***************************************************************************)
EXTENDS Integers, FiniteSets

CONSTANTS
    Children,    \* ids of accepted children
    Requests,    \* oneshot senders of the owner's calls
    RetryLimit   \* restarts the child's restart strategy allows: 0, 1 or 2

ASSUME RetryAssumption == RetryLimit \in [Children -> 0..2]
\* A reply that is a child's result is told apart from every other reply.
ASSUME DistinctAssumption ==
    Children \cap {"none", "running", "roster", "error", "idle", "open", "expired", "lost"} = {}

VARIABLES
    pc,        \* progress of the child's lifecycle task
    attempt,   \* retry count of the child
    outcome,   \* what the lifecycle task is about to publish
    completed, \* the SubAgentCompleted entry in the journal
    cached,    \* keys of child_results
    result,    \* ChildRunState.result
    delivered, \* children with result_delivered set
    joinW,     \* join_waiters of each child
    waitW,     \* wait_waiters of each child
    tokens,    \* keys of cancellation_tokens
    inputs,    \* keys of child_inputs
    signalled, \* children whose registered CancellationToken is signalled
    ask,       \* progress of each request
    kids,      \* children the request is about
    reply,     \* what the request was answered
    gone,      \* requests whose receiver has been dropped
    timers,    \* requests with a sleeping timeout task
    told,      \* children whose terminal result some request has received
    toldAtAsk  \* requests about a child that was told when they were made

lifecycle == <<pc, attempt, outcome, completed>>
handles == <<tokens, inputs, signalled>>
cache == <<cached, result, delivered, joinW, waitW>>
requests == <<ask, kids, reply, gone, timers, told, toldAtAsk>>
vars == <<lifecycle, cache, handles, requests>>

Init ==
    /\ pc = [c \in Children |-> "absent"]
    /\ attempt = [c \in Children |-> 0]
    /\ outcome = [c \in Children |-> "none"]
    /\ completed = [c \in Children |-> "none"]
    /\ cached = {}
    /\ result = [c \in Children |-> "none"]
    /\ delivered = {}
    /\ joinW = [c \in Children |-> {}]
    /\ waitW = [c \in Children |-> {}]
    /\ tokens = {} /\ inputs = {} /\ signalled = {}
    /\ ask = [q \in Requests |-> "idle"]
    /\ kids = [q \in Requests |-> {}]
    /\ reply = [q \in Requests |-> "none"]
    /\ gone = {} /\ timers = {} /\ told = {} /\ toldAtAsk = {}

Terminal(c) == result[c] # "none"

-----------------------------------------------------------------------------
(* Answering requests.                                                     *)

\* The senders Q are used: those whose receiver is alive answer v.
Answer(Q, v) ==
    /\ ask' = [q \in Requests |-> IF q \notin Q THEN ask[q]
                                  ELSE IF q \in gone THEN "lost" ELSE "answered"]
    /\ reply' = [q \in Requests |-> IF q \in Q \ gone THEN v ELSE reply[q]]

DeliverAlways(C, Q) == C

\* result_delivered is set when at least one send of the result succeeded.
Deliver(C, Q) == IF Q \subseteq gone THEN {} ELSE C

\* The senders Q are used for the terminal results of the children C.
Publish(C, Q, v) ==
    /\ Answer(Q, v)
    /\ delivered' = delivered \cup Deliver(C, Q)
    /\ told' = IF Q \subseteq gone THEN told ELSE told \cup C

Ask(q, C) ==
    /\ ask[q] = "idle"
    /\ kids' = [kids EXCEPT ![q] = C]
    /\ toldAtAsk' = IF C \cap told # {} THEN toldAtAsk \cup {q} ELSE toldAtAsk

Refuse(q) == Answer({q}, "error") /\ UNCHANGED <<delivered, told>>

\* A join clones the result and leaves it for the next one.
CloneResult(c) == result

JoinChild(q, c) ==
    /\ Ask(q, {c})
    /\ \/ c \notin cached /\ Refuse(q) /\ UNCHANGED <<result, joinW>>
       \/ /\ c \in cached /\ Terminal(c)
          /\ Publish({c}, {q}, c)
          /\ result' = CloneResult(c)
          /\ UNCHANGED joinW
       \/ /\ c \in cached /\ ~Terminal(c)
          /\ joinW' = [joinW EXCEPT ![c] = @ \cup {q}]
          /\ ask' = [ask EXCEPT ![q] = "waiting"]
          /\ UNCHANGED <<result, reply, delivered, told>>
    /\ UNCHANGED <<lifecycle, handles, cached, waitW, gone, timers>>


\* The children whose results a wait may answer at once; with several, the one
\* that comes first in the caller's list is taken.
TerminalAmong(C, poll) == {c \in C : Terminal(c)}

\* WaitChild and WaitChildren: answer with a result there is, answer "running"
\* to a poll, or register one shared sender with every child and arm a timer.
WaitChildren(q, C, poll) ==
    /\ Ask(q, C)
    /\ \/ /\ C = {} \/ ~(C \subseteq cached)
          /\ Refuse(q) /\ UNCHANGED <<waitW, timers>>
       \/ /\ C \subseteq cached
          /\ \E c \in TerminalAmong(C, poll) : Publish({c}, {q}, c)
          /\ UNCHANGED <<waitW, timers>>
       \/ /\ C # {} /\ C \subseteq cached /\ TerminalAmong(C, poll) = {} /\ poll
          /\ Answer({q}, "running")
          /\ UNCHANGED <<waitW, timers, delivered, told>>
       \/ /\ C # {} /\ C \subseteq cached /\ TerminalAmong(C, poll) = {} /\ ~poll
          /\ waitW' = [c \in Children |-> IF c \in C THEN waitW[c] \cup {q} ELSE waitW[c]]
          /\ timers' = timers \cup {q}
          /\ ask' = [ask EXCEPT ![q] = "waiting"]
          /\ UNCHANGED <<reply, delivered, told>>
    /\ UNCHANGED <<lifecycle, handles, cached, result, joinW, gone>>

\* ChildStatus: a terminal status carries the result.
ChildStatus(q, c) ==
    /\ Ask(q, {c})
    /\ \/ c \notin cached /\ Refuse(q)
       \/ c \in cached /\ Terminal(c) /\ Publish({c}, {q}, c)
       \/ c \in cached /\ ~Terminal(c) /\ Answer({q}, "running") /\ UNCHANGED <<delivered, told>>
    /\ UNCHANGED <<lifecycle, handles, cached, result, joinW, waitW, gone, timers>>

\* ListChildren: one reply with the status of every child.
ListChildren(q) ==
    /\ Ask(q, cached)
    /\ Publish({c \in cached : Terminal(c)}, {q}, "roster")
    /\ UNCHANGED <<lifecycle, handles, cached, result, joinW, waitW, gone, timers>>

\* The caller's tool call is cancelled before an answer arrived.
DropReceiver(q) ==
    /\ q \notin gone /\ ask[q] \in {"idle", "waiting", "timing"}
    /\ gone' = gone \cup {q}
    /\ UNCHANGED <<lifecycle, cache, handles, ask, kids, reply, timers, told, toldAtAsk>>

-----------------------------------------------------------------------------
(* Timeouts.                                                               *)

Forget(q) == [c \in Children |-> waitW[c] \ {q}]

\* The sender is an Option behind a mutex of its own: whoever takes it first has it.
TakesSender(q) == ask[q] = "waiting"

OnlySingleWaitsTimeOut(q) ==
    /\ q \in timers /\ Cardinality(kids[q]) = 1
    /\ timers' = timers \ {q}
    /\ waitW' = Forget(q)
    /\ ask' = IF TakesSender(q) THEN [ask EXCEPT ![q] = "timing"] ELSE ask
    /\ UNCHANGED <<lifecycle, handles, cached, result, delivered, joinW,
                   kids, reply, gone, told, toldAtAsk>>

\* Under the lock the timer unregisters the waiter and takes its sender, if it
\* is still there ...
TimerFires(q) ==
    /\ q \in timers
    /\ timers' = timers \ {q}
    /\ waitW' = Forget(q)
    /\ ask' = IF TakesSender(q) THEN [ask EXCEPT ![q] = "timing"] ELSE ask
    /\ UNCHANGED <<lifecycle, handles, cached, result, delivered, joinW,
                   kids, reply, gone, told, toldAtAsk>>

\* ... and answers after it has released the lock.
TimerAnswers(q) ==
    /\ ask[q] = "timing"
    /\ Answer({q}, "running")
    /\ UNCHANGED <<lifecycle, handles, cache, kids, gone, timers, told, toldAtAsk>>

-----------------------------------------------------------------------------
(* Lifecycle of a child.                                                   *)

\* spawn_task_into, for an accepted id (an id is accepted once).
Start(c) ==
    /\ pc[c] = "absent"
    /\ pc' = [pc EXCEPT ![c] = "running"]
    /\ tokens' = tokens \cup {c}
    /\ inputs' = inputs \cup {c}
    /\ cached' = cached \cup {c}
    /\ UNCHANGED <<attempt, outcome, completed, result, delivered, joinW, waitW,
                   signalled, requests>>

CancelTakesToken(c) ==
    /\ c \in tokens
    /\ signalled' = signalled \cup {c}
    /\ tokens' = tokens \ {c}
    /\ UNCHANGED <<lifecycle, cache, inputs, requests>>

\* CancelChild by the owner, or Cancel of the child's own id.
CancelChild(c) ==
    /\ c \in tokens
    /\ signalled' = signalled \cup {c}
    /\ UNCHANGED <<lifecycle, cache, tokens, inputs, requests>>

\* The first attempt holds the registered token, a retry a token nobody else has.
SeesCancellation(c) == c \in signalled /\ attempt[c] = 0


\* An output that asks for approval keeps the lifecycle task waiting.
AfterExit(o) == IF o = "awaiting" THEN "awaiting" ELSE "resolved"

\* The attempt ends with an output; only a signalled one exits as cancelled.
Exit(c, o) ==
    /\ pc[c] = "running"
    /\ o = "cancelled" => SeesCancellation(c)
    /\ pc' = [pc EXCEPT ![c] = AfterExit(o)]
    /\ outcome' = [outcome EXCEPT ![c] = o]
    /\ UNCHANGED <<attempt, completed, cache, handles, requests>>

\* The attempt ends with an error: run_task_with_retries starts another one
\* while the strategy allows.
Fail(c) ==
    /\ pc[c] = "running"
    /\ IF attempt[c] < RetryLimit[c]
       THEN attempt' = [attempt EXCEPT ![c] = @ + 1] /\ UNCHANGED <<pc, outcome>>
       ELSE /\ pc' = [pc EXCEPT ![c] = "resolved"]
            /\ outcome' = [outcome EXCEPT ![c] = "failed"]
            /\ UNCHANGED attempt
    /\ UNCHANGED <<completed, cache, handles, requests>>

ApprovalSeesAttempt(c) == pc[c] = "awaiting" /\ SeesCancellation(c)

ApprovalEnds(c) == pc[c] = "awaiting" /\ c \in signalled

\* await_awaiting_approval_terminal: only the registered token ends the wait.
AwaitApprovalTerminal(c) ==
    /\ ApprovalEnds(c)
    /\ pc' = [pc EXCEPT ![c] = "resolved"]
    /\ outcome' = [outcome EXCEPT ![c] = "cancelled"]
    /\ UNCHANGED <<attempt, completed, cache, handles, requests>>


\* A failed append replaces the result by an error.
ProcessedOutcome(c, appended) == IF appended THEN outcome[c] ELSE "failed"

\* process_child_result_after_settlement appends SubAgentCompleted.
JournalCompletion(c, appended) ==
    /\ pc[c] = "resolved"
    /\ pc' = [pc EXCEPT ![c] = "journaled"]
    /\ outcome' = [outcome EXCEPT ![c] = ProcessedOutcome(c, appended)]
    /\ completed' = IF appended
                    THEN [completed EXCEPT ![c] = IF outcome[c] = "completed" THEN "success" ELSE "failure"]
                    ELSE completed
    /\ UNCHANGED <<attempt, cache, handles, requests>>

\* Recording a result takes the child's waiters, and with them their shared
\* entries at other children.
DropAnswered(c) == [k \in Children |-> waitW[k] \ waitW[c]]

WakeWaitsOnly(c) == {q \in waitW[c] : ask[q] = "waiting"}

Woken(c) == joinW[c] \cup {q \in waitW[c] : ask[q] = "waiting"}

\* record_child_terminal_result, under the lock.
RecordTerminalResult(c) ==
    /\ pc[c] = "journaled"
    /\ pc' = [pc EXCEPT ![c] = "recorded"]
    /\ IF c \in cached
       THEN /\ result' = [result EXCEPT ![c] = outcome[c]]
            /\ Publish({c}, Woken(c), c)
            /\ joinW' = [joinW EXCEPT ![c] = {}]
            /\ waitW' = DropAnswered(c)
       ELSE UNCHANGED <<result, ask, reply, delivered, told, joinW, waitW>>
    /\ UNCHANGED <<attempt, outcome, completed, cached, handles, kids, gone, timers, toldAtAsk>>

RemoveToken(c) ==
    /\ pc[c] = "recorded"
    /\ pc' = [pc EXCEPT ![c] = "untokened"]
    /\ tokens' = tokens \ {c}
    /\ UNCHANGED <<attempt, outcome, completed, cache, inputs, signalled, requests>>

RemoveInput(c) ==
    /\ pc[c] = "untokened"
    /\ pc' = [pc EXCEPT ![c] = "done"]
    /\ inputs' = inputs \ {c}
    /\ UNCHANGED <<attempt, outcome, completed, cache, tokens, signalled, requests>>

\* close_child refuses a child that is still running.
MayClose(c) == Terminal(c)

\* The maps have locks of their own and close_child takes them one by one; only
\* the child's own RemoveToken and RemoveInput can come between, and they remove
\* the same keys.
CloseChild(c) ==
    /\ c \in cached /\ MayClose(c)
    /\ cached' = cached \ {c}
    /\ result' = [result EXCEPT ![c] = "none"]
    /\ delivered' = delivered \ {c}
    /\ joinW' = [joinW EXCEPT ![c] = {}]
    /\ waitW' = [waitW EXCEPT ![c] = {}]
    /\ tokens' = tokens \ {c}
    /\ inputs' = inputs \ {c}
    /\ UNCHANGED <<lifecycle, signalled, requests>>

-----------------------------------------------------------------------------
OwnerStep ==
    \/ \E q \in Requests :
        \/ \E c \in Children : JoinChild(q, c) \/ ChildStatus(q, c)
        \/ \E C \in SUBSET Children, poll \in BOOLEAN : WaitChildren(q, C, poll)
        \/ ListChildren(q)
        \/ DropReceiver(q)
    \/ \E c \in Children : CancelChild(c) \/ CloseChild(c)

TimerStep(q) == TimerFires(q) \/ TimerAnswers(q)

\* The steps the runtime takes by itself once a child's future has resolved.
EpilogueStep(c) ==
    \/ AwaitApprovalTerminal(c)
    \/ \E appended \in BOOLEAN : JournalCompletion(c, appended)
    \/ RecordTerminalResult(c)
    \/ RemoveToken(c) \/ RemoveInput(c)

TaskStep(c) ==
    \/ Start(c) \/ Fail(c)
    \/ \E o \in {"completed", "failed", "cancelled", "awaiting"} : Exit(c, o)

Next ==
    \/ OwnerStep
    \/ \E q \in Requests : TimerStep(q)
    \/ \E c \in Children : TaskStep(c) \/ EpilogueStep(c)

Spec == Init /\ [][Next]_vars

\* Timers and epilogues are tokio tasks that are ready to run; whether a
\* child's own future resolves, or the owner sends anything, is not assumed.
FairSpec ==
    /\ Spec
    /\ \A q \in Requests : WF_vars(TimerStep(q))
    /\ \A c \in Children : WF_vars(EpilogueStep(c))

-----------------------------------------------------------------------------
(* Properties.                                                             *)

Statuses == {"completed", "failed", "cancelled"}

TypeOK ==
    /\ pc \in [Children -> {"absent", "running", "awaiting", "resolved", "journaled",
                            "recorded", "untokened", "done"}]
    /\ attempt \in [Children -> 0..2] /\ \A c \in Children : attempt[c] <= RetryLimit[c]
    /\ outcome \in [Children -> Statuses \cup {"none", "awaiting"}]
    /\ completed \in [Children -> {"none", "success", "failure"}]
    /\ cached \subseteq Children
    /\ result \in [Children -> Statuses \cup {"none"}]
    /\ delivered \subseteq cached
    /\ joinW \in [Children -> SUBSET Requests]
    /\ waitW \in [Children -> SUBSET Requests]
    /\ tokens \subseteq Children /\ inputs \subseteq Children /\ signalled \subseteq Children
    /\ ask \in [Requests -> {"idle", "waiting", "timing", "answered", "lost"}]
    /\ kids \in [Requests -> SUBSET Children]
    /\ reply \in [Requests -> {"none", "running", "roster", "error"} \cup Children]
    /\ gone \subseteq Requests /\ timers \subseteq Requests
    /\ told \subseteq Children /\ toldAtAsk \subseteq Requests

\* No caller is left behind: a request is registered exactly while it waits,
\* with every child it asked about, and only with children that still run.  A
\* result, a timeout and a close may take the sender in any order.
WaitersMatch ==
    /\ \A c \in Children : joinW[c] \cup waitW[c] # {} => c \in cached /\ ~Terminal(c)
    /\ \A q \in Requests :
        LET at == {c \in Children : q \in joinW[c] \cup waitW[c]} IN
        at = IF ask[q] = "waiting" THEN kids[q] ELSE {}

\* result_delivered is what the host goes by: it is set for every child in the
\* cache whose result some caller holds, whichever of join, wait, status or the
\* recording handed it over, and only if a caller holds it, alone or in a list.
\* A caller that is gone holds nothing.
DeliveredMeansReceived ==
    \A c \in cached :
        /\ (\E q \in Requests : reply[q] = c) => c \in delivered
        /\ c \in delivered => \E q \in Requests : reply[q] = c \/ (reply[q] = "roster" /\ c \in kids[q])

\* Journal before return: a result the owner can see has its SubAgentCompleted
\* entry, with the matching success flag; only a failed one may lack it (the
\* append itself failed).
ResultIsJournaled ==
    \A c \in Children :
        /\ result[c] = "completed" => completed[c] = "success"
        /\ result[c] = "cancelled" => completed[c] = "failure"

\* Reads are monotonic: once any call has returned a child's result, no call
\* made later reports that child, or a set with it, as running.
NeverRunningAgain == \A q \in toldAtAsk : reply[q] # "running"

\* A child without a result can be cancelled and steered; a finished lifecycle
\* leaves neither handle behind, closed or not.
HandlesTrackLife ==
    \A c \in Children :
        /\ c \in cached /\ ~Terminal(c) => c \in tokens /\ c \in inputs
        /\ pc[c] = "done" => c \notin tokens /\ c \notin inputs

\* A published result never changes and leaves only by being closed; a closed
\* child never comes back.
ResultIsFinal ==
    [][\A c \in Children :
          /\ Terminal(c) => result'[c] = result[c] \/ c \notin cached'
          /\ pc[c] # "absent" /\ c \notin cached => c \notin cached']_vars

\* Nobody waits for ever: every bounded wait is answered, or its caller is
\* gone, however the timer, the results and the closes interleave; and a join,
\* which has no timer, returns once the child's future has resolved.
RequestsEnd ==
    \A q \in Requests :
        /\ (\E c \in Children : q \in waitW[c]) ~> ask[q] \in {"answered", "lost"}
        /\ \A c \in Children :
              (q \in joinW[c] /\ pc[c] = "resolved") ~> ask[q] \in {"answered", "lost"}

\* Cancelling a child that awaits approval ends it.
CancelledApprovalEnds ==
    \A c \in Children : (pc[c] = "awaiting" /\ c \in signalled) ~> pc[c] = "done"

\* The inductive invariant: what the stages of a lifecycle say about the cache,
\* the journal and the handles ...
Stages ==
    \A c \in Children :
        /\ pc[c] = "absent" => c \notin cached /\ result[c] = "none"
        /\ pc[c] \in {"running", "awaiting", "resolved", "journaled"} =>
              c \in cached /\ result[c] = "none" /\ c \in tokens /\ c \in inputs
        /\ pc[c] \in {"resolved", "journaled"} => outcome[c] \in Statuses
        /\ pc[c] = "journaled" =>
              /\ outcome[c] = "completed" => completed[c] = "success"
              /\ outcome[c] = "cancelled" => completed[c] = "failure"
        /\ pc[c] \in {"recorded", "untokened", "done"} => (c \in cached <=> Terminal(c))
        /\ pc[c] \in {"untokened", "done"} => c \notin tokens
        /\ pc[c] = "done" => c \notin inputs

\* ... and what the registrations of a request say about it: a join has no
\* timer, a wait has one, and nothing is registered with a published child.
Registered(q) ==
    /\ ask[q] = "idle" => q \notin timers
    /\ \A c \in Children :
        /\ q \in joinW[c] => ask[q] = "waiting" /\ kids[q] = {c} /\ q \notin timers
        /\ q \in waitW[c] => ask[q] = "waiting" /\ c \in kids[q] /\ q \in timers
    /\ ask[q] = "waiting" /\ q \in timers => \A c \in kids[q] : q \in waitW[c]
    /\ ask[q] = "waiting" /\ q \notin timers => \A c \in kids[q] : q \in joinW[c]
    /\ ask[q] = "waiting" => \A c \in kids[q] : c \in cached

Registrations ==
    /\ \A c \in Children : Terminal(c) => joinW[c] = {} /\ waitW[c] = {}
    /\ \A q \in Requests : Registered(q)

\* ... and what has been told: only results, and never to a call that still waits.
Histories ==
    /\ \A c \in told : pc[c] \in {"recorded", "untokened", "done"}
    /\ \A q \in toldAtAsk : ask[q] \in {"answered", "lost"}
    /\ \A q \in Requests : ask[q] # "answered" => reply[q] = "none"

DeliveredIffTold == delivered = told \cap cached

\* What was told is what the callers hold.
Received ==
    /\ \A q \in Requests, c \in Children : reply[q] = c => c \in told
    /\ \A c \in told : \E q \in Requests : reply[q] = c \/ (reply[q] = "roster" /\ c \in kids[q])

\* An expired call asked about children that had been launched.
Launched == \A q \in Requests : ask[q] = "timing" => \A c \in kids[q] : pc[c] # "absent"

ToldInv == Histories /\ Received /\ DeliveredIffTold /\ NeverRunningAgain

IInv == TypeOK /\ Stages /\ Registrations /\ ResultIsJournaled /\ ToldInv /\ Launched

\* What the owner sees of the cache: one entry per child, one answer per call.
Entry(c) ==
    IF pc[c] = "absent" THEN "absent"
    ELSE IF c \notin cached THEN "closed"
    ELSE IF Terminal(c) THEN result[c] ELSE "running"

CallState(q) ==
    IF ask[q] = "waiting" THEN "open"
    ELSE IF ask[q] = "timing" THEN "expired"
    ELSE IF ask[q] = "answered" THEN reply[q] ELSE ask[q]

Board == INSTANCE ChildBoard WITH
    board <- [c \in Children |-> Entry(c)],
    asked <- kids,
    call <- [q \in Requests |-> CallState(q)]

\* The cache, its waiters and its timers implement the board: every call is
\* answered at most once, a result goes to every caller that waits for it, and
\* no caller is told what no child did.
ImplementsBoard == Board!Spec
=============================================================================
