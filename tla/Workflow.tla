------------------------------ MODULE Workflow ------------------------------
(* The workflow runtime (simulacra-workflow): runs of JavaScript workflows    *)
(* on one local executor, their agent() calls under a concurrency limit, the  *)
(* results kept in the VFS, cancellation, and resuming from an earlier run.   *)
(* A script is any sequence of calls; a worker answers, fails or never does.  *)
EXTENDS Integers, FiniteSets, Sequences

CONSTANTS N,         \* executions, started in order 1 .. N
          Ids,       \* run ids; one may be given again
          Options,   \* the run_id and resume_from_run_id a caller may give each
          Keys,      \* labels, or the default agent-<index>
          Files,     \* names of transcript files
          File,      \* sanitize_label: different labels may share a file
          Limit,     \* concurrency_limit.max(1)
          MaxCalls,  \* bound: calls of each script
          None

Execs == 1 .. N

ASSUME WorkflowAssumption ==
    /\ N \in Nat /\ Limit \in Nat \ {0}
    /\ MaxCalls \in [Execs -> Nat]
    /\ Options \in [Execs -> SUBSET (Ids \X (Ids \cup {None}))]
    /\ File \in [Keys -> Files]
    /\ None \notin Ids /\ None \notin Keys

VARIABLES exec,     \* ExecutionContext of each execution, with its semaphore
          calls,    \* the agent() calls of each, by index
          events,   \* the event list of each
          state,    \* <run_id>/state.json
          files,    \* <run_id>/agents/<label>.json
          control   \* WorkflowRuntime.runs: the execution an id refers to

vars == <<exec, calls, events, state, files, control>>

-----------------------------------------------------------------------------

(* What a worker returned for call `index` of execution `by`. *)
Result == [by : Execs, index : Nat, key : Keys, is_error : BOOLEAN]
NoResult == [by |-> 0, index |-> 0, key |-> None, is_error |-> FALSE]
Status == {"running", "completed", "failed", "cancelled"}
NoRun == [status |-> "none", results |-> <<>>]
Running == [status |-> "running", results |-> <<>>]

Event(what, i) == [what |-> what, index |-> i]

(* The results vector, sorted by index: the result of each call that has one. *)
Results(e) == [i \in {j \in DOMAIN calls[e] : calls[e][j].result # NoResult} |-> calls[e][i].result]

(* Mutant: whatever the file holds is cached under the label asked for. *)
CacheByLabel(from) ==
    IF from = None THEN {}
    ELSE {[files[from][File[r.key]] EXCEPT !.key = r.key] :
             r \in {q \in {state[from].results[i] : i \in DOMAIN state[from].results} :
                       ~q.is_error /\ files[from][File[q.key]] # NoResult}}

(* load_resume_cache: for each good result of the source run, what its file   *)
(* holds, under the label the file names.  An unknown source yields nothing.  *)
ResumeCache(from) ==
    IF from = None THEN {}
    ELSE {files[from][File[r.key]] :
             r \in {q \in {state[from].results[i] : i \in DOMAIN state[from].results} :
                       ~q.is_error /\ files[from][File[q.key]] # NoResult}}

Init ==
    /\ exec = [e \in Execs |-> [id |-> None, from |-> None, phase |-> "new", cancelled |-> FALSE,
                                permits |-> Limit, cached |-> {}]]
    /\ calls = [e \in Execs |-> <<>>]
    /\ events = [e \in Execs |-> <<>>]
    /\ state = [d \in Ids |-> NoRun]
    /\ files = [d \in Ids |-> [f \in Files |-> NoResult]]
    /\ control = [d \in Ids |-> 0]

(* start, first half: the record of the id is overwritten.  An error of the   *)
(* script, of its metadata or of this write returns with nothing changed.    *)
Save(e, id, from) ==
    /\ exec[e].phase = "new" /\ \A d \in 1 .. (e - 1) : exec[d].phase # "new"
    /\ exec' = [exec EXCEPT ![e].id = id, ![e].from = from, ![e].phase = "saved"]
    /\ state' = [state EXCEPT ![id] = Running]
    /\ UNCHANGED <<calls, events, files, control>>

(* start, second half, with no lock held since the first: the control of the  *)
(* id is replaced and the executor is told.                                  *)
Register(e) ==
    /\ exec[e].phase = "saved"
    /\ exec' = [exec EXCEPT ![e].phase = "queued"]
    /\ control' = [control EXCEPT ![exec[e].id] = e]
    /\ events' = [events EXCEPT ![e] = <<Event("run_started", 0)>>]
    /\ UNCHANGED <<calls, state, files>>

(* execute_workflow up to the evaluation of the script. *)
Begin(e) ==
    /\ exec[e].phase = "queued"
    /\ exec' = [exec EXCEPT ![e].phase = "running", ![e].cached = ResumeCache(exec[e].from)]
    /\ UNCHANGED <<calls, events, state, files, control>>

(* host_agent_call: a cancelled run answers without using an index; a cached  *)
(* result is used as it is and not written under this run's id.              *)
AgentCall(e, k) ==
    /\ exec[e].phase = "running" /\ ~exec[e].cancelled
    /\ Len(calls[e]) < MaxCalls[e]
    /\ LET hits == {r \in exec[e].cached : r.key = k}
           i == Len(calls[e]) + 1
       IN  \/ /\ hits = {}
              /\ calls' = [calls EXCEPT ![e] = Append(@, [key |-> k, phase |-> "waiting", result |-> NoResult])]
              /\ events' = [events EXCEPT ![e] = Append(@, Event("call_started", i))]
           \/ \E r \in hits :
              /\ calls' = [calls EXCEPT ![e] = Append(@, [key |-> k, phase |-> "done", result |-> r])]
              /\ events' = [events EXCEPT ![e] = Append(@, Event("call_completed", i))]
    /\ UNCHANGED <<exec, state, files, control>>

(* The permit branch of the first select!. *)
Acquire(e, i) ==
    /\ exec[e].phase = "running" /\ calls[e][i].phase = "waiting" /\ exec[e].permits > 0
    /\ exec' = [exec EXCEPT ![e].permits = @ - 1]
    /\ calls' = [calls EXCEPT ![e][i].phase = "working"]
    /\ UNCHANGED <<events, state, files, control>>

(* The worker answers: permit, file, event and result in one executor step.  *)
WorkerReturns(e, i, is_error) ==
    LET r == [by |-> e, index |-> i, key |-> calls[e][i].key, is_error |-> is_error] IN
    /\ exec[e].phase = "running" /\ calls[e][i].phase = "working"
    /\ exec' = [exec EXCEPT ![e].permits = @ + 1]
    /\ files' = [files EXCEPT ![exec[e].id][File[r.key]] = r]
    /\ events' = [events EXCEPT ![e] = Append(@, Event("call_completed", i))]
    /\ calls' = [calls EXCEPT ![e][i].phase = "done", ![e][i].result = r]
    /\ UNCHANGED <<state, control>>

(* Mutant: an early return keeps the permit. *)
WorkerFailsKeepingPermit(e, i) ==
    /\ exec[e].phase = "running" /\ calls[e][i].phase = "working"
    /\ calls' = [calls EXCEPT ![e][i].phase = "lost"]
    /\ UNCHANGED <<exec, events, state, files, control>>

(* The worker itself, or the write of its result, fails: the script is told   *)
(* and the run keeps no trace of the call but its start.                     *)
WorkerFails(e, i) ==
    /\ exec[e].phase = "running" /\ calls[e][i].phase = "working"
    /\ exec' = [exec EXCEPT ![e].permits = @ + 1]
    /\ calls' = [calls EXCEPT ![e][i].phase = "lost"]
    /\ UNCHANGED <<events, state, files, control>>

(* Mutant: only the worker is raced against the token. *)
CancelWorkingOnly(e, i) ==
    /\ exec[e].phase = "running" /\ exec[e].cancelled
    /\ calls[e][i].phase = "working"
    /\ exec' = [exec EXCEPT ![e].permits = @ + 1]
    /\ calls' = [calls EXCEPT ![e][i].phase = "lost"]
    /\ UNCHANGED <<events, state, files, control>>

(* The cancelled() branches of both selects. *)
CallCancelled(e, i) ==
    /\ exec[e].phase = "running" /\ exec[e].cancelled
    /\ calls[e][i].phase \in {"waiting", "working"}
    /\ exec' = [exec EXCEPT ![e].permits = @ + (IF calls[e][i].phase = "working" THEN 1 ELSE 0)]
    /\ calls' = [calls EXCEPT ![e][i].phase = "lost"]
    /\ UNCHANGED <<events, state, files, control>>

(* How a run ends: ok says whether the script returned. *)
FinalStatus(e, ok) ==
    CASE exec[e].cancelled -> "cancelled"
      [] ~exec[e].cancelled /\ ~ok -> "failed"
      [] OTHER -> IF \E i \in DOMAIN calls[e] : calls[e][i].result.is_error THEN "failed" ELSE "completed"

(* The engine is dropped, and with it every call still under way. *)
DropCalls(e) == [calls EXCEPT ![e] = [i \in DOMAIN @ |->
                    IF @[i].phase \in {"waiting", "working"} THEN [@[i] EXCEPT !.phase = "lost"] ELSE @[i]]]

(* Mutant: only the status of the record is updated. *)
EndStatusOnly(e, ok) ==
    /\ exec[e].phase = "running"
    /\ calls' = DropCalls(e)
    /\ events' = [events EXCEPT ![e] = Append(@, Event(FinalStatus(e, ok), 0))]
    /\ exec' = [exec EXCEPT ![e].phase = "ended", ![e].permits = Limit]
    /\ state' = [state EXCEPT ![exec[e].id].status = FinalStatus(e, ok)]
    /\ UNCHANGED <<files, control>>

(* The script returns, throws or is timed out: the event is pushed, then the  *)
(* run is recorded.  When save_run fails the record stays what it was.       *)
End(e, ok) ==
    /\ exec[e].phase = "running"
    /\ calls' = DropCalls(e)
    /\ events' = [events EXCEPT ![e] = Append(@, Event(FinalStatus(e, ok), 0))]
    /\ \/ /\ exec' = [exec EXCEPT ![e].phase = "ended", ![e].permits = Limit]
          /\ state' = [state EXCEPT ![exec[e].id] = [status |-> FinalStatus(e, ok), results |-> Results(e)]]
       \/ /\ exec' = [exec EXCEPT ![e].phase = "unrecorded", ![e].permits = Limit]
          /\ UNCHANGED state
    /\ UNCHANGED <<files, control>>

Cancel(id) ==
    /\ control[id] # 0 /\ ~exec[control[id]].cancelled
    /\ exec' = [exec EXCEPT ![control[id]].cancelled = TRUE]
    /\ UNCHANGED <<calls, events, state, files, control>>

CallStep(e, i) == Acquire(e, i) \/ CallCancelled(e, i)

Next ==
    \/ \E e \in Execs :
        \/ \E o \in Options[e] : Save(e, o[1], o[2])
        \/ Register(e)
        \/ Begin(e)
        \/ \E k \in Keys : AgentCall(e, k)
        \/ \E i \in DOMAIN calls[e] :
               CallStep(e, i) \/ WorkerFails(e, i) \/ \E b \in BOOLEAN : WorkerReturns(e, i, b)
        \/ \E ok \in BOOLEAN : End(e, ok)
    \/ \E id \in Ids : Cancel(id)

Spec == Init /\ [][Next]_vars

(* The executor polls its futures; scripts and workers owe nothing. *)
FairSpec ==
    /\ Spec
    /\ \A e \in Execs : \A i \in 1 .. MaxCalls[e] :
          WF_vars(i \in DOMAIN calls[e] /\ CallCancelled(e, i))

-----------------------------------------------------------------------------
(* Properties *)

ExecType == [id : Ids \cup {None}, from : Ids \cup {None},
             phase : {"new", "saved", "queued", "running", "ended", "unrecorded"}, cancelled : BOOLEAN,
             permits : 0 .. Limit, cached : SUBSET Result]
CallType == [key : Keys, phase : {"waiting", "working", "done", "lost"}, result : Result \cup {NoResult}]
EventType == [what : {"run_started", "call_started", "call_completed"} \cup Status, index : Nat]

(* Every variable holds a value of the type of what it models. *)
TypeOK ==
    /\ exec \in [Execs -> ExecType]
    /\ \A e \in Execs : exec[e].phase # "new" => exec[e].id \in Ids
    /\ calls \in [Execs -> Seq(CallType)] /\ \A e \in Execs : Len(calls[e]) <= MaxCalls[e]
    /\ events \in [Execs -> Seq(EventType)]
    /\ DOMAIN state = Ids
    /\ \A d \in Ids : /\ state[d] = [status |-> state[d].status, results |-> state[d].results]
                      /\ state[d].status \in Status \cup {"none"} /\ DOMAIN state[d].results \subseteq Nat
                      /\ \A i \in DOMAIN state[d].results : state[d].results[i] \in Result
    /\ files \in [Ids -> [Files -> Result \cup {NoResult}]]
    /\ control \in [Ids -> 0 .. N]

(* The concurrency limit holds and no exit of host_agent_call (worker error,  *)
(* failed write, cancel) leaks a permit, which would stall the calls behind.  *)
PermitsConserved ==
    \A e \in Execs : exec[e].phase = "running" =>
        exec[e].permits + Cardinality({i \in DOMAIN calls[e] : calls[e][i].phase = "working"}) = Limit

(* A resumed call is answered only with what a worker returned for the same   *)
(* label in an execution of the run it resumes from, whatever labels share a  *)
(* file, whichever executions share an id and however they overlap.           *)
ReuseIsGenuine ==
    \A e \in Execs : \A i \in DOMAIN calls[e] :
        LET r == calls[e][i].result IN
        r # NoResult =>
            /\ r.key = calls[e][i].key
            /\ calls[r.by][r.index].result = r
            /\ r.by # e => exec[r.by].id = exec[e].from

(* Execution e has saved its start and not its end. *)
Open(e) == exec[e].phase \notin {"new", "ended"}

OneExecution(id) ==
    \/ state[id] = NoRun
    \/ state[id] = Running /\ \E e \in Execs : exec[e].id = id /\ Open(e)
    \/ \E e \in Execs : /\ exec[e].id = id /\ exec[e].phase = "ended"
                        /\ state[id].results = Results(e)
                        /\ events[e][Len(events[e])].what = state[id].status

(* state.json of an id is the whole end of one of its executions (status,     *)
(* results and event agree), never a mixture of overlapping ones; it says     *)
(* running only for an execution that is under way or failed to save its end. *)
StateIsOneExecution == \A id \in Ids : OneExecution(id)

(* A cancelled run answers every call at once: one waiting for a permit and   *)
(* one whose worker never returns.                                           *)
CancelReleasesCalls ==
    \A e \in Execs : \A i \in 1 .. MaxCalls[e] :
        (exec[e].cancelled /\ i \in DOMAIN calls[e]) ~> (i \in DOMAIN calls[e] /\ calls[e][i].phase \in {"done", "lost"})

-----------------------------------------------------------------------------
(* The inductive invariant of the proofs.                                    *)

Working(e) == {i \in DOMAIN calls[e] : calls[e][i].phase = "working"}

(* Calls are under way only while their run is, have no result until they are *)
(* done, and hold the permits the semaphore lacks.                            *)
ExecInv(e) ==
    /\ exec[e].phase \in {"new", "saved", "queued"} => calls[e] = <<>> /\ exec[e].cached = {}
    /\ exec[e].phase # "running" => \A i \in DOMAIN calls[e] : calls[e][i].phase \in {"done", "lost"}
    /\ \A i \in DOMAIN calls[e] : calls[e][i].phase # "done" => calls[e][i].result = NoResult
    /\ exec[e].permits + Cardinality(Working(e)) = Limit

(* The result that a worker returned for one call of run id. *)
Genuine(r, id) ==
    /\ r \in Result /\ r.index \in DOMAIN calls[r.by]
    /\ calls[r.by][r.index].result = r
    /\ exec[r.by].id = id

ReuseInv(e) ==
    /\ \A r \in exec[e].cached : Genuine(r, exec[e].from)
    /\ \A i \in DOMAIN calls[e] :
          LET r == calls[e][i].result IN
          r # NoResult => /\ r.key = calls[e][i].key
                          /\ (r.by = e /\ r.index = i) \/ Genuine(r, exec[e].from)

FileInv(id) == \A f \in Files : files[id][f] # NoResult => Genuine(files[id][f], id)

(* An id refers to one of its executions; its record is that of one of them. *)
StateInv(id) ==
    /\ control[id] # 0 => exec[control[id]].id = id /\ exec[control[id]].phase # "new"
    /\ OneExecution(id)

IInv ==
    /\ TypeOK
    /\ \A e \in Execs : ExecInv(e) /\ ReuseInv(e)
    /\ \A id \in Ids : FileInv(id) /\ StateInv(id)

=============================================================================
