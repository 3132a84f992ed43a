----------------------------- MODULE AgentTurn -----------------------------
(* The turns of one agent loop (agent_loop/): journal before effect, provider *)
(* and tool calls, cancellation, policy kills, crashes, and the replay of a   *)
(* crashed run's journal up to its frontier (replay.rs, Restate pattern).     *)
(* Responses and results are told apart by when they were produced.           *)
EXTENDS Integers, Sequences, FiniteSets

CONSTANTS Sizes,       \* how many tool calls a response may carry
          Parallel,    \* whether its tools may all support parallel calls: a set of BOOLEAN
          Approvals,   \* whether tools may require approval: a set of BOOLEAN
          MaxTurns,    \* config.max_turns
          MaxInputs,   \* bound: inputs steered into the queue
          MaxNested,   \* bound: entries that tools and children append (FileWrite, SubAgentCompleted, ...)
          MaxFaults,   \* bound: failed appends, provider errors, cancels and kills
          MaxCrashes   \* bound

ASSUME AgentTurnAssumption ==
    /\ Sizes \subseteq Nat /\ Parallel \subseteq BOOLEAN /\ Approvals \subseteq BOOLEAN
    /\ MaxTurns \in Nat /\ MaxInputs \in Nat /\ MaxNested \in Nat /\ MaxFaults \in Nat /\ MaxCrashes \in Nat

VARIABLES pc,         \* where execute_turn is
          outcome,    \* what run returned
          turn,       \* turns begun
          messages,   \* the conversation after [system, user(task)]
          journal,    \* the entries of this run
          recorded,   \* the entries given to the replay iterator
          cursor,     \* how many of them are consumed
          resp,       \* the response whose calls are dispatched
          next,       \* the call dispatched next
          results,    \* results of its calls so far
          running,    \* calls whose tool task is running
          ran,        \* calls executed live by this run
          produced,   \* live responses and results so far: their identities
          queue,      \* inputs in the queue
          flags,      \* cancellation token, policy kill signal, approval required
          bounds      \* inputs, faults and crashes so far

turnVars == <<resp, next, results, running>>
replayVars == <<recorded, cursor>>
envVars == <<queue, flags, bounds>>
vars == <<pc, outcome, turn, messages, journal, recorded, cursor, resp, next, results,
          running, ran, produced, queue, flags, bounds>>

-----------------------------------------------------------------------------
(* Entries and messages: a kind, the call or response it names, a value.      *)

Entry(k, c, v) == [k |-> k, c |-> c, v |-> v]
TurnStart == Entry("TurnStart", <<0, 0>>, 0)
LlmRequest(n) == Entry("LlmRequest", <<0, 0>>, n)
LlmResponse(r) == Entry("LlmResponse", <<r.id, r.size>>, IF r.parallel THEN 1 ELSE 0)
ToolCall(c) == Entry("ToolCall", c, 0)
ToolResult(c, v) == Entry("ToolResult", c, v)
Effect(c) == Entry("Effect", c, 0)
SubAgentCompleted == Effect(<<0, 0>>)
Input == Entry("Input", <<0, 0>>, 0)

(* A result nobody's tool produced: cancelled or denied. *)
Synthetic == 0

Response == [id : Nat, size : Nat, parallel : BOOLEAN]
NoResponse == [id |-> 0, size |-> 0, parallel |-> FALSE]
AsResponse(e) == [id |-> e.c[1], size |-> e.c[2], parallel |-> e.v = 1]

AtFrontier == cursor = Len(recorded)
Upcoming == recorded[cursor + 1]
Call(i) == <<resp.id, i>>

Init ==
    /\ pc = "idle" /\ outcome = "none" /\ turn = 0
    /\ messages = <<>> /\ journal = <<>> /\ recorded = <<>> /\ cursor = 0
    /\ resp = NoResponse /\ next = 1 /\ results = <<>> /\ running = {} /\ ran = {}
    /\ produced = 0 /\ queue = 0
    /\ flags \in {[cancelled |-> FALSE, killed |-> FALSE, approval |-> a] : a \in Approvals}
    /\ bounds = [inputs |-> 0, faults |-> 0, crashes |-> 0]

Goto(to) == pc' = to /\ outcome' = outcome
Ends(why) == pc' = "ended" /\ outcome' = why

(* Mutant: the consumed entry is not compared. *)
ConsumeUnchecked(e, to) ==
    /\ journal' = Append(journal, e)
    /\ recorded' = recorded
    /\ cursor' = (IF AtFrontier THEN cursor ELSE cursor + 1) /\ Goto(to)

(* journal_entry followed by consume_replay_entry: a shifted journal ends the *)
(* run at the first difference.                                               *)
JournalAndConsume(e, to) ==
    /\ journal' = Append(journal, e)
    /\ recorded' = recorded
    /\ \/ AtFrontier /\ cursor' = cursor /\ Goto(to)
       \/ ~AtFrontier /\ Upcoming = e /\ cursor' = cursor + 1 /\ Goto(to)
       \/ ~AtFrontier /\ Upcoming # e /\ cursor' = cursor + 1 /\ Ends("diverged")

-----------------------------------------------------------------------------
(* execute_turn up to the provider *)

(* Between turns: run has begun max_turns of them, or execute_turn returns    *)
(* before it starts one (policy kill, cancellation, exhausted budget).        *)
StopBetweenTurns ==
    /\ pc = "idle"
    /\ \/ turn = MaxTurns /\ Ends("max_turns")
       \/ turn < MaxTurns /\ flags.killed /\ Ends("killed")
       \/ turn < MaxTurns /\ ~flags.killed /\ flags.cancelled /\ Ends("cancelled")
    /\ UNCHANGED <<turn, messages, journal, replayVars, turnVars, ran, produced, envVars>>

(* The queue is drained into the conversation, and not into the journal. *)
StartTurn ==
    /\ pc = "idle" /\ turn < MaxTurns /\ ~flags.killed /\ ~flags.cancelled
    /\ turn' = turn + 1
    /\ messages' = messages \o [i \in 1 .. queue |-> Input]
    /\ queue' = 0
    /\ JournalAndConsume(TurnStart, "started")
    /\ UNCHANGED <<turnVars, ran, produced, flags, bounds>>

Request ==
    /\ pc = "started"
    /\ JournalAndConsume(LlmRequest(Len(messages)), "requested")
    /\ UNCHANGED <<turn, messages, turnVars, ran, produced, envVars>>

(* A hook refuses the request or the response: journaled, and the turn        *)
(* returns an error.  A loop built to replay has no hook pipeline.            *)
HookRefuses ==
    /\ pc \in {"requested", "responded"} /\ recorded = <<>>
    /\ bounds.faults < MaxFaults /\ bounds' = [bounds EXCEPT !.faults = @ + 1]
    /\ journal' = Append(journal, Entry("Hook", <<0, 0>>, 0))
    /\ Ends("refused")
    /\ UNCHANGED <<turn, messages, replayVars, turnVars, ran, produced, queue, flags>>

(* Mutant: the provider is asked again for a recorded response. *)
CallProviderAgain ==
    /\ pc = "requested"
    /\ IF flags.cancelled THEN Ends("cancelled") ELSE Goto("calling")
    /\ UNCHANGED <<turn, messages, journal, replayVars, turnVars, ran, produced, envVars>>

(* A recorded response is taken instead of a call; any other entry diverges.  *)
ReplayResponse ==
    /\ pc = "requested" /\ ~AtFrontier
    /\ cursor' = cursor + 1
    /\ \/ Upcoming.k = "LlmResponse" /\ Goto("responded") /\ resp' = AsResponse(Upcoming)
       \/ Upcoming.k # "LlmResponse" /\ Ends("diverged") /\ resp' = resp
    /\ UNCHANGED <<turn, messages, journal, recorded, next, results, running, ran, produced, envVars>>

CallProvider ==
    /\ pc = "requested" /\ AtFrontier
    /\ IF flags.cancelled THEN Ends("cancelled") ELSE Goto("calling")
    /\ UNCHANGED <<turn, messages, journal, replayVars, turnVars, ran, produced, envVars>>

(* The provider answers; tool calls survive only a ToolUse finish.            *)
ProviderAnswers(n, p) ==
    /\ pc = "calling"
    /\ produced' = produced + 1
    /\ resp' = [id |-> produced + 1, size |-> n, parallel |-> p /\ n > 1]
    /\ Goto("responded")
    /\ UNCHANGED <<turn, messages, journal, replayVars, next, results, running, ran, envVars>>

(* It fails, or a streaming call is cancelled; a pending kill wins.           *)
ProviderFails ==
    /\ pc = "calling"
    /\ \/ flags.cancelled /\ bounds' = bounds /\ Ends(IF flags.killed THEN "killed" ELSE "cancelled")
       \/ /\ bounds.faults < MaxFaults /\ bounds' = [bounds EXCEPT !.faults = @ + 1]
          /\ Ends(IF flags.killed THEN "killed" ELSE "error")
    /\ UNCHANGED <<turn, messages, journal, replayVars, turnVars, ran, produced, queue, flags>>

(* The response is journaled, charged and pushed. *)
Respond ==
    /\ pc = "responded" /\ ~flags.killed
    /\ journal' = Append(journal, LlmResponse(resp))
    /\ messages' = Append(messages, LlmResponse(resp))
    /\ next' = 1 /\ results' = <<>>
    /\ Goto(IF resp.size = 0 THEN "pushed" ELSE "dispatch")
    /\ UNCHANGED <<turn, replayVars, resp, running, ran, produced, envVars>>

(* A kill is looked at before the response is used and, when no calls follow, *)
(* before the turn is complete.                                               *)
KilledAtResponse ==
    /\ pc \in {"responded", "pushed"} /\ flags.killed
    /\ Ends("killed")
    /\ UNCHANGED <<turn, messages, journal, replayVars, turnVars, ran, produced, envVars>>

Complete ==
    /\ pc = "pushed" /\ ~flags.killed
    /\ Ends("complete")
    /\ UNCHANGED <<turn, messages, journal, replayVars, turnVars, ran, produced, envVars>>

-----------------------------------------------------------------------------
(* dispatch_tool_calls *)

Batched == resp.parallel /\ ~flags.approval

(* Live parallel batches journal every call before any of them runs.          *)
BatchCall ==
    /\ pc = "batch" \/ (pc = "dispatch" /\ next = 1 /\ Batched /\ AtFrontier)
    /\ next <= resp.size
    /\ journal' = Append(journal, ToolCall(Call(next)))
    /\ next' = next + 1
    /\ Goto("batch")
    /\ UNCHANGED <<turn, messages, replayVars, resp, results, running, ran, produced, envVars>>

BatchRun ==
    /\ pc = "batch" /\ next > resp.size
    /\ running' = 1 .. resp.size /\ next' = 1
    /\ results' = [i \in 1 .. resp.size |-> -1]
    /\ ran' = ran \cup {Call(i) : i \in 1 .. resp.size}
    /\ Goto("batchrun")
    /\ UNCHANGED <<turn, messages, journal, replayVars, resp, produced, envVars>>

(* A tool of a batch returns, or its task is aborted by the token.            *)
BatchToolReturns(i) ==
    /\ pc = "batchrun" /\ i \in running
    /\ running' = running \ {i}
    /\ \/ results' = [results EXCEPT ![i] = produced + 1] /\ produced' = produced + 1
       \/ flags.cancelled /\ results' = [results EXCEPT ![i] = Synthetic] /\ produced' = produced
    /\ Goto(pc)
    /\ UNCHANGED <<turn, messages, journal, replayVars, resp, next, ran, envVars>>

BatchResult ==
    /\ pc = "batchrun" /\ running = {} /\ next <= resp.size
    /\ journal' = Append(journal, ToolResult(Call(next), results[next]))
    /\ next' = next + 1
    /\ Goto(pc)
    /\ UNCHANGED <<turn, messages, replayVars, resp, results, running, ran, produced, envVars>>

(* Mutant: nested entries are not skipped. *)
FoundNext(c) == {j \in {cursor + 2} \cap DOMAIN recorded : recorded[j].k = "ToolResult" /\ recorded[j].c = c}

(* take_replay_tool_result: the first matching result from the cursor on,     *)
(* over results and nested entries only.                                      *)
Found(c) == {j \in (cursor + 2) .. Len(recorded) :
                /\ recorded[j].k = "ToolResult" /\ recorded[j].c = c
                /\ \A h \in (cursor + 2) .. (j - 1) :
                      recorded[h].k \in {"ToolResult", "Effect"} /\ ~(recorded[h].k = "ToolResult" /\ recorded[h].c = c)}

(* A serial call: journaled, matched against the record, and answered from it *)
(* while the iterator has entries left.                                       *)
SerialCall ==
    LET c == Call(next)
        more == cursor + 1 < Len(recorded)
    IN
    /\ pc = "dispatch" /\ next <= resp.size /\ ~(next = 1 /\ Batched /\ AtFrontier)
    /\ journal' = Append(journal, ToolCall(c))
    /\ recorded' = recorded
    /\ \/ AtFrontier /\ cursor' = cursor /\ Goto("approve") /\ results' = results
       \/ ~AtFrontier /\ Upcoming # ToolCall(c) /\ cursor' = cursor + 1 /\ Ends("diverged") /\ results' = results
       \/ ~AtFrontier /\ Upcoming = ToolCall(c) /\ ~more /\ cursor' = cursor + 1 /\ Goto("approve") /\ results' = results
       \/ ~AtFrontier /\ Upcoming = ToolCall(c) /\ more /\ Found(c) = {} /\ cursor' = cursor + 1
          /\ Ends("diverged") /\ results' = results
       \/ /\ ~AtFrontier /\ Upcoming = ToolCall(c) /\ more
          /\ \E j \in Found(c) : cursor' = j /\ results' = Append(results, recorded[j].v)
          /\ Goto("finish")
    /\ UNCHANGED <<turn, messages, resp, next, running, ran, produced, envVars>>

(* await_tool_approval: granted (or not needed), or denied by the user or by  *)
(* the token.  A closed channel ends the turn with an error.                  *)
Approve ==
    /\ pc = "approve"
    /\ \/ /\ running' = {next} /\ ran' = ran \cup {Call(next)} /\ results' = results /\ Goto("exec")
       \/ /\ flags.approval
          /\ results' = Append(results, Synthetic) /\ Goto("finish") /\ UNCHANGED <<running, ran>>
    /\ UNCHANGED <<turn, messages, journal, replayVars, resp, next, produced, envVars>>

ToolReturns ==
    /\ pc = "exec"
    /\ running' = {}
    /\ \/ results' = Append(results, produced + 1) /\ produced' = produced + 1
       \/ flags.cancelled /\ results' = Append(results, Synthetic) /\ produced' = produced
    /\ Goto("finish")
    /\ UNCHANGED <<turn, messages, journal, replayVars, resp, next, ran, envVars>>

(* Mutant: a result from the record is not journaled again. *)
FinishLiveOnly ==
    /\ pc = "finish"
    /\ journal' = IF Call(next) \in ran THEN Append(journal, ToolResult(Call(next), results[next])) ELSE journal
    /\ next' = next + 1
    /\ Goto("dispatch")
    /\ UNCHANGED <<turn, messages, replayVars, resp, results, running, ran, produced, envVars>>

(* finish_tool_call *)
Finish ==
    /\ pc = "finish"
    /\ journal' = Append(journal, ToolResult(Call(next), results[next]))
    /\ next' = next + 1
    /\ Goto("dispatch")
    /\ UNCHANGED <<turn, messages, replayVars, resp, results, running, ran, produced, envVars>>

NestedIn(s) == Cardinality({j \in DOMAIN s : s[j].k = "Effect"})
NestedSoFar == NestedIn(recorded) + NestedIn(journal)

(* A running tool appends an entry of its own. *)
ToolJournals(i) ==
    /\ pc \in {"exec", "batchrun"} /\ i \in running /\ NestedSoFar < MaxNested
    /\ journal' = Append(journal, Effect(Call(i)))
    /\ UNCHANGED <<pc, outcome, turn, messages, replayVars, turnVars, ran, produced, envVars>>

(* A background child that a tool of this run spawned ends: the supervisor    *)
(* appends under the parent's id, wherever the parent's turn is.              *)
ChildCompletes ==
    /\ ran # {} /\ pc \notin {"ended", "crashed"} /\ NestedSoFar < MaxNested
    /\ journal' = Append(journal, SubAgentCompleted)
    /\ UNCHANGED <<pc, outcome, turn, messages, replayVars, turnVars, ran, produced, envVars>>

(* All results are in: they join the conversation, unless a kill arrived.     *)
EndTurn ==
    /\ pc \in {"dispatch", "batchrun"} /\ next > resp.size /\ running = {}
    /\ IF flags.killed THEN Ends("killed") /\ messages' = messages
       ELSE /\ Goto("idle")
            /\ messages' = messages \o [i \in 1 .. resp.size |-> ToolResult(Call(i), results[i])]
    /\ UNCHANGED <<turn, journal, replayVars, turnVars, ran, produced, envVars>>

-----------------------------------------------------------------------------
(* Failures and the environment *)

(* An append fails, the budget is exhausted or the approval channel is gone.  *)
TurnFails ==
    /\ \/ pc \in {"idle", "started", "responded", "dispatch", "batch", "finish"}
       \/ pc = "approve" /\ flags.approval
       \/ pc = "batchrun" /\ running = {}
    /\ bounds.faults < MaxFaults /\ bounds' = [bounds EXCEPT !.faults = @ + 1]
    /\ Ends("error")
    /\ UNCHANGED <<turn, messages, journal, replayVars, turnVars, ran, produced, queue, flags>>

Signal(flag) ==
    /\ pc \notin {"ended", "crashed"} /\ ~flags[flag]
    /\ bounds.faults < MaxFaults /\ bounds' = [bounds EXCEPT !.faults = @ + 1]
    /\ flags' = [flags EXCEPT ![flag] = TRUE]
    /\ UNCHANGED <<pc, outcome, turn, messages, journal, replayVars, turnVars, ran, produced, queue>>

Steer ==
    /\ pc \notin {"ended", "crashed"}
    /\ bounds.inputs < MaxInputs /\ bounds' = [bounds EXCEPT !.inputs = @ + 1]
    /\ queue' = queue + 1
    /\ UNCHANGED <<pc, outcome, turn, messages, journal, replayVars, turnVars, ran, produced, flags>>

(* The process dies; its journal is what a new loop is given to replay, into  *)
(* a journal of its own (the old record again, when it had not been used up). *)
Crash ==
    /\ pc \notin {"ended", "crashed"}
    /\ bounds.crashes < MaxCrashes /\ bounds' = [bounds EXCEPT !.crashes = @ + 1]
    /\ pc' = "crashed" /\ outcome' = "none" /\ turn' = 0 /\ messages' = <<>>
    /\ recorded' = IF AtFrontier THEN journal ELSE recorded
    /\ cursor' = 0 /\ journal' = <<>>
    /\ resp' = NoResponse /\ next' = 1 /\ results' = <<>> /\ running' = {} /\ ran' = {}
    /\ queue' = 0 /\ flags' = [flags EXCEPT !.cancelled = FALSE, !.killed = FALSE]
    /\ produced' = produced

Restart ==
    /\ pc = "crashed"
    /\ Goto("idle")
    /\ UNCHANGED <<turn, messages, journal, replayVars, turnVars, ran, produced, envVars>>

TurnStep ==
    \/ StopBetweenTurns \/ StartTurn \/ Request \/ ReplayResponse \/ CallProvider
    \/ \E n \in Sizes : \E p \in Parallel : ProviderAnswers(n, p)
    \/ Respond \/ KilledAtResponse \/ Complete \/ EndTurn

ToolStep ==
    \/ BatchCall \/ BatchRun \/ BatchResult \/ \E i \in running : BatchToolReturns(i)
    \/ SerialCall \/ Approve \/ ToolReturns \/ Finish

FaultStep ==
    \/ HookRefuses \/ ProviderFails \/ TurnFails \/ Steer \/ Crash
    \/ \E flag \in {"cancelled", "killed"} : Signal(flag)

Next ==
    \/ TurnStep \/ ToolStep \/ FaultStep \/ Restart
    \/ \E i \in running : ToolJournals(i)
    \/ ChildCompletes

Spec == Init /\ [][Next]_vars

-----------------------------------------------------------------------------
(* Properties *)

Kinds == {"TurnStart", "LlmRequest", "LlmResponse", "ToolCall", "ToolResult", "Effect", "Hook", "Input"}
EntryType == [k : Kinds, c : Nat \X Nat, v : Nat]

(* Every variable holds a value of the type of what it models. *)
TypeOK ==
    /\ pc \in {"idle", "started", "requested", "calling", "responded", "pushed", "dispatch", "batch", "batchrun",
               "approve", "exec", "finish", "ended", "crashed"}
    /\ outcome \in {"none", "complete", "max_turns", "cancelled", "killed", "refused", "error", "diverged"}
    /\ turn \in Nat /\ next \in Nat /\ produced \in Nat /\ queue \in Nat
    /\ messages \in Seq(EntryType) /\ journal \in Seq(EntryType) /\ recorded \in Seq(EntryType)
    /\ cursor \in 0 .. Len(recorded)
    /\ resp \in Response /\ running \subseteq 1 .. resp.size /\ ran \subseteq Nat \X Nat
    /\ results \in Seq(Int)
    /\ flags \in [cancelled : BOOLEAN, killed : BOOLEAN, approval : BOOLEAN]
    /\ bounds \in [inputs : Nat, faults : Nat, crashes : Nat]

(* The entries of kinds K among the first n of s, numbered in order: one such *)
(* selection is a prefix of another if and only if it is a subset of it.      *)
Count(s, n, K) == Cardinality({j \in 1 .. n : s[j].k \in K})
SelectTo(s, n, K) == {<<Count(s, j, K), s[j]>> : j \in {h \in 1 .. n : s[h].k \in K}}

ChatKinds == {"LlmResponse", "ToolResult"}
PlainKinds == Kinds \ {"Effect"}
Chat(s) == SelectTo(s, Len(s), ChatKinds)
Plain(s) == SelectTo(s, Len(s), PlainKinds)

(* Journal before return: what the conversation shows the model is in the     *)
(* journal of this very run, in the same order, replayed or live, serial or   *)
(* batched; between turns nothing journaled is missing from the conversation. *)
JournalBeforeReturn ==
    /\ Chat(messages) \subseteq Chat(journal)
    /\ pc = "idle" => Chat(messages) = Chat(journal)

(* Crash and replay: what the record holds is not done a second time.  No     *)
(* tool whose result is recorded runs again, and the provider is called only  *)
(* past the frontier.                                                         *)
RecordedNotRepeated ==
    /\ \A j \in DOMAIN recorded : recorded[j].k = "ToolResult" => recorded[j].c \notin ran
    /\ pc = "calling" => AtFrontier

(* Until it diverges a replaying run writes the record again: same responses, *)
(* same calls, same results, in the same order (nested entries aside).        *)
ReplayRewritesRecord ==
    outcome # "diverged" =>
        \/ Plain(journal) \subseteq Plain(recorded)
        \/ Plain(recorded) \subseteq Plain(journal)

(* Entry j lies between a call and its result. *)
Enclosed(s, j) ==
    \E i \in 1 .. (j - 1), h \in (j + 1) .. Len(s) :
        s[i].k = "ToolCall" /\ s[h].k = "ToolResult" /\ s[h].c = s[i].c

(* A crash at any point can be resumed, with three exceptions: the record     *)
(* holds a parallel batch, an entry of a tool or of a child that no call and  *)
(* its result enclose (the tool had not returned; a background child ended in *)
(* between), or a run into which input was steered.                           *)
DivergesOnlyWhere ==
    outcome = "diverged" =>
        \/ ~flags.approval /\ \E j \in DOMAIN recorded : recorded[j].k = "LlmResponse" /\ AsResponse(recorded[j]).parallel
        \/ \E j \in DOMAIN recorded : recorded[j].k = "Effect" /\ ~Enclosed(recorded, j)
        \/ bounds.inputs > 0

(* S049: "Replay disables parallel tool execution. Recorded journal order is  *)
(* consumed deterministically."                                               *)
RecordedBatchReplays == outcome # "diverged"
=============================================================================
