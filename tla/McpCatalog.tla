----------------------------- MODULE McpCatalog -----------------------------
(* MCP servers as one agent session uses them (simulacra-mcp): the catalog a  *)
(* loaded skill activates, its search and call tools, and the manager under   *)
(* it with lazy handshakes, transport detection, session expiry, reconnects   *)
(* and retries.  Tool tasks run concurrently and may be aborted.  The answers *)
(* of a server are any that the code tells apart.                             *)
EXTENDS Integers, FiniteSets, Sequences

CONSTANTS Ops,          \* invocations of skills and tools, each used once
          Does,         \* what each may be: "activate", "search", "call"
          Servers,      \* names a skill may declare
          Transport,    \* configured servers, with their transport
          Tools,        \* names of tools
          Inventories,  \* what tools/list may answer
          Skills,       \* lists of servers a skill declares
          Granted,      \* the <<server, tool>> pairs of mcp_tools
          MAX_RETRIES,  \* attempts of dispatch_with_reconnect
          TopResults,   \* results of a search
          None

Configured == DOMAIN Transport

ASSUME McpAssumption ==
    /\ Configured \subseteq Servers
    /\ Transport \in [Configured -> {"auto", "http", "sse", "wasm"}]
    /\ Does \in [Ops -> SUBSET {"activate", "search", "call"}]
    /\ Inventories \subseteq Seq(Tools) /\ Skills \subseteq Seq(Servers)
    /\ Granted \subseteq Servers \X Tools
    /\ MAX_RETRIES \in Nat \ {0} /\ TopResults \in Nat
    /\ None \notin Ops /\ None \notin Servers /\ None \notin Tools

VARIABLES conn,       \* McpManager.connections
          activated,  \* CatalogState.activated: the inventory of a server
          published,  \* CatalogState.published
          gate,       \* holder of activation_lock
          manager,    \* holder of the lock around McpManager
          op          \* the future of each invocation

vars == <<conn, activated, published, gate, manager, op>>

-----------------------------------------------------------------------------
(* State *)

(* McpConnection; a module has no url.  History: `first`, the transport it    *)
(* first connected with, and `renewed`, an answer was taken for an expired    *)
(* session.                                                                   *)
NoConn == [done |-> FALSE, was |-> FALSE, mode |-> "absent", url |-> FALSE,
           configured |-> "none", first |-> "none", renewed |-> FALSE]
Fresh(transport) == [NoConn EXCEPT !.mode = "none", !.configured = transport, !.url = transport # "wasm"]
Connected(c, mode) ==
    [c EXCEPT !.done = TRUE, !.was = TRUE, !.mode = mode, !.first = IF @ = "none" THEN mode ELSE @]
Reset(c) == [c EXCEPT !.done = FALSE, !.mode = "none"]
Renewed(c) == [Reset(c) EXCEPT !.configured = "http", !.renewed = TRUE]

(* `journaled`, `ran` (times the tool ran) and `broken` (a transport error    *)
(* met) are history.                                                          *)
Idle == [pc |-> "idle", kind |-> "none", server |-> None, tool |-> None,
         skill |-> <<>>, pending |-> {}, found |-> <<>>, won |-> {}, phase |-> "none", attempt |-> 0,
         journaled |-> FALSE, ran |-> 0, broken |-> FALSE]

(* CatalogState.snapshot, rebuilt in the step that extends `activated`: the   *)
(* server, index and name of every tool.                                      *)
Snapshot == UNION {{<<s, i, activated[s][i]>> : i \in DOMAIN activated[s]} : s \in DOMAIN activated}

Init ==
    /\ conn = [s \in Configured |-> NoConn]
    /\ activated = <<>>
    /\ published = {}
    /\ gate = None /\ manager = None
    /\ op = [o \in Ops |-> Idle]

At(o, kind, pc) == op[o].kind = kind /\ op[o].pc = pc

(* The future ends; its guards are dropped. *)
Finish(o) ==
    /\ op' = [op EXCEPT ![o].pc = "done"]
    /\ gate' = IF gate = o THEN None ELSE gate
    /\ manager' = IF manager = o THEN None ELSE manager

-----------------------------------------------------------------------------
(* The handshake *)

(* perform_streamable_http_handshake, whose failures leave the connection as  *)
(* it was and which has nobody to ask without a url, and perform_sse_handshake. *)
StreamableHttp(c) == {c} \cup {d \in {Connected(c, "streamable")} : c.url}
LegacySse(c) == {c, Connected(c, "sse")}

(* handshake_server: the connections it may leave.  Detection falls back to   *)
(* SSE on 404 or 405; a transport it does not know is refused.                *)
handshake_server(c) ==
    CASE c.configured = "auto" -> StreamableHttp(c) \cup LegacySse(c)
      [] c.configured = "http" -> StreamableHttp(c)
      [] c.configured = "sse"  -> LegacySse(c)
      [] OTHER                 -> {c}

(* The discovery of the SSE endpoint has no timeout on its request. *)
DiscoveryHangs(o) ==
    /\ op[o].pc = "handshake"
    /\ conn[op[o].server].configured \in {"auto", "sse"}
    /\ op' = [op EXCEPT ![o].pc = "hung"]
    /\ UNCHANGED <<conn, activated, published, gate, manager>>

-----------------------------------------------------------------------------
(* McpCatalog::activate_with_context *)

(* capability_allows_server, from validate_dependencies. *)
Allowed(s) == s \in Configured /\ \E t \in Tools : <<s, t>> \in Granted

(* Mutant: servers activated earlier are inventoried again. *)
EveryServer(list) == {list[i] : i \in DOMAIN list}

(* The declared servers that are not activated yet. *)
Pending(list) == {list[i] : i \in DOMAIN list} \ DOMAIN activated

Activate(o, skill) ==
    /\ op[o].pc = "idle" /\ "activate" \in Does[o]
    /\ op' = [op EXCEPT ![o].pc = "gate", ![o].kind = "activate", ![o].skill = skill]
    /\ UNCHANGED <<conn, activated, published, gate, manager>>

PassGate(o) ==
    /\ op[o].pc = "gate" /\ gate = None
    /\ gate' = o
    /\ op' = [op EXCEPT ![o].pc = "manager"]
    /\ UNCHANGED <<conn, activated, published, manager>>

(* Audit, validate all names, and leave out what is activated. *)
BeginActivation(o) ==
    /\ At(o, "activate", "manager") /\ manager = None
    /\ LET list == op[o].skill IN
       \/ /\ (\A i \in DOMAIN list : Allowed(list[i])) /\ Pending(list) # {}
          /\ manager' = o
          /\ op' = [op EXCEPT ![o].pc = "connect", ![o].pending = Pending(list), ![o].journaled = TRUE]
          /\ UNCHANGED gate
       \/ /\ (\E i \in DOMAIN list : ~Allowed(list[i])) \/ Pending(list) = {}
          /\ Finish(o)
    /\ UNCHANGED <<conn, activated, published>>

(* The journal refuses the entry of an activation, a search or a call. *)
AuditFails(o) ==
    /\ \/ op[o].pc = "manager" /\ op[o].kind \in {"activate", "search"} /\ manager = None
       \/ op[o].pc = "journal"
    /\ Finish(o)
    /\ UNCHANGED <<conn, activated, published>>

(* An error of one server discards every pending one. *)
AbortActivation(o) ==
    /\ conn' = [s \in Configured |-> IF s \in op[o].pending THEN NoConn ELSE conn[s]]
    /\ Finish(o)

(* The server's inventory is kept aside; after the last, the manager is free. *)
Inventoried(o, s, tools) ==
    LET found == [x \in DOMAIN op[o].found \cup {s} |-> IF x = s THEN tools ELSE op[o].found[x]]
        last == op[o].pending \subseteq DOMAIN found
    IN  /\ op' = [op EXCEPT ![o].found = found, ![o].server = None,
                            ![o].pc = IF last THEN "commit" ELSE "connect"]
        /\ manager' = IF last THEN None ELSE manager
        /\ UNCHANGED gate

(* The pending server that comes next in the order the skill declares. *)
IsNext(o, s) ==
    LET left == op[o].pending \ DOMAIN op[o].found
        list == op[o].skill
    IN  /\ s \in left
        /\ \E i \in DOMAIN list : list[i] = s /\ \A j \in 1 .. i - 1 : list[j] \notin left

(* The next pending server: a WASM module is loaded and connected at once, a  *)
(* network server gets a fresh connection and a handshake.                    *)
Connect(o) ==
    /\ op[o].pc = "connect"
    /\ \E s \in {x \in Configured : IsNext(o, x)} :
       \/ /\ Transport[s] # "wasm"
          /\ conn' = [conn EXCEPT ![s] = Fresh(Transport[s])]
          /\ op' = [op EXCEPT ![o].pc = "handshake", ![o].server = s]
          /\ UNCHANGED <<gate, manager>>
       \/ /\ Transport[s] = "wasm"
          /\ conn' = [conn EXCEPT ![s] = Connected(Fresh("wasm"), "wasm")]
          /\ \E tools \in Inventories : Inventoried(o, s, tools)
       \/ AbortActivation(o)
    /\ UNCHANGED <<activated, published>>

ActivationHandshake(o) ==
    /\ At(o, "activate", "handshake")
    /\ LET s == op[o].server IN
       \E c \in handshake_server(conn[s]) :
          \/ /\ c.done
             /\ conn' = [conn EXCEPT ![s] = c]
             /\ \E tools \in Inventories : Inventoried(o, s, tools)
          \/ ~c.done /\ AbortActivation(o)
    /\ UNCHANGED <<activated, published>>

(* All or nothing: inventories and index become visible together. *)
Commit(o) ==
    /\ op[o].pc = "commit"
    /\ activated' = [s \in DOMAIN op[o].found \cup DOMAIN activated |->
                        IF s \in DOMAIN op[o].found THEN op[o].found[s] ELSE activated[s]]
    /\ Finish(o)
    /\ UNCHANGED <<conn, published>>

-----------------------------------------------------------------------------
(* McpCatalog::search: the snapshot, the audit and the publication are three  *)
(* critical sections.  The ranking may choose any few entries.                *)

Search(o) ==
    /\ op[o].pc = "idle" /\ "search" \in Does[o]
    /\ \E won \in {w \in SUBSET Snapshot : Cardinality(w) <= TopResults} :
          op' = [op EXCEPT ![o].pc = "manager", ![o].kind = "search", ![o].won = won]
    /\ UNCHANGED <<conn, activated, published, gate, manager>>

AuditSearch(o) ==
    /\ At(o, "search", "manager") /\ manager = None
    /\ op' = [op EXCEPT ![o].pc = "publish", ![o].journaled = TRUE]
    /\ UNCHANGED <<conn, activated, published, gate, manager>>

Publish(o) ==
    /\ op[o].pc = "publish"
    /\ published' = published \cup {<<e[1], e[3]>> : e \in op[o].won}
    /\ Finish(o)
    /\ UNCHANGED <<conn, activated>>

-----------------------------------------------------------------------------
(* McpCatalog::call and McpManager::call_tool *)

(* A pair that was not published is refused before the manager is asked. *)
Call(o, s, t) ==
    /\ op[o].pc = "idle" /\ "call" \in Does[o]
    /\ op' = [op EXCEPT ![o].pc = IF <<s, t>> \in published THEN "manager" ELSE "done",
                        ![o].kind = "call", ![o].server = s, ![o].tool = t]
    /\ UNCHANGED <<conn, activated, published, gate, manager>>

(* check_capability and ensure_server_connected. *)
BeginCall(o) ==
    /\ At(o, "call", "manager") /\ manager = None
    /\ LET s == op[o].server IN
       \/ /\ <<s, op[o].tool>> \in Granted /\ conn[s] # NoConn
          /\ manager' = o
          /\ op' = [op EXCEPT ![o].pc = IF conn[s].done THEN "journal" ELSE "handshake",
                              ![o].phase = "ensure"]
          /\ UNCHANGED gate
       \/ /\ <<s, op[o].tool>> \notin Granted \/ conn[s] = NoConn
          /\ Finish(o)
    /\ UNCHANGED <<conn, activated, published>>

(* append_journal_tool_call, before the first request. *)
JournalCall(o) ==
    /\ op[o].pc = "journal"
    /\ op' = [op EXCEPT ![o].pc = "dispatch", ![o].phase = "first", ![o].journaled = TRUE]
    /\ UNCHANGED <<conn, activated, published, gate, manager>>

(* What dispatch_tool_call may return, and whether the tool ran.  A module    *)
(* that cannot be instantiated counts as a failed connection; an error        *)
(* envelope or an oversized body are protocol errors of a tool that ran.      *)
(* "expired" is any protocol error that says so: a 404 with a session, or the *)
(* text of an error the server or the tool itself reports.                    *)
Answers(c) ==
    {[is |-> "ok", ran |-> 1], [is |-> "transport", ran |-> 0]}
        \cup [is : {"protocol", "expired"}, ran : {0, 1}]
        \cup {a \in [is : {"auth", "transport"}, ran : {0, 1}] : c.mode # "wasm" /\ (a.is = "auth" => a.ran = 0)}

(* Mutant: what the server answered is retried like what it did not. *)
AnyError(answer) == answer \in {"transport", "protocol"}

(* is_transport_error *)
is_transport_error(answer) == answer = "transport"

Exhausted(o) == op[o].attempt = MAX_RETRIES

(* dispatch_with_reconnect around one dispatch_tool_call: what says that the  *)
(* session expired has it renewed once, over streamable HTTP whatever the     *)
(* transport was, a broken transport leads into the retry loop, which only    *)
(* a refused credential leaves early.                                         *)
Dispatch(o) ==
    /\ op[o].pc = "dispatch"
    /\ LET s == op[o].server IN
       \E a \in Answers(conn[s]) :
          LET next == [op[o] EXCEPT !.ran = @ + a.ran, !.broken = @ \/ a.is = "transport"]
              first == op[o].phase = "first"
              renew == first /\ a.is = "expired"
              retry == \/ first /\ is_transport_error(a.is) /\ conn[s].was
                       \/ op[o].phase = "loop" /\ a.is \notin {"ok", "auth"} /\ ~Exhausted(o)
          IN  /\ op' = [op EXCEPT ![o] =
                    IF renew THEN [next EXCEPT !.pc = "handshake", !.phase = "renew"]
                    ELSE IF retry THEN [next EXCEPT !.pc = "backoff", !.phase = "loop"]
                    ELSE [next EXCEPT !.pc = "done"]]
              /\ conn' = IF renew THEN [conn EXCEPT ![s] = Renewed(@)] ELSE conn
              /\ manager' = IF renew \/ retry THEN manager ELSE None
    /\ UNCHANGED <<activated, published, gate>>

(* Mutant: the transport is detected anew. *)
DetectAgain(c) == Reset(c)

(* The detected transport is pinned and the handshake state cleared. *)
Pinned(c) ==
    [Reset(c) EXCEPT !.configured =
        CASE @ = "auto" /\ c.mode = "streamable" -> "http"
          [] @ = "auto" /\ c.mode = "sse"        -> "sse"
          [] OTHER                               -> @]

(* Mutant: an attempt whose handshake failed is not counted. *)
DispatchesCounted(o) == IF conn[op[o].server].done THEN op[o].attempt + 1 ELSE op[o].attempt

(* The loop counter; a failed handshake and a failed dispatch use an attempt. *)
NextAttempt(o) == op[o].attempt + 1

(* The sleep of an attempt, and what precedes its handshake. *)
Backoff(o) ==
    /\ op[o].pc = "backoff"
    /\ conn' = [conn EXCEPT ![op[o].server] = Pinned(@)]
    /\ op' = [op EXCEPT ![o].pc = "handshake", ![o].attempt = NextAttempt(o)]
    /\ UNCHANGED <<activated, published, gate, manager>>

(* The handshake before the first dispatch, after an expiry or in the loop. *)
CallHandshake(o) ==
    /\ At(o, "call", "handshake")
    /\ LET s == op[o].server IN
       \E c \in handshake_server(conn[s]) :
          /\ conn' = [conn EXCEPT ![s] = c]
          /\ \/ /\ c.done
                /\ op' = [op EXCEPT ![o].pc = IF op[o].phase = "ensure" THEN "journal" ELSE "dispatch"]
                /\ UNCHANGED <<gate, manager>>
             \/ /\ ~c.done /\ op[o].phase = "loop" /\ ~Exhausted(o)
                /\ op' = [op EXCEPT ![o].pc = "backoff"]
                /\ UNCHANGED <<gate, manager>>
             \/ /\ ~c.done /\ (op[o].phase = "loop" => Exhausted(o))
                /\ Finish(o)
    /\ UNCHANGED <<activated, published>>

-----------------------------------------------------------------------------

(* cancel_tool aborts the task at an await; a request it sent may still run.  *)
Abort(o) ==
    /\ op[o].pc \notin {"idle", "done"}
    /\ \E ran \in (IF op[o].pc = "dispatch" THEN {0, 1} ELSE {0}) :
          op' = [op EXCEPT ![o].pc = "done", ![o].ran = @ + ran]
    /\ gate' = IF gate = o THEN None ELSE gate
    /\ manager' = IF manager = o THEN None ELSE manager
    /\ UNCHANGED <<conn, activated, published>>

(* A step the runtime takes by itself. *)
Step(o) ==
    \/ PassGate(o) \/ BeginActivation(o) \/ AuditFails(o) \/ Connect(o) \/ ActivationHandshake(o) \/ Commit(o)
    \/ AuditSearch(o) \/ Publish(o)
    \/ BeginCall(o) \/ JournalCall(o) \/ Dispatch(o) \/ Backoff(o) \/ CallHandshake(o)
    \/ DiscoveryHangs(o)

Next ==
    \E o \in Ops :
        \/ \E skill \in Skills : Activate(o, skill)
        \/ Search(o)
        \/ \E s \in Configured, t \in Tools : Call(o, s, t)
        \/ Step(o)
        \/ Abort(o)

Spec == Init /\ [][Next]_vars

(* The runtime goes on with some ready task.  Requests and the backoff end by *)
(* their timeouts; only the discovery request may stay without an answer.     *)
FairSpec == Spec /\ WF_vars(\E o \in Ops : Step(o))

-----------------------------------------------------------------------------
(* Properties *)

Modes == {"none", "streamable", "sse", "wasm"}
ConnType == [done : BOOLEAN, was : BOOLEAN, mode : Modes \cup {"absent"}, url : BOOLEAN,
             configured : {"none", "auto", "http", "sse", "wasm"}, first : Modes, renewed : BOOLEAN]

Entry == Configured \X Nat \X Tools
OpType == [pc : {"idle", "gate", "manager", "connect", "handshake", "hung", "commit", "publish",
                 "journal", "dispatch", "backoff", "done"},
           kind : {"none", "activate", "search", "call"}, server : Servers \cup {None}, tool : Tools \cup {None},
           skill : Seq(Servers), pending : SUBSET Servers,
           found : UNION {[S -> Inventories] : S \in SUBSET Configured}, won : SUBSET Entry,
           phase : {"none", "ensure", "first", "renew", "loop"}, attempt : Nat,
           journaled : BOOLEAN, ran : Nat, broken : BOOLEAN]

(* Every variable holds a value of the type of what it models. *)
TypeOK ==
    /\ conn \in [Configured -> ConnType]
    /\ DOMAIN activated \subseteq Configured /\ \A s \in DOMAIN activated : activated[s] \in Inventories
    /\ published \subseteq Configured \X Tools
    /\ gate \in Ops \cup {None} /\ manager \in Ops \cup {None}
    /\ op \in [Ops -> OpType]

(* What the catalog has shown it keeps: an entry a search has chosen is the   *)
(* same tool when its schema is fetched and published, whatever activations   *)
(* commit in between (the `expect` in search), a published pair stays in the  *)
(* inventory, and the manager keeps a connection to every activated server,   *)
(* also when a later activation fails and discards its own.                   *)
CatalogKeepsItsWord ==
    /\ \A o \in Ops : op[o].pc \in {"manager", "publish"} => op[o].won \subseteq Snapshot
    /\ \A p \in published : \E e \in Snapshot : p = <<e[1], e[3]>>
    /\ \A s \in DOMAIN activated : conn[s].was

(* Reconnects keep the transport the connection was made with, although each  *)
(* of them forgets it and shakes hands anew.  Only an answer taken for an     *)
(* expired session switches it, to streamable HTTP, and never that of a       *)
(* module, which is then not connected again.                                 *)
ModeNeverSwitches ==
    \A s \in Configured :
        conn[s].mode \in {"absent", "none", conn[s].first}
            \cup {m \in {"streamable"} : conn[s].renewed /\ Transport[s] # "wasm"}

(* A tool runs on a server only for a call that was granted, published and    *)
(* journaled before; more than once only after a transport error, which may   *)
(* have hidden that it ran, or a single time more for an answer taken for an  *)
(* expired session; and at most once per attempt.                             *)
RunsAccounted ==
    \A o \in Ops : op[o].ran > 0 =>
        /\ <<op[o].server, op[o].tool>> \in published \cap Granted
        /\ op[o].journaled
        /\ op[o].ran > 1 => op[o].broken \/ op[o].phase = "renew"
        /\ op[o].ran <= IF op[o].phase = "renew" THEN 2 ELSE 1 + MAX_RETRIES

(* Whatever was invoked ends: retries are bounded and nobody waits for ever   *)
(* behind the two locks, unless a discovery request hangs with the manager.   *)
InvocationsEnd ==
    LET Active(o) == op[o].pc \notin {"idle", "done"} IN
    (\E o \in Ops : Active(o)) ~> ((\A o \in Ops : ~Active(o)) \/ \E o \in Ops : op[o].pc = "hung")

-----------------------------------------------------------------------------
(* The inductive invariant of the proofs.                                    *)

(* A connection has a transport exactly while it is connected, always the one *)
(* it was first connected with unless it was renewed; detection goes on only  *)
(* until then, and is pinned whenever the connection is down again.           *)
Coherent(c) ==
    /\ c.done <=> c.mode \notin {"none", "absent"}
    /\ c.was <=> c.first # "none"
    /\ c.first = "wasm" => ~c.url
    /\ c.mode \in {"none", "absent", c.first} \cup {m \in {"streamable"} : c.renewed /\ c.url}
    /\ c.renewed => c.configured = "http"
    /\ c.configured = "auto" => c.first # "wasm"
    /\ ~c.renewed /\ c.first # "none" /\ (c.configured = "auto" => ~c.done) =>
         c.configured = IF c.first = "streamable" THEN "http" ELSE c.first

(* Only what is not a module has somebody to ask. *)
Hosted(s, c) == c.url => Transport[s] # "wasm"

(* What an invocation holds and has done at each point of its future. *)
OpInv(r, o) ==
    /\ r.pc = "idle" => r = Idle
    /\ r.pc = "gate" => r.kind = "activate"
    /\ r.pc \in {"connect", "commit"} => r.kind = "activate"
    /\ r.pc = "publish" => r.kind = "search"
    /\ r.pc \in {"journal", "dispatch", "backoff"} => r.kind = "call"
    /\ r.pc \in {"handshake", "hung"} => r.kind \in {"activate", "call"} /\ r.server \in Configured
    /\ r.pc \in {"connect", "handshake", "hung", "journal", "dispatch", "backoff"} => manager = o
    /\ r.pc = "handshake" => ~conn[r.server].done
    /\ r.won \subseteq Snapshot

(* An activation holds the gate, and what it has inventoried is connected. *)
ActivationInv(r, o) ==
    r.kind = "activate" =>
        /\ r.pc \in {"gate", "manager"} => r.found = <<>>
        /\ r.pc \in {"manager", "connect", "handshake", "hung", "commit"} => gate = o
        /\ r.pc \in {"connect", "handshake", "hung", "commit"} =>
             /\ r.pending \cap DOMAIN activated = {} /\ DOMAIN r.found \subseteq r.pending
             /\ \A s \in DOMAIN r.found : conn[s].was
             /\ r.pc = "handshake" => r.server \in r.pending

(* A call is published before it waits for the manager, granted before it     *)
(* asks the server, journaled before it runs, and runs once per attempt.      *)
CallInv(r) ==
    r.kind = "call" /\ r.pc \notin {"idle", "done"} =>
        /\ r.server \in Configured /\ <<r.server, r.tool>> \in published
        /\ r.pc = "manager" => r.phase = "none"
        /\ r.pc # "manager" => r.phase # "none" /\ <<r.server, r.tool>> \in Granted
        /\ r.pc = "journal" => r.phase = "ensure"
        /\ r.pc = "backoff" => r.phase = "loop" /\ r.attempt < MAX_RETRIES
        /\ r.pc = "dispatch" => r.phase # "ensure"
        /\ r.phase \in {"first", "renew", "loop"} => r.journaled
        /\ r.phase # "loop" => r.ran <= (IF r.phase = "renew" THEN 1 ELSE 0) /\ r.attempt = 0
        /\ r.phase = "loop" =>
             /\ r.broken /\ r.attempt <= MAX_RETRIES
             /\ r.ran <= IF r.pc = "backoff" THEN r.attempt + 1 ELSE r.attempt

(* RunsAccounted, for one invocation. *)
RunInv(r) ==
    /\ r.kind # "call" => r.ran = 0
    /\ r.ran > 0 => /\ <<r.server, r.tool>> \in published \cap Granted /\ r.journaled
                    /\ r.ran > 1 => r.broken \/ r.phase = "renew"
                    /\ r.ran <= IF r.phase = "renew" THEN 2 ELSE 1 + MAX_RETRIES

IInv ==
    /\ TypeOK
    /\ \A s \in Configured : Coherent(conn[s]) /\ Hosted(s, conn[s])
    /\ \A o \in Ops : OpInv(op[o], o) /\ ActivationInv(op[o], o) /\ CallInv(op[o]) /\ RunInv(op[o])
    /\ \A p \in published : \E e \in Snapshot : p = <<e[1], e[3]>>
    /\ \A s \in DOMAIN activated : conn[s].was

=============================================================================
