-------------------------- MODULE McpCatalogProofs --------------------------
(* Proofs about McpCatalog, for every set of invocations, servers, transports, *)
(* skills, inventories and grants and every number of retries.                 *)
EXTENDS McpCatalog, TLAPS

\* The steps of one invocation.
Moves(o) ==
    \/ \E skill \in Skills : Activate(o, skill)
    \/ Search(o)
    \/ \E s \in Configured, t \in Tools : Call(o, s, t)
    \/ Step(o)
    \/ Abort(o)

-----------------------------------------------------------------------------
(* Types.                                                                    *)

Founds == UNION {[S -> Inventories] : S \in SUBSET Configured}

\* The initial record of an invocation is well typed.
LEMMA IdleType == Idle \in OpType
    <1>1. <<>> \in [{} -> Inventories] /\ {} \in SUBSET Configured
        OBVIOUS
    <1>2. <<>> \in Founds
        BY <1>1 DEF Founds
    <1>3. <<>> \in Seq(Servers) /\ {} \in SUBSET Entry /\ {} \in SUBSET Servers /\ 0 \in Nat
        OBVIOUS
    <1> QED BY <1>2, <1>3 DEF Idle, OpType, Founds

\* An inventory set aside keeps what is found a function of servers.
LEMMA FoundType ==
    ASSUME NEW f \in Founds, NEW s \in Configured, NEW tools \in Inventories
    PROVE  [x \in DOMAIN f \cup {s} |-> IF x = s THEN tools ELSE f[x]] \in Founds
    <1>1. PICK S \in SUBSET Configured : f \in [S -> Inventories]
        BY DEF Founds
    <1>2. [x \in DOMAIN f \cup {s} |-> IF x = s THEN tools ELSE f[x]] \in [S \cup {s} -> Inventories]
        BY <1>1
    <1>3. S \cup {s} \in SUBSET Configured
        OBVIOUS
    <1> QED BY <1>2, <1>3 DEF Founds

\* Connections are well typed, whatever becomes of them.
LEMMA ConnTypes ==
    /\ NoConn \in ConnType
    /\ \A t \in {"auto", "http", "sse", "wasm"} : Fresh(t) \in ConnType
    /\ \A c \in ConnType : /\ Reset(c) \in ConnType /\ Pinned(c) \in ConnType
                           /\ Renewed(c) \in ConnType
                           /\ handshake_server(c) \subseteq ConnType
                           /\ Connected(c, "wasm") \in ConnType
    <1>1. NoConn \in ConnType /\ \A t \in {"auto", "http", "sse", "wasm"} : Fresh(t) \in ConnType
        BY DEF NoConn, Fresh, ConnType, Modes
    <1>2. ASSUME NEW c \in ConnType, NEW m \in {"streamable", "sse", "wasm"}
          PROVE  Connected(c, m) \in ConnType
        BY DEF Connected, ConnType, Modes
    <1>3. ASSUME NEW c \in ConnType
          PROVE  Reset(c) \in ConnType /\ Pinned(c) \in ConnType /\ Renewed(c) \in ConnType
        BY DEF Reset, Renewed, Pinned, ConnType, Modes
    <1>4. ASSUME NEW c \in ConnType PROVE handshake_server(c) \subseteq ConnType
        <2>1. StreamableHttp(c) \subseteq ConnType /\ LegacySse(c) \subseteq ConnType
            BY <1>2 DEF StreamableHttp, LegacySse
        <2> QED BY <2>1 DEF handshake_server
    <1> QED BY <1>1, <1>2, <1>3, <1>4

\* What the end of a future does to its record and to the locks.
LEMMA FinishEffect ==
    ASSUME TypeOK, NEW o \in Ops, Finish(o)
    PROVE  /\ op' \in [Ops -> OpType] /\ gate' \in Ops \cup {None} /\ manager' \in Ops \cup {None}
           /\ op'[o] = [op[o] EXCEPT !.pc = "done"]
           /\ \A k \in Ops \ {o} : /\ op'[k] = op[k] /\ (gate = k => gate' = k) /\ (manager = k => manager' = k)
    <1>1. op[o] \in OpType
        BY DEF TypeOK
    <1>2. [op[o] EXCEPT !.pc = "done"] \in OpType
        BY <1>1 DEF OpType
    <1>3. op' = [op EXCEPT ![o] = [op[o] EXCEPT !.pc = "done"]]
        BY DEF Finish, TypeOK
    <1> QED BY <1>2, <1>3 DEF Finish, TypeOK

\* What is found with one more inventory.
Noted(o, s, tools) == [x \in DOMAIN op[o].found \cup {s} |-> IF x = s THEN tools ELSE op[o].found[x]]

\* It is in the record of the activation, which goes on to p.
NotedAt(o, s, tools, p) ==
    /\ op'[o] = [op[o] EXCEPT !.found = Noted(o, s, tools), !.server = None, !.pc = p]
    /\ p = "connect" => manager' = manager

\* What an inventory does to the record of its activation and to the manager.
LEMMA InventoriedEffect ==
    ASSUME TypeOK, NEW o \in Ops, NEW s \in Configured, NEW tools \in Inventories, Inventoried(o, s, tools)
    PROVE  /\ op' \in [Ops -> OpType] /\ gate' = gate /\ manager' \in {manager, None}
           /\ \E p \in {"commit", "connect"} : NotedAt(o, s, tools, p)
           /\ \A k \in Ops \ {o} : op'[k] = op[k]
    <1> DEFINE f == Noted(o, s, tools)
    <1>0. op[o] \in OpType
        BY DEF TypeOK
    <1>a. op[o].found \in Founds
        BY <1>0 DEF OpType, Founds
    <1>1. op[o] \in OpType /\ f \in Founds
        BY <1>0, <1>a, FoundType DEF Noted
    <1>2. PICK p \in {"commit", "connect"} :
             /\ op' = [op EXCEPT ![o].found = f, ![o].server = None, ![o].pc = p]
             /\ manager' = IF p = "commit" THEN None ELSE manager
        BY DEF Inventoried, Noted
    <1> HIDE DEF f
    <1>3. [op[o] EXCEPT !.found = f, !.server = None, !.pc = p] \in OpType
        BY <1>1 DEF OpType, Founds
    <1>4. op' = [op EXCEPT ![o] = [op[o] EXCEPT !.found = f, !.server = None, !.pc = p]]
        BY <1>2 DEF TypeOK
    <1>5. op' \in [Ops -> OpType] /\ op'[o] = [op[o] EXCEPT !.found = f, !.server = None, !.pc = p]
          /\ \A k \in Ops \ {o} : op'[k] = op[k]
        BY <1>3, <1>4 DEF TypeOK
    <1>6. NotedAt(o, s, tools, p)
        BY <1>2, <1>5 DEF f, NotedAt
    <1> QED BY <1>2, <1>5, <1>6 DEF Inventoried

\* The entries of the snapshot are well typed.
LEMMA SnapshotType ==
    ASSUME TypeOK
    PROVE  Snapshot \subseteq Entry
    <1> SUFFICES ASSUME NEW s \in DOMAIN activated, NEW i \in DOMAIN activated[s]
                 PROVE  <<s, i, activated[s][i]>> \in Entry
        BY DEF Snapshot
    <1>1. s \in Configured /\ activated[s] \in Seq(Tools)
        BY McpAssumption DEF TypeOK
    <1>2. i \in Nat /\ activated[s][i] \in Tools
        BY <1>1
    <1> QED BY <1>1, <1>2 DEF Entry

\* What a dispatch leaves: the runs, whether the transport broke, the next point
\* of the future and its phase; and with it the connection and the manager.
Dispatched(o, n, b, p, ph) ==
    /\ n \in {op[o].ran, op[o].ran + 1} /\ (op[o].broken => b)
    /\ op' = [op EXCEPT ![o] = [op[o] EXCEPT !.pc = p, !.phase = ph, !.ran = n, !.broken = b]]
    /\ \/ /\ op[o].phase = "first" /\ p = "handshake" /\ ph = "renew"
          /\ conn' = [conn EXCEPT ![op[o].server] = Renewed(@)]
          /\ manager' = manager
       \/ /\ op[o].phase = "first" /\ p = "backoff" /\ ph = "loop" /\ b
          /\ conn' = conn /\ manager' = manager
       \/ /\ op[o].phase = "loop" /\ ~Exhausted(o) /\ p = "backoff" /\ ph = "loop"
          /\ conn' = conn /\ manager' = manager
       \/ p = "done" /\ ph = op[o].phase /\ conn' = conn /\ manager' = None

\* An answer to a dispatch ran the tool at most once.  It ends the call, renews
\* an expired session, or leads to a further attempt.
LEMMA DispatchEffect ==
    ASSUME TypeOK, NEW o \in Ops, Dispatch(o)
    PROVE  \E n \in Nat, b \in BOOLEAN, p \in {"handshake", "backoff", "done"}, ph \in {"renew", "loop", op[o].phase} :
             Dispatched(o, n, b, p, ph)
    <1>1. op[o] \in OpType
        BY DEF TypeOK
    <1>2. PICK a \in Answers(conn[op[o].server]) :
             LET s == op[o].server
                 next == [op[o] EXCEPT !.ran = @ + a.ran, !.broken = @ \/ a.is = "transport"]
                 first == op[o].phase = "first"
                 renew == first /\ a.is = "expired"
                 retry == \/ first /\ is_transport_error(a.is) /\ conn[s].was
                          \/ op[o].phase = "loop" /\ a.is \notin {"ok", "auth"} /\ ~Exhausted(o)
             IN  /\ op' = [op EXCEPT ![o] =
                       IF renew THEN [next EXCEPT !.pc = "handshake", !.phase = "renew"]
                       ELSE IF retry THEN [next EXCEPT !.pc = "backoff", !.phase = "loop"]
                       ELSE [next EXCEPT !.pc = "done"]]
                 /\ conn' = IF renew THEN [conn EXCEPT ![s] = Renewed(@)] ELSE conn
                 /\ manager' = IF renew \/ retry THEN manager ELSE None
        BY DEF Dispatch
    <1>3. a.ran \in {0, 1}
        BY DEF Answers
    <1> DEFINE b == op[o].broken \/ a.is = "transport"
               n == op[o].ran + a.ran
               next == [op[o] EXCEPT !.ran = n, !.broken = b]
    <1>4. b \in BOOLEAN /\ (op[o].broken => b) /\ (a.is = "transport" => b)
        OBVIOUS
    <1>5. op[o].ran \in Nat
        BY <1>1 DEF OpType
    <1>6. n \in Nat /\ n \in {op[o].ran, op[o].ran + 1}
        BY <1>3, <1>5
    <1>7. \/ /\ op[o].phase = "first" /\ a.is = "expired"
             /\ op' = [op EXCEPT ![o] = [next EXCEPT !.pc = "handshake", !.phase = "renew"]]
             /\ conn' = [conn EXCEPT ![op[o].server] = Renewed(@)]
             /\ manager' = manager
          \/ /\ op[o].phase = "first" /\ a.is = "transport"
             /\ op' = [op EXCEPT ![o] = [next EXCEPT !.pc = "backoff", !.phase = "loop"]]
             /\ conn' = conn /\ manager' = manager
          \/ /\ op[o].phase = "loop" /\ ~Exhausted(o)
             /\ op' = [op EXCEPT ![o] = [next EXCEPT !.pc = "backoff", !.phase = "loop"]]
             /\ conn' = conn /\ manager' = manager
          \/ /\ op' = [op EXCEPT ![o] = [next EXCEPT !.pc = "done"]]
             /\ conn' = conn /\ manager' = None
        BY <1>2 DEF is_transport_error
    <1> HIDE DEF b, n
    <1>8. ASSUME NEW p, NEW ph
          PROVE  [next EXCEPT !.pc = p, !.phase = ph] = [op[o] EXCEPT !.pc = p, !.phase = ph, !.ran = n, !.broken = b]
        BY <1>1 DEF OpType
    <1>9. [next EXCEPT !.pc = "done"] = [op[o] EXCEPT !.pc = "done", !.phase = op[o].phase, !.ran = n, !.broken = b]
        BY <1>1 DEF OpType
    <1> HIDE DEF next
    <1>10. CASE /\ op[o].phase = "first" /\ a.is = "expired"
                /\ op' = [op EXCEPT ![o] = [next EXCEPT !.pc = "handshake", !.phase = "renew"]]
                /\ conn' = [conn EXCEPT ![op[o].server] = Renewed(@)]
                /\ manager' = manager
        <2>1. op' = [op EXCEPT ![o] = [op[o] EXCEPT !.pc = "handshake", !.phase = "renew", !.ran = n, !.broken = b]]
            BY <1>8, <1>10
        <2> QED BY <1>3, <1>4, <1>6, <1>10, <2>1 DEF Dispatched
    <1>11. CASE /\ (op[o].phase = "first" /\ a.is = "transport") \/ (op[o].phase = "loop" /\ ~Exhausted(o))
                /\ op' = [op EXCEPT ![o] = [next EXCEPT !.pc = "backoff", !.phase = "loop"]]
                /\ conn' = conn /\ manager' = manager
        <2>1. op' = [op EXCEPT ![o] = [op[o] EXCEPT !.pc = "backoff", !.phase = "loop", !.ran = n, !.broken = b]]
            BY <1>8, <1>11
        <2> QED BY <1>4, <1>6, <1>11, <2>1 DEF Dispatched
    <1>12. CASE /\ op' = [op EXCEPT ![o] = [next EXCEPT !.pc = "done"]]
                /\ conn' = conn /\ manager' = None
        BY <1>4, <1>6, <1>9, <1>12 DEF Dispatched
    <1> QED BY <1>7, <1>10, <1>11, <1>12

\* An aborted task is over; the request of a dispatch may have run the tool.
LEMMA AbortEffect ==
    ASSUME TypeOK, NEW o \in Ops, Abort(o)
    PROVE  \E n \in Nat : /\ n \in {op[o].ran, op[o].ran + 1} /\ (op[o].pc # "dispatch" => n = op[o].ran)
                         /\ op' = [op EXCEPT ![o] = [op[o] EXCEPT !.pc = "done", !.ran = n]]
    <1>1. op[o] \in OpType
        BY DEF TypeOK
    <1>2. op[o].ran \in Nat
        BY <1>1 DEF OpType
    <1>3. PICK m \in {0, 1} : /\ op[o].pc # "dispatch" => m = 0
                              /\ op' = [op EXCEPT ![o].pc = "done", ![o].ran = @ + m]
        BY DEF Abort
    <1> DEFINE n == op[o].ran + m
    <1>4. n \in Nat /\ n \in {op[o].ran, op[o].ran + 1} /\ (m = 0 => n = op[o].ran)
        BY <1>2
    <1>5. op' = [op EXCEPT ![o] = [op[o] EXCEPT !.pc = "done", !.ran = n]]
        BY <1>1, <1>3 DEF TypeOK, OpType
    <1> HIDE DEF n
    <1> QED BY <1>3, <1>4, <1>5

\* TypeOK is preserved by every step of an invocation.
LEMMA TypeInductive ==
    ASSUME TypeOK, NEW o \in Ops, OpInv(op[o], o), CallInv(op[o]), Moves(o)
    PROVE  TypeOK'
    <1>1. /\ op[o] \in OpType /\ op \in [Ops -> OpType] /\ conn \in [Configured -> ConnType]
          /\ gate \in Ops \cup {None} /\ manager \in Ops \cup {None}
          /\ Transport \in [Configured -> {"auto", "http", "sse", "wasm"}]
        BY McpAssumption DEF TypeOK
    <1>2. ASSUME NEW skill \in Skills, Activate(o, skill) PROVE TypeOK'
        <2>1. skill \in Seq(Servers)
            BY McpAssumption
        <2>2. op' \in [Ops -> OpType]
            BY <1>1, <1>2, <2>1 DEF Activate, OpType
        <2> QED BY <1>2, <2>2 DEF Activate, TypeOK
    <1>3. CASE PassGate(o)
        <2>1. op' \in [Ops -> OpType]
            BY <1>1, <1>3 DEF PassGate, OpType
        <2> QED BY <1>3, <2>1 DEF PassGate, TypeOK
    <1>4. CASE BeginActivation(o)
        <2>1. UNCHANGED <<conn, activated, published>>
            BY <1>4 DEF BeginActivation
        <2>2. CASE Finish(o)
            BY <2>1, <2>2, FinishEffect DEF TypeOK
        <2>3. CASE ~Finish(o)
            <3>1. Pending(op[o].skill) \in SUBSET Servers
                BY <1>1 DEF Pending, OpType
            <3>2. /\ op' = [op EXCEPT ![o].pc = "connect", ![o].pending = Pending(op[o].skill), ![o].journaled = TRUE]
                  /\ manager' = o /\ gate' = gate
                BY <1>4, <2>3 DEF BeginActivation
            <3>3. op' \in [Ops -> OpType]
                BY <1>1, <3>1, <3>2 DEF OpType
            <3> QED BY <2>1, <3>2, <3>3 DEF TypeOK
        <2> QED BY <2>2, <2>3
    <1>5. CASE AuditFails(o)
        BY <1>5, FinishEffect DEF AuditFails, TypeOK
    <1>6. CASE Connect(o)
        <2>1. UNCHANGED <<activated, published>>
            BY <1>6 DEF Connect
        <2>2. PICK s \in Configured :
                 \/ /\ conn' = [conn EXCEPT ![s] = Fresh(Transport[s])]
                    /\ op' = [op EXCEPT ![o].pc = "handshake", ![o].server = s]
                    /\ UNCHANGED <<gate, manager>>
                 \/ /\ conn' = [conn EXCEPT ![s] = Connected(Fresh("wasm"), "wasm")]
                    /\ \E tools \in Inventories : Inventoried(o, s, tools)
                 \/ AbortActivation(o)
            BY <1>6 DEF Connect
        <2>3. Fresh(Transport[s]) \in ConnType /\ Connected(Fresh("wasm"), "wasm") \in ConnType
              /\ NoConn \in ConnType /\ s \in Servers
            BY <1>1, ConnTypes, McpAssumption
        <2>4. CASE /\ conn' = [conn EXCEPT ![s] = Fresh(Transport[s])]
                   /\ op' = [op EXCEPT ![o].pc = "handshake", ![o].server = s]
                   /\ UNCHANGED <<gate, manager>>
            <3>1. op' \in [Ops -> OpType] /\ conn' \in [Configured -> ConnType]
                BY <1>1, <2>3, <2>4 DEF OpType
            <3> QED BY <2>1, <2>4, <3>1 DEF TypeOK
        <2>5. CASE /\ conn' = [conn EXCEPT ![s] = Connected(Fresh("wasm"), "wasm")]
                   /\ \E tools \in Inventories : Inventoried(o, s, tools)
            <3>1. conn' \in [Configured -> ConnType]
                BY <1>1, <2>3, <2>5
            <3> QED BY <1>1, <2>1, <2>5, <3>1, InventoriedEffect DEF TypeOK
        <2>6. CASE AbortActivation(o)
            <3>1. conn' \in [Configured -> ConnType]
                BY <1>1, <2>3, <2>6 DEF AbortActivation
            <3> QED BY <2>1, <2>6, <3>1, FinishEffect DEF AbortActivation, TypeOK
        <2> QED BY <2>2, <2>4, <2>5, <2>6
    <1>7. CASE ActivationHandshake(o)
        <2> DEFINE s == op[o].server
        <2>1. s \in Configured /\ UNCHANGED <<activated, published>>
            BY <1>7 DEF ActivationHandshake, At, OpInv
        <2>2. PICK c \in handshake_server(conn[s]) :
                 \/ conn' = [conn EXCEPT ![s] = c] /\ \E tools \in Inventories : Inventoried(o, s, tools)
                 \/ AbortActivation(o)
            BY <1>7 DEF ActivationHandshake
        <2> HIDE DEF s
        <2>3. c \in ConnType /\ NoConn \in ConnType
            BY <1>1, <2>1, ConnTypes
        <2>4. conn' \in [Configured -> ConnType]
            BY <1>1, <2>2, <2>3 DEF AbortActivation
        <2>5. CASE \E tools \in Inventories : Inventoried(o, s, tools)
            BY <1>1, <2>1, <2>4, <2>5, InventoriedEffect DEF TypeOK
        <2>6. CASE AbortActivation(o)
            BY <2>1, <2>4, <2>6, FinishEffect DEF AbortActivation, TypeOK
        <2> QED BY <2>2, <2>5, <2>6
    <1>8. CASE Commit(o)
        <2>1. /\ activated' = [s \in DOMAIN op[o].found \cup DOMAIN activated |->
                                 IF s \in DOMAIN op[o].found THEN op[o].found[s] ELSE activated[s]]
              /\ Finish(o) /\ UNCHANGED <<conn, published>>
            BY <1>8 DEF Commit
        <2>2. op[o].found \in Founds
            BY <1>1 DEF OpType, Founds
        <2>3. DOMAIN op[o].found \subseteq Configured /\ \A s \in DOMAIN op[o].found : op[o].found[s] \in Inventories
            BY <2>2 DEF Founds
        <2>4. DOMAIN activated' \subseteq Configured /\ \A s \in DOMAIN activated' : activated'[s] \in Inventories
            BY <2>1, <2>3 DEF TypeOK
        <2> QED BY <2>1, <2>4, FinishEffect DEF TypeOK
    <1>9. CASE Search(o)
        <2>1. PICK won \in SUBSET Snapshot :
                 op' = [op EXCEPT ![o].pc = "manager", ![o].kind = "search", ![o].won = won]
            BY <1>9 DEF Search
        <2>2. Snapshot \subseteq Entry
            BY SnapshotType
        <2>3. op' \in [Ops -> OpType]
            BY <1>1, <2>1, <2>2 DEF OpType
        <2> QED BY <1>9, <2>3 DEF Search, TypeOK
    <1>10. CASE AuditSearch(o)
        <2>1. op' \in [Ops -> OpType]
            BY <1>1, <1>10 DEF AuditSearch, OpType
        <2> QED BY <1>10, <2>1 DEF AuditSearch, TypeOK
    <1>11. CASE Publish(o)
        <2>1. \A e \in op[o].won : <<e[1], e[3]>> \in Configured \X Tools
            BY <1>1 DEF OpType, Entry
        <2>2. published' \subseteq Configured \X Tools
            BY <1>11, <2>1 DEF Publish, TypeOK
        <2> QED BY <1>11, <2>2, FinishEffect DEF Publish, TypeOK
    <1>12. ASSUME NEW s \in Configured, NEW t \in Tools, Call(o, s, t) PROVE TypeOK'
        <2>1. PICK p \in {"manager", "done"} :
                 op' = [op EXCEPT ![o].pc = p, ![o].kind = "call", ![o].server = s, ![o].tool = t]
            BY <1>12 DEF Call
        <2>2. s \in Servers
            BY McpAssumption
        <2>3. op' \in [Ops -> OpType]
            BY <1>1, <2>1, <2>2 DEF OpType
        <2> QED BY <1>12, <2>3 DEF Call, TypeOK
    <1>13. CASE BeginCall(o)
        <2>1. UNCHANGED <<conn, activated, published>>
            BY <1>13 DEF BeginCall
        <2>2. CASE Finish(o)
            BY <2>1, <2>2, FinishEffect DEF TypeOK
        <2>3. CASE ~Finish(o)
            <3>1. PICK p \in {"journal", "handshake"} : op' = [op EXCEPT ![o].pc = p, ![o].phase = "ensure"]
                BY <1>13, <2>3 DEF BeginCall
            <3>2. manager' = o /\ gate' = gate
                BY <1>13, <2>3 DEF BeginCall
            <3>3. op' \in [Ops -> OpType]
                BY <1>1, <3>1 DEF OpType
            <3> QED BY <2>1, <3>2, <3>3 DEF TypeOK
        <2> QED BY <2>2, <2>3
    <1>14. CASE JournalCall(o)
        <2>1. op' \in [Ops -> OpType]
            BY <1>1, <1>14 DEF JournalCall, OpType
        <2> QED BY <1>14, <2>1 DEF JournalCall, TypeOK
    <1>15. CASE Dispatch(o)
        <2>1. PICK n \in Nat, b \in BOOLEAN, p \in {"handshake", "backoff", "done"}, ph \in {"renew", "loop", op[o].phase} :
                 Dispatched(o, n, b, p, ph)
            BY <1>15, DispatchEffect
        <2>2. op[o].phase \in {"none", "ensure", "first", "renew", "loop"} /\ op[o].server \in Configured
            BY <1>1, <1>15 DEF Dispatch, OpInv, CallInv, OpType
        <2>3. op' \in [Ops -> OpType]
            <3>1. [op[o] EXCEPT !.pc = p, !.phase = ph, !.ran = n, !.broken = b] \in OpType
                BY <1>1, <2>2 DEF OpType
            <3> QED BY <1>1, <2>1, <3>1 DEF Dispatched
        <2>4. conn' \in [Configured -> ConnType]
            <3>1. Renewed(conn[op[o].server]) \in ConnType
                BY <1>1, <2>2, ConnTypes
            <3> QED BY <1>1, <2>1, <2>2, <3>1 DEF Dispatched
        <2> QED BY <1>1, <1>15, <2>1, <2>3, <2>4 DEF Dispatch, Dispatched, TypeOK
    <1>16. CASE Backoff(o)
        <2>0. op[o].attempt + 1 \in Nat
            BY <1>1 DEF OpType
        <2>1. op' \in [Ops -> OpType]
            BY <1>1, <1>16, <2>0 DEF Backoff, OpType, NextAttempt
        <2>2. conn' \in [Configured -> ConnType]
            BY <1>1, <1>16, ConnTypes DEF Backoff
        <2> QED BY <1>16, <2>1, <2>2 DEF Backoff, TypeOK
    <1>17. CASE CallHandshake(o)
        <2> DEFINE s == op[o].server
        <2>1. s \in Configured /\ UNCHANGED <<activated, published>>
            BY <1>17 DEF CallHandshake, At, OpInv
        <2>2. PICK c \in handshake_server(conn[s]) :
                 /\ conn' = [conn EXCEPT ![s] = c]
                 /\ \/ /\ \E p \in {"journal", "dispatch", "backoff"} : op' = [op EXCEPT ![o].pc = p]
                       /\ UNCHANGED <<gate, manager>>
                    \/ Finish(o)
            BY <1>17 DEF CallHandshake
        <2> HIDE DEF s
        <2>3. c \in ConnType
            BY <1>1, <2>1, ConnTypes
        <2>4. conn' \in [Configured -> ConnType]
            BY <1>1, <2>2, <2>3
        <2>5. CASE Finish(o)
            BY <2>1, <2>4, <2>5, FinishEffect DEF TypeOK
        <2>6. CASE ~Finish(o)
            <3>1. PICK p \in {"journal", "dispatch", "backoff"} : op' = [op EXCEPT ![o].pc = p]
                BY <2>2, <2>6
            <3>2. op' \in [Ops -> OpType]
                BY <1>1, <3>1 DEF OpType
            <3> QED BY <2>1, <2>2, <2>4, <2>6, <3>2 DEF TypeOK
        <2> QED BY <2>5, <2>6
    <1>18. CASE DiscoveryHangs(o)
        <2>1. op' \in [Ops -> OpType]
            BY <1>1, <1>18 DEF DiscoveryHangs, OpType
        <2> QED BY <1>18, <2>1 DEF DiscoveryHangs, TypeOK
    <1>19. CASE Abort(o)
        <2>1. PICK n \in Nat : op' = [op EXCEPT ![o] = [op[o] EXCEPT !.pc = "done", !.ran = n]]
            BY <1>19, AbortEffect
        <2>2. op' \in [Ops -> OpType]
            BY <1>1, <2>1 DEF OpType
        <2> QED BY <1>19, <2>2 DEF Abort, TypeOK
    <1> QED BY <1>2, <1>3, <1>4, <1>5, <1>6, <1>7, <1>8, <1>9, <1>10, <1>11, <1>12, <1>13, <1>14, <1>15, <1>16,
               <1>17, <1>18, <1>19 DEF Moves, Step

-----------------------------------------------------------------------------
(* Connections.                                                              *)

\* The connections that the manager puts in place are coherent.
LEMMA NewConnections ==
    /\ Coherent(NoConn) /\ ~NoConn.was /\ ~NoConn.url
    /\ \A t \in {"auto", "http", "sse", "wasm"} :
          Coherent(Fresh(t)) /\ ~Fresh(t).done /\ (Fresh(t).url => t # "wasm")
    /\ LET w == Connected(Fresh("wasm"), "wasm") IN Coherent(w) /\ w.was /\ ~w.url
    BY DEF NoConn, Fresh, Connected, Coherent

\* A handshake of a connection that is down connects it with the transport it
\* had before or, renewed, with streamable HTTP, or leaves it as it is.
LEMMA HandshakeCoherent ==
    ASSUME NEW c \in ConnType, Coherent(c), ~c.done, NEW d \in handshake_server(c)
    PROVE  Coherent(d) /\ (c.was => d.was) /\ (d.done => d.was) /\ d.url = c.url
    <1>1. ASSUME c.configured \in {"auto", "http"}, c.url
          PROVE  LET d1 == Connected(c, "streamable") IN Coherent(d1) /\ d1.was /\ d1.url = c.url
        BY <1>1 DEF Connected, Coherent, ConnType, Modes
    <1>2. ASSUME c.configured \in {"auto", "sse"}
          PROVE  LET d1 == Connected(c, "sse") IN Coherent(d1) /\ d1.was /\ d1.url = c.url
        BY <1>2 DEF Connected, Coherent, ConnType, Modes
    <1>3. \/ d = c
          \/ c.configured \in {"auto", "http"} /\ c.url /\ d = Connected(c, "streamable")
          \/ c.configured \in {"auto", "sse"} /\ d = Connected(c, "sse")
        BY DEF handshake_server, StreamableHttp, LegacySse
    <1> QED BY <1>1, <1>2, <1>3

\* A connection taken down keeps its history and, unless it is renewed, the
\* transport it was made with.
LEMMA ResetCoherent ==
    ASSUME NEW c \in ConnType, Coherent(c)
    PROVE  /\ Coherent(Pinned(c)) /\ ~Pinned(c).done /\ (c.was => Pinned(c).was) /\ Pinned(c).url = c.url
           /\ Coherent(Renewed(c)) /\ ~Renewed(c).done /\ (c.was => Renewed(c).was) /\ Renewed(c).url = c.url
    <1>1. Coherent(Pinned(c)) /\ ~Pinned(c).done /\ (c.was => Pinned(c).was) /\ Pinned(c).url = c.url
        BY DEF Coherent, Pinned, Reset, ConnType, Modes
    <1>2. Coherent(Renewed(c)) /\ ~Renewed(c).done /\ (c.was => Renewed(c).was) /\ Renewed(c).url = c.url
        BY DEF Coherent, Renewed, Reset, ConnType, Modes
    <1> QED BY <1>1, <1>2

-----------------------------------------------------------------------------
(* One invocation among the others.                                          *)

\* What the invariant says of one invocation.
Own(o) == OpInv(op[o], o) /\ ActivationInv(op[o], o) /\ CallInv(op[o]) /\ RunInv(op[o])

\* What the invariant says of the state they share.
Shared ==
    /\ \A s \in Configured : Coherent(conn[s]) /\ Hosted(s, conn[s])
    /\ \A p \in published : \E e \in Snapshot : p = <<e[1], e[3]>>
    /\ \A s \in DOMAIN activated : conn[s].was

\* What a step of o leaves to the others: their records, the locks they hold
\* and what those protect.
Frame(o) ==
    /\ \A k \in Ops \ {o} :
          /\ op'[k] = op[k]
          /\ manager = k => manager' = k /\ conn' = conn
          /\ gate = k => /\ gate' = k /\ activated' = activated
                         /\ \A s \in Configured : conn[s].was => conn'[s].was
    /\ Snapshot \subseteq Snapshot' /\ published \subseteq published'

\* A server an activation has inventoried is a configured one.
LEMMA FoundConfigured ==
    ASSUME NEW r \in OpType
    PROVE  DOMAIN r.found \subseteq Configured
    <1>1. r.found \in Founds
        BY DEF OpType, Founds
    <1> QED BY <1>1 DEF Founds

\* The others keep their part of the invariant.
LEMMA OthersKeep ==
    ASSUME IInv, NEW o \in Ops, Frame(o), NEW k \in Ops \ {o}
    PROVE  Own(k)'
    <1>1. /\ op'[k] = op[k] /\ op[k] \in OpType
          /\ manager = k => manager' = k /\ conn' = conn
          /\ gate = k => /\ gate' = k /\ activated' = activated
                         /\ \A s \in Configured : conn[s].was => conn'[s].was
          /\ Snapshot \subseteq Snapshot' /\ published \subseteq published'
        BY DEF Frame, IInv, TypeOK
    <1>2. OpInv(op[k], k) /\ ActivationInv(op[k], k) /\ CallInv(op[k]) /\ RunInv(op[k])
        BY DEF IInv
    <1>3. OpInv(op[k], k)'
        BY <1>1, <1>2 DEF OpInv
    <1>4. ActivationInv(op[k], k)'
        <2>1. DOMAIN op[k].found \subseteq Configured
            BY <1>1, FoundConfigured
        <2> QED BY <1>1, <1>2, <2>1 DEF ActivationInv
    <1>5. CallInv(op[k])' /\ RunInv(op[k])'
        BY <1>1, <1>2 DEF CallInv, RunInv
    <1> QED BY <1>3, <1>4, <1>5 DEF Own

\* A step that touches neither connections nor the catalog.
LEMMA QuietFrame ==
    ASSUME IInv, NEW o \in Ops, UNCHANGED <<conn, activated, published>>,
           \A k \in Ops \ {o} : op'[k] = op[k] /\ (gate = k => gate' = k) /\ (manager = k => manager' = k)
    PROVE  Frame(o) /\ Shared'
    <1>1. Snapshot' = Snapshot
        BY DEF Snapshot
    <1> QED BY <1>1 DEF Frame, Shared, IInv

\* A step that changes connections, with the manager locked.
LEMMA ConnectionFrame ==
    ASSUME IInv, NEW o \in Ops, manager = o, UNCHANGED <<activated, published>>,
           \A k \in Ops \ {o} : op'[k] = op[k] /\ (gate = k => gate' = k),
           \A s \in Configured : Coherent(conn'[s]) /\ Hosted(s, conn'[s]),
           gate # o => \A s \in Configured : conn[s].was => conn'[s].was,
           \A s \in DOMAIN activated : conn'[s].was
    PROVE  Frame(o) /\ Shared'
    <1>1. Snapshot' = Snapshot
        BY DEF Snapshot
    <1>2. \A s \in Configured : Coherent(conn[s])' /\ Hosted(s, conn[s])'
        BY DEF Coherent, Hosted
    <1> QED BY <1>1, <1>2 DEF Frame, Shared, IInv

\* A future that ends keeps its part: the runs it counts were accounted for, or
\* were the one of its last dispatch.
LEMMA EndKeeps ==
    ASSUME IInv, NEW o \in Ops, NEW n \in Nat, NEW b \in BOOLEAN, n \in {op[o].ran, op[o].ran + 1},
           op[o].pc # "dispatch" => n = op[o].ran, op[o].broken => b,
           op'[o] = [op[o] EXCEPT !.pc = "done", !.ran = n, !.broken = b],
           Snapshot \subseteq Snapshot', published \subseteq published'
    PROVE  Own(o)'
    <1>1. op[o] \in OpType /\ MAX_RETRIES \in Nat \ {0}
        BY McpAssumption DEF IInv, TypeOK
    <1>2. OpInv(op[o], o) /\ CallInv(op[o]) /\ RunInv(op[o])
        BY DEF IInv
    <1>3. OpInv(op[o], o)' /\ ActivationInv(op[o], o)' /\ CallInv(op[o])'
        BY <1>1, <1>2 DEF OpInv, ActivationInv, CallInv, OpType
    <1>4. op[o].ran \in Nat /\ op[o].attempt \in Nat
        BY <1>1 DEF OpType
    <1>5. /\ op'[o].kind = op[o].kind /\ op'[o].ran = n /\ op'[o].broken = b /\ op'[o].server = op[o].server
          /\ op'[o].tool = op[o].tool /\ op'[o].journaled = op[o].journaled /\ op'[o].phase = op[o].phase
        BY <1>1 DEF OpType
    <1>6. RunInv(op[o])'
        <2>1. CASE n = op[o].ran
            BY <1>2, <1>4, <1>5, <2>1 DEF RunInv
        <2>2. CASE op[o].pc = "dispatch"
            <3>1. op[o].kind = "call" /\ <<op[o].server, op[o].tool>> \in published \cap Granted
                BY <1>2, <2>2 DEF OpInv, CallInv
            <3>2. op[o].phase \in {"first", "renew", "loop"} /\ op[o].journaled
                BY <1>1, <1>2, <2>2 DEF OpInv, CallInv, OpType
            <3>3. op[o].phase # "loop" => op[o].ran <= (IF op[o].phase = "renew" THEN 1 ELSE 0)
                BY <1>2, <2>2 DEF OpInv, CallInv
            <3>4. op[o].phase = "loop" => op[o].broken /\ op[o].ran <= MAX_RETRIES
                BY <1>1, <1>2, <1>4, <2>2 DEF OpInv, CallInv
            <3> QED BY <1>1, <1>4, <1>5, <3>1, <3>2, <3>3, <3>4 DEF RunInv
        <2> QED BY <2>1, <2>2
    <1> QED BY <1>3, <1>6 DEF Own

\* Finish keeps the part of the invocation it ends.
LEMMA FinishKeeps ==
    ASSUME IInv, NEW o \in Ops, Finish(o), Snapshot \subseteq Snapshot', published \subseteq published'
    PROVE  Own(o)'
    <1>1. op[o] \in OpType /\ TypeOK
        BY DEF IInv, TypeOK
    <1>2. op'[o] = [op[o] EXCEPT !.pc = "done"] /\ op[o].ran \in Nat /\ op[o].broken \in BOOLEAN
        BY <1>1, FinishEffect DEF OpType
    <1>3. op'[o] = [op[o] EXCEPT !.pc = "done", !.ran = op[o].ran, !.broken = op[o].broken]
        BY <1>1, <1>2 DEF OpType
    <1> QED BY <1>2, <1>3, EndKeeps

\* A future that ends and leaves connections and catalog alone.
LEMMA QuietFinish ==
    ASSUME IInv, NEW o \in Ops, Finish(o), UNCHANGED <<conn, activated, published>>
    PROVE  Frame(o) /\ Shared' /\ Own(o)'
    <1>1. Frame(o) /\ Shared'
        BY QuietFrame, FinishEffect DEF IInv
    <1>2. Own(o)'
        BY <1>1, FinishKeeps DEF Frame
    <1> QED BY <1>1, <1>2

-----------------------------------------------------------------------------
(* The steps of one invocation: activations.                                 *)

\* The facts about the acting invocation that its steps start from.
LEMMA Acting ==
    ASSUME IInv, NEW o \in Ops
    PROVE  /\ op[o] \in OpType /\ op \in [Ops -> OpType] /\ conn \in [Configured -> ConnType]
           /\ OpInv(op[o], o) /\ ActivationInv(op[o], o) /\ CallInv(op[o]) /\ RunInv(op[o])
           /\ o # None
    BY McpAssumption DEF IInv, TypeOK

\* A skill is loaded.
LEMMA ActivateKeeps ==
    ASSUME IInv, NEW o \in Ops, NEW skill \in Skills, Activate(o, skill)
    PROVE  Frame(o) /\ Shared' /\ Own(o)'
    <1>1. op[o] = Idle /\ Idle \in OpType /\ op[o] \in OpType
        BY Acting, IdleType DEF Activate, OpInv
    <1>2. Frame(o) /\ Shared'
        BY QuietFrame, Acting DEF Activate
    <1>3. op'[o] = [Idle EXCEPT !.pc = "gate", !.kind = "activate", !.skill = skill]
        BY <1>1, Acting DEF Activate
    <1>4. Own(o)'
        BY <1>3 DEF Own, OpInv, ActivationInv, CallInv, RunInv, Idle
    <1> QED BY <1>2, <1>4

\* An activation takes the gate.
LEMMA PassGateKeeps ==
    ASSUME IInv, NEW o \in Ops, PassGate(o)
    PROVE  Frame(o) /\ Shared' /\ Own(o)'
    <1>1. Frame(o) /\ Shared'
        BY QuietFrame, Acting, McpAssumption DEF PassGate
    <1>2. op[o].kind = "activate" /\ op'[o] = [op[o] EXCEPT !.pc = "manager"] /\ gate' = o /\ op[o] \in OpType
        BY Acting DEF PassGate, OpInv
    <1>3. op[o].found = <<>>
        BY <1>2, Acting DEF PassGate, ActivationInv
    <1>4. Own(o)'
        BY <1>1, <1>2, <1>3, Acting DEF Own, Frame, OpInv, ActivationInv, CallInv, RunInv, OpType
    <1> QED BY <1>1, <1>4

\* An activation starts under the manager's lock, or is refused.
LEMMA BeginActivationKeeps ==
    ASSUME IInv, NEW o \in Ops, BeginActivation(o)
    PROVE  Frame(o) /\ Shared' /\ Own(o)'
    <1>1. UNCHANGED <<conn, activated, published>> /\ manager = None /\ At(o, "activate", "manager")
        BY DEF BeginActivation
    <1>2. CASE Finish(o)
        BY <1>1, <1>2, QuietFinish
    <1>3. CASE ~Finish(o)
        <2>1. /\ op' = [op EXCEPT ![o].pc = "connect", ![o].pending = Pending(op[o].skill), ![o].journaled = TRUE]
              /\ manager' = o /\ gate' = gate
            BY <1>3 DEF BeginActivation
        <2>2. Frame(o) /\ Shared'
            BY <1>1, <2>1, QuietFrame, Acting, McpAssumption
        <2>3. Pending(op[o].skill) \cap DOMAIN activated = {}
            BY DEF Pending
        <2> DEFINE q == Pending(op[o].skill)
        <2>4. op'[o] = [op[o] EXCEPT !.pc = "connect", !.pending = q, !.journaled = TRUE] /\ op[o] \in OpType
            BY <2>1, Acting
        <2> HIDE DEF q
        <2>5. DOMAIN op[o].found = {} /\ gate = o
            BY <1>1, Acting DEF At, ActivationInv
        <2>6. OpInv(op[o], o)'
            BY <1>1, <2>1, <2>2, <2>4, Acting DEF At, Frame, OpInv, OpType
        <2>7. ActivationInv(op[o], o)'
            <3>1. op'[o].pending = q /\ op'[o].found = op[o].found /\ op'[o].pc = "connect"
                BY <2>4 DEF OpType
            <3>2. q \cap DOMAIN activated = {}
                BY <2>3 DEF q
            <3> QED BY <1>1, <2>1, <2>5, <3>1, <3>2 DEF ActivationInv
        <2>8. CallInv(op[o])' /\ RunInv(op[o])'
            BY <1>1, <2>4, Acting DEF At, CallInv, RunInv, OpType
        <2> QED BY <2>2, <2>6, <2>7, <2>8 DEF Own
    <1> QED BY <1>2, <1>3

\* The journal refuses.
LEMMA AuditFailsKeeps ==
    ASSUME IInv, NEW o \in Ops, AuditFails(o)
    PROVE  Frame(o) /\ Shared' /\ Own(o)'
    BY QuietFinish DEF AuditFails

\* A failed activation takes down the connections of its own servers only.
LEMMA AbortActivationKeeps ==
    ASSUME IInv, NEW o \in Ops, AbortActivation(o), UNCHANGED <<activated, published>>,
           op[o].kind = "activate", op[o].pc \in {"connect", "handshake"}
    PROVE  Frame(o) /\ Shared' /\ Own(o)'
    <1>1. manager = o /\ gate = o /\ op[o].pending \cap DOMAIN activated = {}
        BY Acting DEF OpInv, ActivationInv
    <1>2. conn' = [s \in Configured |-> IF s \in op[o].pending THEN NoConn ELSE conn[s]] /\ Finish(o)
        BY DEF AbortActivation
    <1>3. \A s \in Configured : Coherent(conn'[s]) /\ Hosted(s, conn'[s])
        BY <1>2, NewConnections DEF IInv, Hosted
    <1>4. \A s \in DOMAIN activated : conn'[s].was
        BY <1>1, <1>2 DEF IInv, TypeOK
    <1>5. \A k \in Ops \ {o} : op'[k] = op[k] /\ (gate = k => gate' = k)
        BY <1>2, FinishEffect DEF IInv
    <1>6. Frame(o) /\ Shared'
        BY <1>1, <1>3, <1>4, <1>5, ConnectionFrame
    <1> QED BY <1>2, <1>6, FinishKeeps DEF Frame

\* An inventory is set aside once its server is connected.
LEMMA InventoriedKeeps ==
    ASSUME IInv, NEW o \in Ops, NEW s \in Configured, NEW tools \in Inventories, Inventoried(o, s, tools),
           NEW c, conn' = [conn EXCEPT ![s] = c], Coherent(c), Hosted(s, c), c.was, s \in op[o].pending,
           op[o].kind = "activate", op[o].pc \in {"connect", "handshake"}, UNCHANGED <<activated, published>>
    PROVE  Frame(o) /\ Shared' /\ Own(o)'
    <1>1. manager = o /\ gate = o /\ op[o].pending \cap DOMAIN activated = {} /\ DOMAIN op[o].found \subseteq op[o].pending
          /\ \A x \in DOMAIN op[o].found : conn[x].was
        BY Acting DEF OpInv, ActivationInv
    <1>2. TypeOK /\ conn \in [Configured -> ConnType] /\ op[o] \in OpType
        BY DEF IInv, TypeOK
    <1>3. \A k \in Ops \ {o} : op'[k] = op[k] /\ (gate = k => gate' = k)
        BY <1>2, InventoriedEffect
    <1>4. \A x \in Configured : Coherent(conn'[x]) /\ Hosted(x, conn'[x])
        BY <1>2 DEF IInv
    <1>5. \A x \in DOMAIN activated : conn'[x].was
        BY <1>1, <1>2 DEF IInv, TypeOK
    <1>6. Frame(o) /\ Shared'
        BY <1>1, <1>3, <1>4, <1>5, ConnectionFrame
    <1> DEFINE f == Noted(o, s, tools)
    <1>7. DOMAIN f = DOMAIN op[o].found \cup {s} /\ DOMAIN op[o].found \subseteq Configured
        BY <1>2, FoundConfigured DEF Noted
    <1>8. gate' = gate /\ \E p \in {"commit", "connect"} : NotedAt(o, s, tools, p)
        BY <1>2, InventoriedEffect
    <1>9. PICK p \in {"commit", "connect"} : NotedAt(o, s, tools, p)
        BY <1>8
    <1>10. op'[o] = [op[o] EXCEPT !.found = f, !.server = None, !.pc = p] /\ (p = "connect" => manager' = manager)
        BY <1>9 DEF NotedAt
    <1> HIDE DEF f
    <1>a. \A x \in DOMAIN f : conn'[x].was
        BY <1>1, <1>2, <1>7
    <1>11. OpInv(op[o], o)'
        BY <1>1, <1>2, <1>6, <1>10, Acting DEF Frame, OpInv, OpType
    <1>12. ActivationInv(op[o], o)'
        BY <1>1, <1>2, <1>7, <1>8, <1>a, <1>10 DEF ActivationInv, OpType
    <1>13. CallInv(op[o])' /\ RunInv(op[o])'
        <2>1. op[o].ran = 0
            BY Acting DEF RunInv
        <2>2. op'[o].ran = 0 /\ op'[o].kind = "activate"
            BY <1>2, <1>10, <2>1 DEF OpType
        <2> QED BY <2>2 DEF CallInv, RunInv
    <1> QED BY <1>6, <1>11, <1>12, <1>13 DEF Own

\* The next pending server gets a connection.
LEMMA ConnectKeeps ==
    ASSUME IInv, NEW o \in Ops, Connect(o)
    PROVE  Frame(o) /\ Shared' /\ Own(o)'
    <1>1. UNCHANGED <<activated, published>> /\ op[o].pc = "connect"
        BY DEF Connect
    <1>2. op[o].kind = "activate" /\ manager = o /\ gate = o /\ op[o].pending \cap DOMAIN activated = {}
          /\ DOMAIN op[o].found \subseteq op[o].pending /\ \A x \in DOMAIN op[o].found : conn[x].was
        BY <1>1, Acting DEF OpInv, ActivationInv
    <1>3. PICK s \in Configured :
             /\ IsNext(o, s)
             /\ \/ /\ conn' = [conn EXCEPT ![s] = Fresh(Transport[s])]
                   /\ op' = [op EXCEPT ![o].pc = "handshake", ![o].server = s]
                   /\ UNCHANGED <<gate, manager>>
                \/ /\ conn' = [conn EXCEPT ![s] = Connected(Fresh("wasm"), "wasm")]
                   /\ \E tools \in Inventories : Inventoried(o, s, tools)
                \/ AbortActivation(o)
        BY DEF Connect
    <1>4. s \in op[o].pending /\ s \notin DOMAIN op[o].found
        BY <1>3 DEF IsNext
    <1>5. CASE /\ conn' = [conn EXCEPT ![s] = Fresh(Transport[s])]
               /\ op' = [op EXCEPT ![o].pc = "handshake", ![o].server = s]
               /\ UNCHANGED <<gate, manager>>
        <2> DEFINE c == Fresh(Transport[s])
        <2>1. Coherent(c) /\ ~c.done /\ Hosted(s, c)
            BY NewConnections, McpAssumption DEF Hosted
        <2>2. conn' = [conn EXCEPT ![s] = c]
            BY <1>5
        <2> HIDE DEF c
        <2>3. \A x \in Configured : Coherent(conn'[x]) /\ Hosted(x, conn'[x])
            BY <2>1, <2>2, Acting DEF IInv
        <2>4. \A x \in DOMAIN activated : conn'[x].was
            BY <1>2, <1>4, <2>2, Acting DEF IInv, TypeOK
        <2>5. Frame(o) /\ Shared'
            BY <1>1, <1>2, <1>5, <2>3, <2>4, Acting, ConnectionFrame
        <2>6. op'[o] = [op[o] EXCEPT !.pc = "handshake", !.server = s] /\ op[o] \in OpType /\ ~conn'[s].done
            BY <1>5, <2>1, <2>2, Acting
        <2>7. OpInv(op[o], o)'
            BY <1>2, <1>5, <2>5, <2>6, Acting DEF Frame, OpInv, OpType
        <2>8. ActivationInv(op[o], o)'
            <3>1. DOMAIN op[o].found \subseteq Configured
                BY <2>6, FoundConfigured
            <3>2. \A x \in DOMAIN op[o].found : conn'[x].was
                BY <1>2, <1>4, <2>2, <3>1, Acting
            <3>3. op'[o].pending = op[o].pending /\ op'[o].found = op[o].found /\ op'[o].server = s /\ op'[o].pc = "handshake"
                BY <2>6 DEF OpType
            <3> QED BY <1>1, <1>2, <1>4, <1>5, <3>2, <3>3 DEF ActivationInv
        <2>9. CallInv(op[o])' /\ RunInv(op[o])'
            <3>1. op[o].ran = 0
                BY <1>2, Acting DEF RunInv
            <3>2. op'[o].ran = 0 /\ op'[o].kind = "activate"
                BY <1>2, <2>6, <3>1 DEF OpType
            <3> QED BY <3>2 DEF CallInv, RunInv
        <2> QED BY <2>5, <2>7, <2>8, <2>9 DEF Own
    <1>6. CASE /\ conn' = [conn EXCEPT ![s] = Connected(Fresh("wasm"), "wasm")]
               /\ \E tools \in Inventories : Inventoried(o, s, tools)
        <2> DEFINE c == Connected(Fresh("wasm"), "wasm")
        <2>1. Coherent(c) /\ c.was /\ Hosted(s, c)
            BY NewConnections DEF Hosted
        <2> HIDE DEF c
        <2>2. PICK tools \in Inventories : Inventoried(o, s, tools)
            BY <1>6
        <2>3. conn' = [conn EXCEPT ![s] = c]
            BY <1>6 DEF c
        <2> QED BY <1>1, <1>2, <1>4, <2>1, <2>2, <2>3, InventoriedKeeps
    <1>7. CASE AbortActivation(o)
        BY <1>1, <1>2, <1>7, AbortActivationKeeps
    <1> QED BY <1>3, <1>5, <1>6, <1>7

\* The handshake of a pending server.
LEMMA ActivationHandshakeKeeps ==
    ASSUME IInv, NEW o \in Ops, ActivationHandshake(o)
    PROVE  Frame(o) /\ Shared' /\ Own(o)'
    <1>1. UNCHANGED <<activated, published>> /\ op[o].pc = "handshake" /\ op[o].kind = "activate"
        BY DEF ActivationHandshake, At
    <1>2. op[o].server \in Configured /\ op[o].server \in op[o].pending /\ ~conn[op[o].server].done
        BY <1>1, Acting DEF OpInv, ActivationInv
    <1> DEFINE s == op[o].server
    <1>3. PICK c \in handshake_server(conn[s]) :
             \/ c.done /\ conn' = [conn EXCEPT ![s] = c] /\ \E tools \in Inventories : Inventoried(o, s, tools)
             \/ AbortActivation(o)
        BY DEF ActivationHandshake
    <1>4. conn[s] \in ConnType /\ Coherent(conn[s]) /\ Hosted(s, conn[s])
        BY <1>2, Acting DEF IInv
    <1>5. Coherent(c) /\ (c.done => c.was) /\ Hosted(s, c)
        BY <1>2, <1>3, <1>4, HandshakeCoherent DEF Hosted
    <1>6. CASE AbortActivation(o)
        BY <1>1, <1>6, AbortActivationKeeps
    <1>7. CASE c.done /\ conn' = [conn EXCEPT ![s] = c] /\ \E tools \in Inventories : Inventoried(o, s, tools)
        <2>1. PICK tools \in Inventories : Inventoried(o, s, tools)
            BY <1>7
        <2> QED BY <1>1, <1>2, <1>5, <1>7, <2>1, InventoriedKeeps
    <1> QED BY <1>3, <1>6, <1>7

\* What was found becomes visible; it is of servers that were not activated.
LEMMA CommitKeeps ==
    ASSUME IInv, NEW o \in Ops, Commit(o)
    PROVE  Frame(o) /\ Shared' /\ Own(o)'
    <1>1. /\ op[o].pc = "commit" /\ Finish(o) /\ conn' = conn /\ published' = published
          /\ activated' = [s \in DOMAIN op[o].found \cup DOMAIN activated |->
                              IF s \in DOMAIN op[o].found THEN op[o].found[s] ELSE activated[s]]
        BY DEF Commit
    <1>2. op[o].kind = "activate" /\ gate = o /\ op[o].pending \cap DOMAIN activated = {}
          /\ DOMAIN op[o].found \subseteq op[o].pending /\ \A x \in DOMAIN op[o].found : conn[x].was
        BY <1>1, Acting DEF OpInv, ActivationInv
    <1>3. \A s \in DOMAIN activated : s \in DOMAIN activated' /\ activated'[s] = activated[s]
        BY <1>1, <1>2
    <1>4. Snapshot \subseteq Snapshot'
        BY <1>3 DEF Snapshot
    <1>5. Frame(o)
        <2>1. \A k \in Ops \ {o} : op'[k] = op[k] /\ (manager = k => manager' = k)
            BY <1>1, FinishEffect DEF IInv
        <2> QED BY <1>1, <1>2, <1>4, <2>1 DEF Frame
    <1>6. Shared'
        <2>1. \A s \in DOMAIN activated' : conn'[s].was
            BY <1>1, <1>2 DEF IInv
        <2> QED BY <1>1, <1>4, <2>1 DEF Shared, IInv
    <1> QED BY <1>1, <1>4, <1>5, <1>6, FinishKeeps

-----------------------------------------------------------------------------
(* The steps of one invocation: searches.                                    *)

\* The ranking chooses entries of the snapshot.
LEMMA SearchKeeps ==
    ASSUME IInv, NEW o \in Ops, Search(o)
    PROVE  Frame(o) /\ Shared' /\ Own(o)'
    <1>1. op[o] = Idle /\ UNCHANGED <<conn, activated, published, gate, manager>>
        BY Acting DEF Search, OpInv
    <1>2. PICK w \in SUBSET Snapshot : op' = [op EXCEPT ![o].pc = "manager", ![o].kind = "search", ![o].won = w]
        BY DEF Search
    <1>3. Frame(o) /\ Shared'
        BY <1>1, <1>2, QuietFrame, Acting
    <1>4. op'[o] = [Idle EXCEPT !.pc = "manager", !.kind = "search", !.won = w]
        BY <1>1, <1>2, Acting
    <1>5. Own(o)'
        BY <1>3, <1>4 DEF Own, Frame, OpInv, ActivationInv, CallInv, RunInv, Idle
    <1> QED BY <1>3, <1>5

\* The search is journaled.
LEMMA AuditSearchKeeps ==
    ASSUME IInv, NEW o \in Ops, AuditSearch(o)
    PROVE  Frame(o) /\ Shared' /\ Own(o)'
    <1>1. Frame(o) /\ Shared'
        BY QuietFrame, Acting DEF AuditSearch
    <1>2. op[o].kind = "search" /\ op'[o] = [op[o] EXCEPT !.pc = "publish", !.journaled = TRUE]
        BY Acting DEF AuditSearch, At
    <1>3. Own(o)'
        BY <1>1, <1>2, Acting DEF Own, Frame, OpInv, ActivationInv, CallInv, RunInv, OpType
    <1> QED BY <1>1, <1>3

\* What is published is in the snapshot.
LEMMA PublishKeeps ==
    ASSUME IInv, NEW o \in Ops, Publish(o)
    PROVE  Frame(o) /\ Shared' /\ Own(o)'
    <1>1. Finish(o) /\ conn' = conn /\ activated' = activated
          /\ published' = published \cup {<<e[1], e[3]>> : e \in op[o].won}
        BY DEF Publish
    <1>2. Snapshot' = Snapshot /\ op[o].won \subseteq Snapshot
        BY <1>1, Acting DEF Snapshot, OpInv
    <1>3. Frame(o)
        <2>1. \A k \in Ops \ {o} : op'[k] = op[k] /\ (manager = k => manager' = k) /\ (gate = k => gate' = k)
            BY <1>1, FinishEffect DEF IInv
        <2> QED BY <1>1, <1>2, <2>1 DEF Frame
    <1>4. Shared'
        BY <1>1, <1>2 DEF Shared, IInv
    <1> QED BY <1>1, <1>2, <1>3, <1>4, FinishKeeps

-----------------------------------------------------------------------------
(* The steps of one invocation: calls.                                       *)

\* The connections after a step that changed one of them and kept its history.
LEMMA OneConnection ==
    ASSUME IInv, NEW o \in Ops, manager = o, UNCHANGED <<activated, published>>,
           \A k \in Ops \ {o} : op'[k] = op[k] /\ (gate = k => gate' = k),
           NEW s \in Configured, NEW c, conn' = [conn EXCEPT ![s] = c], Coherent(c), conn[s].was => c.was,
           c.url = conn[s].url
    PROVE  Frame(o) /\ Shared'
    <1>1. \A x \in Configured : Coherent(conn'[x]) /\ (conn[x].was => conn'[x].was) /\ Hosted(x, conn'[x])
        BY Acting DEF IInv, Hosted
    <1>2. \A x \in DOMAIN activated : conn'[x].was
        BY <1>1 DEF IInv, TypeOK
    <1> QED BY <1>1, <1>2, ConnectionFrame

\* A call that was not published is refused at once.
LEMMA CallKeeps ==
    ASSUME IInv, NEW o \in Ops, NEW s \in Configured, NEW t \in Tools, Call(o, s, t)
    PROVE  Frame(o) /\ Shared' /\ Own(o)'
    <1>1. op[o] = Idle /\ UNCHANGED <<conn, activated, published, gate, manager>>
        BY Acting DEF Call, OpInv
    <1>2. PICK p \in {"manager", "done"} :
             /\ p = "manager" => <<s, t>> \in published
             /\ op' = [op EXCEPT ![o].pc = p, ![o].kind = "call", ![o].server = s, ![o].tool = t]
        BY DEF Call
    <1>3. Frame(o) /\ Shared'
        BY <1>1, <1>2, QuietFrame, Acting
    <1>4. op'[o] = [Idle EXCEPT !.pc = p, !.kind = "call", !.server = s, !.tool = t]
        BY <1>1, <1>2, Acting
    <1>5. /\ op'[o].pc = p /\ op'[o].kind = "call" /\ op'[o].server = s /\ op'[o].tool = t /\ op'[o].won = {}
          /\ op'[o].ran = 0 /\ op'[o].attempt = 0 /\ op'[o].phase = "none"
        BY <1>4 DEF Idle
    <1>6. OpInv(op[o], o)' /\ ActivationInv(op[o], o)'
        BY <1>5 DEF OpInv, ActivationInv
    <1>7. CallInv(op[o])'
        <2>1. p = "manager" => <<s, t>> \in published'
            BY <1>1, <1>2
        <2> QED BY <1>5, <2>1 DEF CallInv
    <1>8. RunInv(op[o])'
        BY <1>5 DEF RunInv
    <1> QED BY <1>3, <1>6, <1>7, <1>8 DEF Own

\* A granted call locks the manager and goes on, if there is a connection.
LEMMA BeginCallKeeps ==
    ASSUME IInv, NEW o \in Ops, BeginCall(o)
    PROVE  Frame(o) /\ Shared' /\ Own(o)'
    <1>1. UNCHANGED <<conn, activated, published>> /\ manager = None /\ At(o, "call", "manager")
        BY DEF BeginCall
    <1>2. CASE Finish(o)
        BY <1>1, <1>2, QuietFinish
    <1>3. CASE ~Finish(o)
        <2>1. /\ <<op[o].server, op[o].tool>> \in Granted /\ manager' = o /\ gate' = gate
              /\ \E p \in {"journal", "handshake"} :
                   /\ op' = [op EXCEPT ![o].pc = p, ![o].phase = "ensure"]
                   /\ p = "handshake" => ~conn[op[o].server].done
            BY <1>3 DEF BeginCall
        <2>2. PICK p \in {"journal", "handshake"} :
                   /\ op' = [op EXCEPT ![o].pc = p, ![o].phase = "ensure"]
                   /\ p = "handshake" => ~conn[op[o].server].done
            BY <2>1
        <2>3. Frame(o) /\ Shared'
            BY <1>1, <2>1, <2>2, QuietFrame, Acting, McpAssumption
        <2>4. op'[o] = [op[o] EXCEPT !.pc = p, !.phase = "ensure"] /\ op[o] \in OpType
            BY <2>2, Acting
        <2>5. op[o].kind = "call" /\ op[o].server \in Configured /\ <<op[o].server, op[o].tool>> \in published
              /\ op[o].ran = 0 /\ op[o].attempt = 0
            <3>1. op[o].ran \in Nat
                BY Acting DEF OpType
            <3> QED BY <1>1, <3>1, Acting DEF At, CallInv
        <2>6. OpInv(op[o], o)'
            BY <1>1, <2>1, <2>2, <2>3, <2>4, <2>5, Acting DEF Frame, OpInv, OpType
        <2>7. ActivationInv(op[o], o)' /\ CallInv(op[o])' /\ RunInv(op[o])'
            <3>1. /\ op'[o].pc = p /\ op'[o].kind = "call" /\ op'[o].server = op[o].server /\ op'[o].tool = op[o].tool
                  /\ op'[o].ran = 0 /\ op'[o].attempt = 0 /\ op'[o].phase = "ensure"
                BY <2>4, <2>5 DEF OpType
            <3> QED BY <1>1, <2>1, <2>5, <3>1 DEF ActivationInv, CallInv, RunInv
        <2> QED BY <2>3, <2>6, <2>7 DEF Own
    <1> QED BY <1>2, <1>3

\* The call is journaled before its first dispatch.
LEMMA JournalCallKeeps ==
    ASSUME IInv, NEW o \in Ops, JournalCall(o)
    PROVE  Frame(o) /\ Shared' /\ Own(o)'
    <1>1. Frame(o) /\ Shared'
        BY QuietFrame, Acting DEF JournalCall
    <1>2. /\ op[o].pc = "journal" /\ op[o].kind = "call" /\ manager = o /\ op[o].phase = "ensure"
          /\ op'[o] = [op[o] EXCEPT !.pc = "dispatch", !.phase = "first", !.journaled = TRUE]
          /\ UNCHANGED <<conn, published, gate, manager>>
        BY Acting DEF JournalCall, OpInv, CallInv
    <1>3. OpInv(op[o], o)'
        BY <1>1, <1>2, Acting DEF Frame, OpInv, OpType
    <1>4. op[o].ran = 0 /\ op[o].attempt = 0
        <2>1. op[o].ran \in Nat
            BY Acting DEF OpType
        <2>2. op[o].ran <= 0 /\ op[o].attempt = 0
            BY <1>2, Acting DEF CallInv
        <2> QED BY <2>1, <2>2
    <1>5. ActivationInv(op[o], o)' /\ CallInv(op[o])' /\ RunInv(op[o])'
        BY <1>2, <1>4, Acting DEF ActivationInv, CallInv, RunInv, OpType
    <1> QED BY <1>1, <1>3, <1>5 DEF Own

\* The point and the phase of a call, its runs, whether its transport broke and
\* its attempts, as they fit each other.
Attempted(p, ph, n, b, a) ==
    /\ p = "journal" => ph = "ensure"
    /\ p = "backoff" => ph = "loop" /\ a < MAX_RETRIES
    /\ p = "dispatch" => ph # "ensure"
    /\ ph # "loop" => n <= (IF ph = "renew" THEN 1 ELSE 0) /\ a = 0
    /\ ph = "loop" => b /\ a <= MAX_RETRIES /\ n <= IF p = "backoff" THEN a + 1 ELSE a

\* The record of a call that goes on.
GoesOn(o, p, ph, n, b, a) == op'[o] = [op[o] EXCEPT !.pc = p, !.phase = ph, !.ran = n, !.broken = b, !.attempt = a]

\* A call past the manager that goes on: its record is right whenever the next
\* point, phase, attempt and runs fit each other.
LEMMA CallGoesOn ==
    ASSUME IInv, NEW o \in Ops, Frame(o), op[o].kind = "call", manager = o, manager' = o,
           op[o].pc \in {"handshake", "dispatch", "backoff"},
           NEW p \in {"handshake", "journal", "dispatch", "backoff"}, NEW ph \in {"ensure", "first", "renew", "loop"},
           NEW n \in Nat, NEW b \in BOOLEAN, NEW a \in Nat,
           GoesOn(o, p, ph, n, b, a),
           p = "handshake" => ~conn'[op[o].server].done,
           Attempted(p, ph, n, b, a), ph # "ensure" => op[o].journaled
    PROVE  Own(o)'
    <1>1. op[o].server \in Configured /\ <<op[o].server, op[o].tool>> \in published' \cap Granted
        BY Acting DEF CallInv, Frame
    <1>2. op[o] \in OpType /\ MAX_RETRIES \in Nat
        BY Acting, McpAssumption
    <1>3. OpInv(op[o], o)'
        BY <1>1, <1>2, Acting DEF GoesOn, Frame, OpInv, OpType
    <1>4. ActivationInv(op[o], o)'
        BY <1>2 DEF GoesOn, ActivationInv, OpType
    <1>5. /\ op'[o].kind = "call" /\ op'[o].pc = p /\ op'[o].phase = ph /\ op'[o].ran = n /\ op'[o].broken = b
          /\ op'[o].attempt = a /\ op'[o].server = op[o].server /\ op'[o].tool = op[o].tool
          /\ op'[o].journaled = op[o].journaled
        BY <1>2 DEF GoesOn, OpType
    <1>6. CallInv(op[o])'
        BY <1>1, <1>5 DEF CallInv, Attempted
    <1>7. n > 0 => \/ ph = "loop" /\ b /\ n <= 1 + MAX_RETRIES
                   \/ ph = "renew" /\ n = 1 /\ op[o].journaled
        BY <1>2 DEF Attempted
    <1>8. RunInv(op[o])'
        BY <1>1, <1>5, <1>7 DEF RunInv
    <1> QED BY <1>3, <1>4, <1>6, <1>8 DEF Own

\* What a call past the manager has been through.
LEMMA CallUnderway ==
    ASSUME IInv, NEW o \in Ops, op[o].kind = "call", op[o].pc \in {"handshake", "dispatch", "backoff"}
    PROVE  /\ manager = o /\ op[o].server \in Configured
           /\ op[o].phase \in {"ensure", "first", "renew", "loop"}
           /\ op[o].ran \in Nat /\ op[o].attempt \in Nat /\ op[o].broken \in BOOLEAN /\ MAX_RETRIES \in Nat \ {0}
           /\ op[o].pc = "backoff" => op[o].phase = "loop" /\ op[o].attempt < MAX_RETRIES
           /\ op[o].pc = "dispatch" => op[o].phase # "ensure"
           /\ op[o].phase # "ensure" => op[o].journaled
           /\ op[o].phase # "loop" => op[o].ran <= (IF op[o].phase = "renew" THEN 1 ELSE 0) /\ op[o].attempt = 0
           /\ op[o].phase = "loop" => /\ op[o].broken /\ op[o].attempt <= MAX_RETRIES
                                      /\ op[o].ran <= IF op[o].pc = "backoff" THEN op[o].attempt + 1 ELSE op[o].attempt
           /\ conn[op[o].server] \in ConnType /\ Coherent(conn[op[o].server])
    <1>1. /\ op[o].ran \in Nat /\ op[o].attempt \in Nat /\ op[o].broken \in BOOLEAN /\ MAX_RETRIES \in Nat \ {0}
          /\ op[o].phase \in {"none", "ensure", "first", "renew", "loop"}
        BY Acting, McpAssumption DEF OpType
    <1>2. CallInv(op[o]) /\ OpInv(op[o], o)
        BY Acting
    <1>3. op[o].server \in Configured /\ manager = o
        BY <1>2 DEF CallInv, OpInv
    <1>4. conn[op[o].server] \in ConnType /\ Coherent(conn[op[o].server])
        BY <1>3, Acting DEF IInv
    <1> QED BY <1>1, <1>2, <1>3, <1>4 DEF CallInv

\* A dispatch was answered, or not.
LEMMA DispatchKeeps ==
    ASSUME IInv, NEW o \in Ops, Dispatch(o)
    PROVE  Frame(o) /\ Shared' /\ Own(o)'
    <1>1. op[o].pc = "dispatch" /\ op[o].kind = "call" /\ UNCHANGED <<activated, published, gate>> /\ TypeOK /\ op[o] \in OpType
        BY Acting DEF Dispatch, OpInv, IInv
    <1> DEFINE s == op[o].server
    <1>2. PICK n \in Nat, b \in BOOLEAN, p \in {"handshake", "backoff", "done"}, ph \in {"renew", "loop", op[o].phase} :
             Dispatched(o, n, b, p, ph)
        BY <1>1, DispatchEffect
    <1> DEFINE r == [op[o] EXCEPT !.pc = p, !.phase = ph, !.ran = n, !.broken = b]
    <1>3. op'[o] = r /\ \A k \in Ops \ {o} : op'[k] = op[k]
        BY <1>2, Acting DEF Dispatched
    <1>4. n \in {op[o].ran, op[o].ran + 1} /\ (op[o].broken => b)
        BY <1>2 DEF Dispatched
    <1>5. manager = o /\ \A k \in Ops : manager = k => k = o
        BY <1>1, CallUnderway
    <1>6. GoesOn(o, p, ph, n, b, op[o].attempt)
        BY <1>1, <1>3 DEF GoesOn, OpType
    <1>7. CASE /\ op[o].phase = "first" /\ p = "handshake" /\ ph = "renew" /\ manager' = manager
               /\ conn' = [conn EXCEPT ![s] = Renewed(@)]
        <2> DEFINE h == Renewed(conn[s])
        <2>1. s \in Configured /\ Coherent(h) /\ ~h.done /\ (conn[s].was => h.was) /\ h.url = conn[s].url
            BY <1>1, <1>7, CallUnderway, ResetCoherent
        <2>2. conn' = [conn EXCEPT ![s] = h]
            BY <1>7
        <2> HIDE DEF h
        <2>3. Frame(o) /\ Shared'
            BY <1>1, <1>3, <1>5, <2>1, <2>2, OneConnection
        <2>4. ~conn'[s].done
            BY <2>1, <2>2, Acting
        <2>5. op[o].ran = 0 /\ op[o].attempt = 0 /\ op[o].journaled
            BY <1>1, <1>7, CallUnderway
        <2>6. op[o].attempt \in Nat /\ Attempted(p, ph, n, b, op[o].attempt)
            BY <1>4, <1>7, <2>5 DEF Attempted
        <2>7. Own(o)'
            BY <1>1, <1>5, <1>6, <1>7, <2>3, <2>4, <2>5, <2>6, CallGoesOn
        <2> QED BY <2>3, <2>7
    <1>8. CASE /\ (op[o].phase = "first" /\ b) \/ (op[o].phase = "loop" /\ ~Exhausted(o))
               /\ p = "backoff" /\ ph = "loop" /\ conn' = conn /\ manager' = manager
        <2>1. Frame(o) /\ Shared'
            BY <1>1, <1>3, <1>5, <1>8, QuietFrame
        <2>2. op[o].journaled /\ b /\ op[o].attempt \in Nat /\ op[o].attempt < MAX_RETRIES /\ n <= op[o].attempt + 1
            <3>1. CASE op[o].phase = "first" /\ b
                BY <1>1, <1>4, <3>1, CallUnderway
            <3>2. CASE op[o].phase = "loop" /\ ~Exhausted(o)
                BY <1>1, <1>4, <3>2, CallUnderway DEF Exhausted
            <3> QED BY <1>8, <3>1, <3>2
        <2>3. op[o].attempt <= MAX_RETRIES
            BY <2>2, McpAssumption
        <2>4. Attempted(p, ph, n, b, op[o].attempt)
            BY <1>8, <2>2, <2>3 DEF Attempted
        <2>5. Own(o)'
            BY <1>1, <1>5, <1>6, <1>8, <2>1, <2>2, <2>4, CallGoesOn
        <2> QED BY <2>1, <2>5
    <1>9. CASE p = "done" /\ ph = op[o].phase /\ conn' = conn /\ manager' = None
        <2>1. Frame(o) /\ Shared'
            BY <1>1, <1>3, <1>5, <1>9, QuietFrame
        <2>2. op'[o] = [op[o] EXCEPT !.pc = "done", !.ran = n, !.broken = b]
            BY <1>1, <1>3, <1>9 DEF OpType
        <2>3. Snapshot \subseteq Snapshot' /\ published \subseteq published'
            BY <2>1 DEF Frame
        <2>4. Own(o)'
            BY <1>1, <1>4, <2>2, <2>3, EndKeeps
        <2> QED BY <2>1, <2>4
    <1> QED BY <1>2, <1>7, <1>8, <1>9 DEF Dispatched

\* A further attempt starts with its connection taken down.
LEMMA BackoffKeeps ==
    ASSUME IInv, NEW o \in Ops, Backoff(o)
    PROVE  Frame(o) /\ Shared' /\ Own(o)'
    <1> DEFINE s == op[o].server
               c == Pinned(conn[s])
               a == op[o].attempt + 1
    <1>1. op[o].pc = "backoff" /\ op[o].kind = "call" /\ UNCHANGED <<activated, published, gate, manager>> /\ op[o] \in OpType
        BY Acting DEF Backoff, OpInv
    <1>2. conn' = [conn EXCEPT ![s] = c] /\ op'[o] = [op[o] EXCEPT !.pc = "handshake", !.attempt = a]
          /\ \A k \in Ops \ {o} : op'[k] = op[k]
        BY Acting DEF Backoff, NextAttempt
    <1>3. s \in Configured /\ Coherent(c) /\ ~c.done /\ (conn[s].was => c.was) /\ c.url = conn[s].url /\ manager = o
        BY <1>1, CallUnderway, ResetCoherent
    <1>4. /\ op[o].phase = "loop" /\ op[o].journaled /\ op[o].broken /\ op[o].broken \in BOOLEAN /\ op[o].ran \in Nat
          /\ a \in Nat /\ a <= MAX_RETRIES /\ op[o].ran <= a
        BY <1>1, CallUnderway
    <1> HIDE DEF c, a
    <1>5. Frame(o) /\ Shared'
        BY <1>1, <1>2, <1>3, OneConnection
    <1>6. ~conn'[s].done
        BY <1>2, <1>3, Acting
    <1>7. GoesOn(o, "handshake", op[o].phase, op[o].ran, op[o].broken, a)
        BY <1>1, <1>2 DEF GoesOn, OpType
    <1>8. Attempted("handshake", op[o].phase, op[o].ran, op[o].broken, a)
        BY <1>4 DEF Attempted
    <1>9. Own(o)'
        BY <1>1, <1>3, <1>4, <1>5, <1>6, <1>7, <1>8, CallGoesOn
    <1> QED BY <1>5, <1>9

\* The handshake of a call: its server is connected, tried again, or given up.
LEMMA CallHandshakeKeeps ==
    ASSUME IInv, NEW o \in Ops, CallHandshake(o)
    PROVE  Frame(o) /\ Shared' /\ Own(o)'
    <1> DEFINE s == op[o].server
    <1>1. op[o].pc = "handshake" /\ op[o].kind = "call" /\ UNCHANGED <<activated, published>> /\ op[o] \in OpType
        BY Acting DEF CallHandshake, At
    <1>2. PICK c \in handshake_server(conn[s]) :
             /\ conn' = [conn EXCEPT ![s] = c]
             /\ \/ \E p \in {"journal", "dispatch", "backoff"} :
                      /\ p = "journal" => op[o].phase = "ensure"
                      /\ p = "dispatch" => op[o].phase # "ensure"
                      /\ p = "backoff" => op[o].phase = "loop" /\ ~Exhausted(o)
                      /\ op' = [op EXCEPT ![o].pc = p]
                      /\ UNCHANGED <<gate, manager>>
                \/ Finish(o)
        BY DEF CallHandshake
    <1>3. s \in Configured /\ conn[s] \in ConnType /\ Coherent(conn[s]) /\ ~conn[s].done /\ manager = o
        BY <1>1, CallUnderway, Acting DEF OpInv
    <1>4. Coherent(c) /\ (conn[s].was => c.was) /\ c.url = conn[s].url
        BY <1>2, <1>3, HandshakeCoherent
    <1>5. CASE Finish(o)
        <2>1. \A k \in Ops \ {o} : op'[k] = op[k] /\ (gate = k => gate' = k)
            BY <1>5, FinishEffect DEF IInv
        <2>2. Frame(o) /\ Shared'
            BY <1>1, <1>2, <1>3, <1>4, <2>1, OneConnection
        <2>3. Snapshot \subseteq Snapshot' /\ published \subseteq published'
            BY <2>2 DEF Frame
        <2> QED BY <1>5, <2>2, <2>3, FinishKeeps
    <1>6. CASE ~Finish(o)
        <2>1. PICK p \in {"journal", "dispatch", "backoff"} :
                 /\ p = "journal" => op[o].phase = "ensure"
                 /\ p = "dispatch" => op[o].phase # "ensure"
                 /\ p = "backoff" => op[o].phase = "loop" /\ ~Exhausted(o)
                 /\ op' = [op EXCEPT ![o].pc = p]
                 /\ UNCHANGED <<gate, manager>>
            BY <1>2, <1>6
        <2>2. op'[o] = [op[o] EXCEPT !.pc = p] /\ \A k \in Ops \ {o} : op'[k] = op[k]
            BY <2>1, Acting
        <2>3. Frame(o) /\ Shared'
            BY <1>1, <1>2, <1>3, <1>4, <2>1, <2>2, OneConnection
        <2> DEFINE ph == op[o].phase
                   n == op[o].ran
                   b == op[o].broken
                   a == op[o].attempt
        <2>4. GoesOn(o, p, ph, n, b, a)
            BY <1>1, <2>2 DEF GoesOn, OpType
        <2>5. /\ ph \in {"ensure", "first", "renew", "loop"} /\ n \in Nat /\ b \in BOOLEAN /\ a \in Nat
              /\ ph # "ensure" => op[o].journaled
              /\ ph # "loop" => n <= (IF ph = "renew" THEN 1 ELSE 0) /\ a = 0
              /\ ph = "loop" => b /\ a <= MAX_RETRIES /\ n <= a
            BY <1>1, CallUnderway
        <2>6. Attempted(p, ph, n, b, a)
            BY <2>1, <2>5, McpAssumption DEF Exhausted, Attempted
        <2> HIDE DEF n, b, a, ph
        <2>7. manager' = o
            BY <1>3, <2>1
        <2>8. Own(o)'
            BY <1>1, <1>3, <2>3, <2>4, <2>5, <2>6, <2>7, CallGoesOn
        <2> QED BY <2>3, <2>8
    <1> QED BY <1>5, <1>6

-----------------------------------------------------------------------------
(* The rest.                                                                 *)

\* A discovery request without an answer keeps its locks.
LEMMA DiscoveryHangsKeeps ==
    ASSUME IInv, NEW o \in Ops, DiscoveryHangs(o)
    PROVE  Frame(o) /\ Shared' /\ Own(o)'
    <1>1. Frame(o) /\ Shared'
        BY QuietFrame, Acting DEF DiscoveryHangs
    <1>2. /\ op[o].pc = "handshake" /\ op'[o] = [op[o] EXCEPT !.pc = "hung"] /\ op[o] \in OpType
          /\ UNCHANGED <<conn, activated, published, gate, manager>>
        BY Acting DEF DiscoveryHangs
    <1>3. OpInv(op[o], o)'
        BY <1>1, <1>2, Acting DEF Frame, OpInv, OpType
    <1>4. ActivationInv(op[o], o)'
        BY <1>2, Acting DEF ActivationInv, OpType
    <1>5. CallInv(op[o])'
        BY <1>2, Acting DEF CallInv, OpType
    <1>6. RunInv(op[o])'
        BY <1>2, Acting DEF RunInv, OpType
    <1> QED BY <1>1, <1>3, <1>4, <1>5, <1>6 DEF Own

\* An aborted task drops its guards, and leaves connections as they are.
LEMMA AbortKeeps ==
    ASSUME IInv, NEW o \in Ops, Abort(o)
    PROVE  Frame(o) /\ Shared' /\ Own(o)'
    <1>1. PICK n \in Nat : /\ n \in {op[o].ran, op[o].ran + 1} /\ (op[o].pc # "dispatch" => n = op[o].ran)
                           /\ op' = [op EXCEPT ![o] = [op[o] EXCEPT !.pc = "done", !.ran = n]]
        BY AbortEffect DEF IInv
    <1>2. /\ UNCHANGED <<conn, activated, published>>
          /\ \A k \in Ops \ {o} : op'[k] = op[k] /\ (gate = k => gate' = k) /\ (manager = k => manager' = k)
        BY <1>1, Acting DEF Abort
    <1>3. Frame(o) /\ Shared'
        BY <1>2, QuietFrame
    <1>4. op[o].broken \in BOOLEAN /\ op'[o] = [op[o] EXCEPT !.pc = "done", !.ran = n, !.broken = op[o].broken]
        BY <1>1, Acting DEF OpType
    <1>5. Snapshot \subseteq Snapshot' /\ published \subseteq published'
        BY <1>3 DEF Frame
    <1>6. Own(o)'
        BY <1>1, <1>4, <1>5, EndKeeps
    <1> QED BY <1>3, <1>6

-----------------------------------------------------------------------------
(* The invariant and the properties.                                         *)

\* Every step of an invocation keeps the invariant.
LEMMA MovesKeep ==
    ASSUME IInv, NEW o \in Ops, Moves(o)
    PROVE  IInv'
    <1>1. TypeOK'
        BY TypeInductive, Acting DEF IInv
    <1>2. Frame(o) /\ Shared' /\ Own(o)'
        BY ActivateKeeps, PassGateKeeps, BeginActivationKeeps, AuditFailsKeeps, ConnectKeeps, ActivationHandshakeKeeps,
           CommitKeeps, SearchKeeps, AuditSearchKeeps, PublishKeeps, CallKeeps, BeginCallKeeps, JournalCallKeeps,
           DispatchKeeps, BackoffKeeps, CallHandshakeKeeps, DiscoveryHangsKeeps, AbortKeeps DEF Moves, Step
    <1>3. \A k \in Ops : Own(k)'
        BY <1>2, OthersKeep
    <1> QED BY <1>1, <1>2, <1>3 DEF IInv, Shared, Own

\* The invariant holds at first.
LEMMA InitInvariant ==
    ASSUME Init
    PROVE  IInv
    <1>1. TypeOK
        <2>1. NoConn \in ConnType /\ Idle \in OpType
            BY ConnTypes, IdleType
        <2> QED BY <2>1 DEF Init, TypeOK
    <1>2. \A s \in Configured : Coherent(conn[s]) /\ Hosted(s, conn[s])
        BY NewConnections DEF Init, Hosted
    <1>3. ASSUME NEW o \in Ops PROVE OpInv(op[o], o) /\ ActivationInv(op[o], o) /\ CallInv(op[o]) /\ RunInv(op[o])
        <2>1. op[o] = Idle
            BY DEF Init
        <2> QED BY <2>1 DEF OpInv, ActivationInv, CallInv, RunInv, Idle
    <1>4. published = {} /\ DOMAIN activated = {}
        BY DEF Init
    <1> QED BY <1>1, <1>2, <1>3, <1>4 DEF IInv

\* The inductive invariant: the locks protect what each invocation has found
\* out, connections are pinned, runs are accounted for.
THEOREM Invariant == Spec => []IInv
    <1>1. Init => IInv
        BY InitInvariant
    <1>2. IInv /\ [Next]_vars => IInv'
        <2> SUFFICES ASSUME IInv, [Next]_vars PROVE IInv'
            OBVIOUS
        <2>1. CASE Next
            BY <2>1, MovesKeep DEF Next, Moves
        <2>2. CASE UNCHANGED vars
            <3>1. Snapshot' = Snapshot
                BY <2>2 DEF Snapshot, vars
            <3> QED BY <2>2, <3>1 DEF vars, IInv, TypeOK, Coherent, Hosted, OpInv, ActivationInv, CallInv, RunInv
        <2> QED BY <2>1, <2>2
    <1> QED BY <1>1, <1>2, PTL DEF Spec

\* Every variable keeps its type.
THEOREM TypeCorrect == Spec => []TypeOK
    <1>1. IInv => TypeOK
        BY DEF IInv
    <1> QED BY <1>1, Invariant, PTL

\* What the catalog has shown it keeps: entries, published pairs, connections.
THEOREM WordTheorem == Spec => []CatalogKeepsItsWord
    <1>1. IInv => CatalogKeepsItsWord
        BY DEF IInv, OpInv, CatalogKeepsItsWord
    <1> QED BY <1>1, Invariant, PTL

\* No reconnect changes the transport of a connection; an answer taken for an
\* expired session may, to streamable HTTP and only of a network server.
THEOREM ModeTheorem == Spec => []ModeNeverSwitches
    <1>1. IInv => ModeNeverSwitches
        BY DEF IInv, Coherent, Hosted, ModeNeverSwitches
    <1> QED BY <1>1, Invariant, PTL

\* Whatever ran was granted, published and journaled before, and ran again only
\* after a transport error, within the attempts, or once for an answer taken for
\* an expired session.
THEOREM RunsTheorem == Spec => []RunsAccounted
    <1>1. IInv => RunsAccounted
        BY DEF IInv, RunInv, RunsAccounted
    <1> QED BY <1>1, Invariant, PTL

=============================================================================
