--------------------------- MODULE WorkflowProofs ---------------------------
(* Proofs about Workflow, for any executions, run ids, labels, files and      *)
(* concurrency limit, and scripts of any length.                             *)
EXTENDS Workflow, FiniteSetTheorems, TLAPS

-----------------------------------------------------------------------------
(* Calls and permits.                                                        *)

\* The calls of a script whose worker is at work.
Work(s) == {i \in DOMAIN s : s[i].phase = "working"}

\* There are finitely many calls at work.
LEMMA WorkFinite ==
    ASSUME NEW s \in Seq(CallType)
    PROVE  IsFiniteSet(Work(s)) /\ Cardinality(Work(s)) \in Nat
    <1>1. Len(s) \in Nat /\ Work(s) \subseteq 1 .. Len(s)
        BY DEF Work
    <1>2. IsFiniteSet(1 .. Len(s))
        BY <1>1, FS_Interval
    <1> QED BY <1>1, <1>2, FS_Subset, FS_CardinalityType

\* The calls of two sequences that differ in call i only.
DifferAt(s, t, i) == DOMAIN t = DOMAIN s /\ i \in DOMAIN s /\ \A j \in DOMAIN s \ {i} : t[j] = s[j]

\* A call that starts working adds one to the calls at work.
LEMMA WorkAdded ==
    ASSUME NEW s \in Seq(CallType), NEW t \in Seq(CallType), NEW i, DifferAt(s, t, i),
           s[i].phase # "working", t[i].phase = "working"
    PROVE  Cardinality(Work(t)) = Cardinality(Work(s)) + 1
    <1>1. Work(t) = Work(s) \cup {i} /\ i \notin Work(s)
        BY DEF Work, DifferAt
    <1> QED BY <1>1, WorkFinite, FS_AddElement

\* A call that neither starts nor stops working leaves their number.
LEMMA WorkKept ==
    ASSUME NEW s \in Seq(CallType), NEW t \in Seq(CallType), NEW i, DifferAt(s, t, i),
           s[i].phase # "working", t[i].phase # "working"
    PROVE  Work(t) = Work(s)
    BY DEF Work, DifferAt

\* An appended call waits or is done.
LEMMA WorkAppended ==
    ASSUME NEW s \in Seq(CallType), NEW c \in CallType, c.phase # "working"
    PROVE  /\ Work(Append(s, c)) = Work(s)
           /\ Append(s, c) \in Seq(CallType) /\ Len(Append(s, c)) = Len(s) + 1 /\ Len(s) \in Nat
           /\ DOMAIN s = 1 .. Len(s) /\ DOMAIN Append(s, c) = 1 .. Len(s) + 1
           /\ \A i \in DOMAIN s : Append(s, c)[i] = s[i]
           /\ Append(s, c)[Len(s) + 1] = c
    <1> DEFINE a == Append(s, c)
    <1>1. /\ a \in Seq(CallType) /\ Len(a) = Len(s) + 1 /\ Len(s) \in Nat
          /\ DOMAIN s = 1 .. Len(s) /\ DOMAIN a = 1 .. Len(s) + 1
          /\ \A i \in DOMAIN s : a[i] = s[i]
          /\ a[Len(s) + 1] = c
        OBVIOUS
    <1> HIDE DEF a
    <1>2. Work(a) = Work(s)
        BY <1>1 DEF Work
    <1> QED BY <1>1, <1>2 DEF a

\* What replacing call i leaves of the sequence of calls.
LEMMA CallAt ==
    ASSUME NEW s \in Seq(CallType), NEW i \in DOMAIN s, NEW c \in CallType
    PROVE  /\ [s EXCEPT ![i] = c] \in Seq(CallType) /\ Len([s EXCEPT ![i] = c]) = Len(s)
           /\ DifferAt(s, [s EXCEPT ![i] = c], i) /\ [s EXCEPT ![i] = c][i] = c
    BY DEF DifferAt

\* A result is told from the absence of one.
LEMMA ResultIsOne ==
    ASSUME NEW r \in Result
    PROVE  r # NoResult
    BY WorkflowAssumption DEF Result, NoResult, Execs

-----------------------------------------------------------------------------
(* What a step leaves alone.                                                 *)

\* Results stay where they are, in the run they were returned in.
Keeps ==
    \A d \in Execs : \A i \in DOMAIN calls[d] :
        /\ i \in DOMAIN calls'[d]
        /\ calls[d][i].result # NoResult => calls'[d][i].result = calls[d][i].result
        /\ exec'[d].id = exec[d].id

\* A step of execution e changes nothing of the others.
Others(e) == \A d \in Execs \ {e} : exec'[d] = exec[d] /\ calls'[d] = calls[d] /\ events'[d] = events[d]

\* A result stays genuine.
LEMMA GenuineKept ==
    ASSUME NEW r, NEW id, Genuine(r, id), Keeps
    PROVE  Genuine(r, id)'
    <1>1. r \in Result /\ r.by \in Execs /\ r.index \in DOMAIN calls[r.by] /\ calls[r.by][r.index].result = r
          /\ exec[r.by].id = id
        BY DEF Genuine, Result
    <1>2. r # NoResult
        BY <1>1, ResultIsOne
    <1>3. r.index \in DOMAIN calls'[r.by] /\ calls'[r.by][r.index].result = r /\ exec'[r.by].id = id
        BY <1>1, <1>2 DEF Keeps
    <1> QED BY <1>1, <1>3 DEF Genuine

\* Files not written stay genuine.
LEMMA FileKept ==
    ASSUME NEW id \in Ids, FileInv(id), Keeps, files'[id] = files[id]
    PROVE  FileInv(id)'
    <1>1. \A f \in Files : files[id][f] # NoResult => Genuine(files[id][f], id)'
        BY GenuineKept DEF FileInv
    <1>2. ASSUME NEW f \in Files, files'[id][f] # NoResult PROVE Genuine(files[id][f], id)'
        BY <1>1, <1>2
    <1> QED BY <1>2 DEF FileInv, Genuine, NoResult

\* Call i of execution d, after the step, has the result it had, none, its own, or a cached one.
Answered(d, i) ==
    \/ /\ i \in DOMAIN calls[d] /\ calls'[d][i].key = calls[d][i].key
       /\ calls'[d][i].result = calls[d][i].result
    \/ calls'[d][i].result = NoResult
    \/ LET r == calls'[d][i].result IN r.key = calls'[d][i].key /\ r.by = d /\ r.index = i
    \/ calls'[d][i].result \in exec[d].cached /\ calls'[d][i].result.key = calls'[d][i].key

\* The results an execution uses stay genuine when each of its calls is answered like that.
LEMMA ReuseKept ==
    ASSUME NEW d \in Execs, ReuseInv(d), Keeps,
           exec'[d].cached = exec[d].cached, exec'[d].from = exec[d].from,
           \A i \in DOMAIN calls'[d] : Answered(d, i)
    PROVE  ReuseInv(d)'
    <1>1. PICK id : id = exec[d].from
        OBVIOUS
    <1>2. exec'[d].from = id
        BY <1>1
    <1>3. \A r : Genuine(r, id) => Genuine(r, id)'
        BY GenuineKept
    <1>4. \A r \in exec[d].cached : Genuine(r, id)'
        BY <1>1, <1>3 DEF ReuseInv
    <1>5. ASSUME NEW i \in DOMAIN calls'[d], NEW r, r = calls'[d][i].result, r # NoResult
          PROVE  r.key = calls'[d][i].key /\ ((r.by = d /\ r.index = i) \/ Genuine(r, id)')
        <2>1. CASE i \in DOMAIN calls[d] /\ calls'[d][i].key = calls[d][i].key /\ r = calls[d][i].result
            <3>1. r.key = calls[d][i].key /\ ((r.by = d /\ r.index = i) \/ Genuine(r, id))
                BY <1>1, <1>5, <2>1 DEF ReuseInv
            <3> QED BY <1>3, <2>1, <3>1
        <2>2. CASE r \in exec[d].cached /\ r.key = calls'[d][i].key
            BY <1>4, <2>2
        <2>3. CASE r.key = calls'[d][i].key /\ r.by = d /\ r.index = i
            BY <2>3
        <2> QED BY <1>5, <2>1, <2>2, <2>3 DEF Answered
    <1>6. \A r \in exec'[d].cached : Genuine(r, id)'
        BY <1>4
    <1>7. (NoResult)' = NoResult
        BY DEF NoResult
    <1> QED BY <1>2, <1>5, <1>6, <1>7 DEF ReuseInv

\* Executions that take no step keep their part of the invariant.
LEMMA OthersKeep ==
    ASSUME NEW e, Others(e), Keeps, NEW d \in Execs \ {e}, ExecInv(d), ReuseInv(d)
    PROVE  ExecInv(d)' /\ ReuseInv(d)'
    <1>1. exec'[d] = exec[d] /\ calls'[d] = calls[d]
        BY DEF Others
    <1>2. ExecInv(d)'
        BY <1>1 DEF ExecInv, Working
    <1>3. \A i \in DOMAIN calls'[d] : Answered(d, i)
        BY <1>1 DEF Answered
    <1> QED BY <1>1, <1>2, <1>3, ReuseKept

\* Execution e goes on with its run, or is over and stays as it ended.
GoesOn(e) ==
    /\ exec'[e].id = exec[e].id /\ exec'[e].from = exec[e].from
    /\ exec[e].phase # "new" /\ exec'[e].phase # "new"
    /\ Open(e) => Open(e)'
    /\ exec[e].phase = "ended" => exec'[e].phase = "ended" /\ calls'[e] = calls[e] /\ events'[e] = events[e]

\* The record of an id stays that of one execution while no run starts or ends.
LEMMA StateKept ==
    ASSUME TypeOK, NEW e \in Execs, Others(e), GoesOn(e), NEW id \in Ids, StateInv(id),
           state'[id] = state[id], control'[id] = control[id]
    PROVE  StateInv(id)'
    <1>1. control[id] # 0 => control[id] \in Execs
        BY WorkflowAssumption DEF TypeOK, Execs
    <1>2. PICK c : c = control[id]
        OBVIOUS
    <1>3. c # 0 => exec'[c].id = id /\ exec'[c].phase # "new"
        BY <1>1, <1>2 DEF StateInv, Others, GoesOn
    <1>4. CASE state[id] = NoRun
        BY <1>2, <1>3, <1>4 DEF StateInv, OneExecution, NoRun
    <1>5. ASSUME NEW d \in Execs, exec[d].id = id, Open(d), state[id] = Running
          PROVE  StateInv(id)'
        <2>1. exec'[d].id = id /\ Open(d)'
            BY <1>5 DEF Others, GoesOn, Open
        <2> QED BY <1>2, <1>3, <1>5, <2>1 DEF StateInv, OneExecution, Running
    <1>6. ASSUME NEW d \in Execs, exec[d].id = id, exec[d].phase = "ended", state[id].results = Results(d),
                 events[d][Len(events[d])].what = state[id].status
          PROVE  StateInv(id)'
        <2>1. exec'[d].id = id /\ exec'[d].phase = "ended" /\ calls'[d] = calls[d] /\ events'[d] = events[d]
            BY <1>6 DEF Others, GoesOn
        <2>2. Results(d)' = Results(d)
            BY <2>1 DEF Results, NoResult
        <2> QED BY <1>2, <1>3, <1>6, <2>1, <2>2 DEF StateInv, OneExecution
    <1> QED BY <1>4, <1>5, <1>6 DEF StateInv, OneExecution

-----------------------------------------------------------------------------
(* The steps.                                                                *)

\* What the invariant says of one execution.
LEMMA Facts ==
    ASSUME IInv, NEW e \in Execs
    PROVE  /\ exec \in [Execs -> ExecType] /\ calls \in [Execs -> Seq(CallType)] /\ events \in [Execs -> Seq(EventType)]
           /\ exec[e] \in ExecType /\ calls[e] \in Seq(CallType) /\ events[e] \in Seq(EventType)
           /\ MaxCalls[e] \in Nat /\ Len(calls[e]) <= MaxCalls[e] /\ exec[e].permits \in Int
           /\ exec[e].permits + Cardinality(Work(calls[e])) = Limit
           /\ exec[e].phase # "new" => exec[e].id \in Ids
           /\ ExecInv(e) /\ ReuseInv(e) /\ TypeOK
    <1>1. /\ exec \in [Execs -> ExecType] /\ calls \in [Execs -> Seq(CallType)] /\ events \in [Execs -> Seq(EventType)]
          /\ Len(calls[e]) <= MaxCalls[e] /\ (exec[e].phase # "new" => exec[e].id \in Ids)
          /\ ExecInv(e) /\ ReuseInv(e) /\ TypeOK
        BY DEF IInv, TypeOK
    <1>2. exec[e].permits \in Int /\ MaxCalls[e] \in Nat
        BY <1>1, WorkflowAssumption DEF ExecType
    <1>3. exec[e].permits + Cardinality(Work(calls[e])) = Limit
        BY <1>1 DEF ExecInv, Working, Work
    <1> QED BY <1>1, <1>2, <1>3

\* The invariant from its parts, when the records and the controls of the ids do not change.
LEMMA Gather ==
    ASSUME IInv, NEW e \in Execs, Others(e), GoesOn(e), Keeps, UNCHANGED <<state, control>>,
           exec' \in [Execs -> ExecType], calls' \in [Execs -> Seq(CallType)], events' \in [Execs -> Seq(EventType)],
           files' \in [Ids -> [Files -> Result \cup {NoResult}]],
           Len(calls'[e]) <= MaxCalls[e], ExecInv(e)', ReuseInv(e)', \A id \in Ids : FileInv(id)'
    PROVE  IInv'
    <1>1. \A d \in Execs \ {e} : ExecInv(d)' /\ ReuseInv(d)'
        BY OthersKeep DEF IInv
    <1>2. \A id \in Ids : StateInv(id)'
        BY StateKept DEF IInv
    <1>3. \A d \in Execs : exec'[d].phase # "new" => exec'[d].id \in Ids
        BY DEF IInv, TypeOK, Others, GoesOn
    <1>4. \A d \in Execs : Len(calls'[d]) <= MaxCalls[d]
        BY DEF IInv, TypeOK, Others
    <1>5. control' \in [Ids -> 0 .. N] /\ DOMAIN state' = Ids
        BY DEF IInv, TypeOK
    <1>6. \A d \in Ids : /\ state'[d] = [status |-> state'[d].status, results |-> state'[d].results]
                         /\ state'[d].status \in Status \cup {"none"} /\ DOMAIN state'[d].results \subseteq Nat
                         /\ \A i \in DOMAIN state'[d].results : state'[d].results[i] \in Result
        BY DEF IInv, TypeOK
    <1>7. TypeOK'
        BY <1>3, <1>4, <1>5, <1>6 DEF TypeOK, ExecType, CallType, EventType, Result, NoResult
    <1> QED BY <1>1, <1>2, <1>7 DEF IInv

\* Call i of execution e becomes c and the semaphore has p permits.
Becomes(e, i, c, p) ==
    /\ exec' = [exec EXCEPT ![e].permits = p]
    /\ calls' = [calls EXCEPT ![e] = [@ EXCEPT ![i] = c]]

\* One call of a running execution moves on; the files and events may be written.
LEMMA CallMoves ==
    ASSUME IInv, NEW e \in Execs, NEW i \in DOMAIN calls[e], exec[e].phase = "running", calls[e][i].phase # "done",
           NEW c \in CallType, c.key = calls[e][i].key, c.phase # "done" => c.result = NoResult,
           c.result # NoResult => c.result.by = e /\ c.result.index = i /\ c.result.key = c.key,
           NEW p \in 0 .. Limit, p + Cardinality(Work([calls[e] EXCEPT ![i] = c])) = Limit,
           Becomes(e, i, c, p), UNCHANGED <<state, control>>,
           events' \in [Execs -> Seq(EventType)], \A d \in Execs \ {e} : events'[d] = events[d],
           files' \in [Ids -> [Files -> Result \cup {NoResult}]],
           \A id \in Ids : files'[id] = files[id] \/ (Keeps => FileInv(id)')
    PROVE  IInv'
    <1> DEFINE s == calls[e]
    <1>1. PICK t : t = [calls[e] EXCEPT ![i] = c]
        OBVIOUS
    <1>2. s \in Seq(CallType) /\ calls[e][i].result = NoResult
        BY Facts DEF ExecInv
    <1>3. t \in Seq(CallType) /\ Len(t) = Len(s) /\ DifferAt(s, t, i) /\ t[i] = c
        BY <1>1, <1>2, CallAt
    <1>4. calls' \in [Execs -> Seq(CallType)] /\ calls'[e] = t /\ \A d \in Execs \ {e} : calls'[d] = calls[d]
        BY <1>1, <1>3, Facts DEF Becomes
    <1>5. [exec[e] EXCEPT !.permits = p] \in ExecType
        BY Facts DEF ExecType
    <1>6. /\ exec' \in [Execs -> ExecType] /\ \A d \in Execs \ {e} : exec'[d] = exec[d]
          /\ exec'[e] = [exec[e] EXCEPT !.permits = p]
        BY <1>5, Facts DEF Becomes
    <1>7. /\ exec'[e].id = exec[e].id /\ exec'[e].from = exec[e].from /\ exec'[e].phase = "running"
          /\ exec'[e].permits = p /\ exec'[e].cached = exec[e].cached
        BY <1>6, Facts DEF ExecType
    <1>8. Others(e) /\ GoesOn(e)
        BY <1>4, <1>6, <1>7 DEF Others, GoesOn, Open
    <1>9. Keeps
        BY <1>2, <1>3, <1>4, <1>6, <1>7 DEF Keeps, DifferAt
    <1>10. ExecInv(e)'
        <2>1. Work(t) = Working(e)'
            BY <1>4 DEF Work, Working
        <2>2. p + Cardinality(Work(t)) = Limit
            BY <1>1
        <2>3. \A j \in DOMAIN t : t[j].phase # "done" => t[j].result = NoResult
            <3>1. \A j \in DOMAIN s : s[j].phase # "done" => s[j].result = NoResult
                BY Facts DEF ExecInv
            <3> QED BY <1>3, <3>1 DEF DifferAt
        <2> QED BY <1>4, <1>7, <2>1, <2>2, <2>3 DEF ExecInv, NoResult
    <1>11. \A j \in DOMAIN calls'[e] : Answered(e, j)
        BY <1>3, <1>4 DEF Answered, DifferAt
    <1>12. ReuseInv(e)'
        BY <1>7, <1>9, <1>11, Facts, ReuseKept
    <1>13. Len(calls'[e]) <= MaxCalls[e]
        BY <1>3, <1>4, Facts
    <1>14. \A id \in Ids : FileInv(id)'
        BY <1>9, FileKept DEF IInv
    <1> QED BY <1>4, <1>6, <1>8, <1>9, <1>10, <1>12, <1>13, <1>14, Gather

\* The permit of a working call goes back when the call stops working.
LEMMA Released ==
    ASSUME IInv, NEW e \in Execs, NEW i \in DOMAIN calls[e], calls[e][i].phase = "working",
           NEW c \in CallType, c.phase # "working"
    PROVE  /\ exec[e].permits + 1 \in 0 .. Limit
           /\ (exec[e].permits + 1) + Cardinality(Work([calls[e] EXCEPT ![i] = c])) = Limit
    <1>1. PICK s \in Seq(CallType) : s = calls[e]
        BY Facts
    <1>2. PICK t : t = [s EXCEPT ![i] = c]
        OBVIOUS
    <1>3. t \in Seq(CallType) /\ DifferAt(s, t, i) /\ t[i] = c
        BY <1>1, <1>2, CallAt
    <1>4. DifferAt(t, s, i)
        BY <1>3 DEF DifferAt
    <1>5. Cardinality(Work(s)) = Cardinality(Work(t)) + 1
        BY <1>1, <1>3, <1>4, WorkAdded
    <1>6. Cardinality(Work(t)) \in Nat
        BY <1>3, WorkFinite
    <1>7. exec[e].permits \in 0 .. Limit /\ Limit \in Nat /\ exec[e].permits + Cardinality(Work(s)) = Limit
        BY <1>1, Facts, WorkflowAssumption DEF ExecType
    <1>8. exec[e].permits + 1 \in 0 .. Limit /\ (exec[e].permits + 1) + Cardinality(Work(t)) = Limit
        <2>1. PICK a, b, n : a = Cardinality(Work(s)) /\ b = Cardinality(Work(t)) /\ n = exec[e].permits
            OBVIOUS
        <2>2. n \in Nat /\ b \in Nat /\ Limit \in Nat /\ n + a = Limit /\ a = b + 1
            BY <1>5, <1>6, <1>7, <2>1
        <2>3. n + 1 \in 0 .. Limit /\ (n + 1) + b = Limit
            BY <2>2
        <2> QED BY <2>1, <2>3
    <1> QED BY <1>1, <1>2, <1>8

\* A step that touches one call, in the form of CallMoves.
LEMMA AcquireStep ==
    ASSUME IInv, NEW e \in Execs, NEW i \in DOMAIN calls[e], Acquire(e, i)
    PROVE  IInv'
    <1>1. PICK c : c = [calls[e][i] EXCEPT !.phase = "working"]
        OBVIOUS
    <1>2. PICK p : p = exec[e].permits - 1
        OBVIOUS
    <1>3. calls[e][i] \in CallType /\ calls[e][i].phase = "waiting" /\ calls[e][i].result = NoResult
        BY Facts DEF Acquire, ExecInv
    <1>4. c \in CallType /\ c.key = calls[e][i].key /\ c.phase = "working" /\ c.result = NoResult
        BY <1>1, <1>3 DEF CallType
    <1>5. exec[e].permits \in 0 .. Limit /\ Limit \in Nat /\ exec[e].permits > 0
        BY Facts, WorkflowAssumption DEF ExecType, Acquire
    <1>6. p \in 0 .. Limit
        BY <1>2, <1>5
    <1>7. p + Cardinality(Work([calls[e] EXCEPT ![i] = c])) = Limit
        <2>1. PICK s \in Seq(CallType) : s = calls[e]
            BY Facts
        <2>2. PICK t : t = [s EXCEPT ![i] = c]
            OBVIOUS
        <2>3. t \in Seq(CallType) /\ DifferAt(s, t, i) /\ t[i] = c
            BY <1>4, <2>1, <2>2, CallAt
        <2>4. Cardinality(Work(t)) = Cardinality(Work(s)) + 1
            BY <1>3, <1>4, <2>1, <2>3, WorkAdded
        <2>5. Cardinality(Work(s)) \in Nat /\ exec[e].permits + Cardinality(Work(s)) = Limit
            BY <2>1, Facts, WorkFinite
        <2>6. p + Cardinality(Work(t)) = Limit
            <3>1. PICK a, b, n : a = Cardinality(Work(s)) /\ b = Cardinality(Work(t)) /\ n = exec[e].permits
                OBVIOUS
            <3>2. n \in Nat /\ a \in Nat /\ Limit \in Nat /\ n + a = Limit /\ b = a + 1 /\ p = n - 1
                BY <1>2, <1>5, <2>4, <2>5, <3>1
            <3>3. p + b = Limit
                BY <3>2
            <3> QED BY <3>1, <3>3
        <2> QED BY <2>1, <2>2, <2>6
    <1>8. Becomes(e, i, c, p)
        BY <1>1, <1>2, <1>3, Facts DEF Acquire, Becomes
    <1>9. UNCHANGED <<events, state, files, control>> /\ exec[e].phase = "running"
        BY DEF Acquire
    <1>10. events' \in [Execs -> Seq(EventType)] /\ files' \in [Ids -> [Files -> Result \cup {NoResult}]]
        BY <1>9 DEF IInv, TypeOK
    <1> QED BY <1>3, <1>4, <1>6, <1>7, <1>8, <1>9, <1>10, CallMoves

\* A call that is given up while it waits, or while its worker works.
LEMMA LostStep ==
    ASSUME IInv, NEW e \in Execs, NEW i \in DOMAIN calls[e], NEW p,
           exec[e].phase = "running", calls[e][i].phase \in {"waiting", "working"},
           p = exec[e].permits + (IF calls[e][i].phase = "working" THEN 1 ELSE 0),
           exec' = [exec EXCEPT ![e].permits = p], calls' = [calls EXCEPT ![e][i].phase = "lost"],
           UNCHANGED <<events, state, files, control>>
    PROVE  IInv'
    <1>1. PICK c : c = [calls[e][i] EXCEPT !.phase = "lost"]
        OBVIOUS
    <1>3. calls[e][i] \in CallType /\ calls[e][i].result = NoResult
        BY Facts DEF ExecInv
    <1>4. c \in CallType /\ c.key = calls[e][i].key /\ c.phase = "lost" /\ c.result = NoResult
        BY <1>1, <1>3 DEF CallType
    <1>6. p \in 0 .. Limit /\ p + Cardinality(Work([calls[e] EXCEPT ![i] = c])) = Limit
        <2>1. CASE calls[e][i].phase = "working"
            BY <1>4, <2>1, Released
        <2>2. CASE calls[e][i].phase = "waiting"
            <3>1. PICK s \in Seq(CallType) : s = calls[e]
                BY Facts
            <3>2. PICK t : t = [s EXCEPT ![i] = c]
                OBVIOUS
            <3>3. t \in Seq(CallType) /\ DifferAt(s, t, i) /\ t[i] = c
                BY <1>4, <3>1, <3>2, CallAt
            <3>4. Work(t) = Work(s)
                BY <1>4, <2>2, <3>1, <3>3, WorkKept
            <3>5. exec[e].permits \in 0 .. Limit /\ exec[e].permits + Cardinality(Work(s)) = Limit
                BY <3>1, Facts DEF ExecType
            <3>6. p = exec[e].permits
                BY <2>2, <3>5
            <3> QED BY <3>1, <3>2, <3>4, <3>5, <3>6
        <2> QED BY <2>1, <2>2
    <1>8. Becomes(e, i, c, p)
        BY <1>1, <1>3, Facts DEF Becomes
    <1>10. events' \in [Execs -> Seq(EventType)] /\ files' \in [Ids -> [Files -> Result \cup {NoResult}]]
        BY DEF IInv, TypeOK
    <1> QED BY <1>3, <1>4, <1>6, <1>8, <1>10, CallMoves

\* A worker's answer is filed under the run's id as what it is.
LEMMA ReturnsStep ==
    ASSUME IInv, NEW e \in Execs, NEW i \in DOMAIN calls[e], NEW b \in BOOLEAN, WorkerReturns(e, i, b)
    PROVE  IInv'
    <1>1. PICK r : r = [by |-> e, index |-> i, key |-> calls[e][i].key, is_error |-> b]
        OBVIOUS
    <1>2. PICK c : c = [calls[e][i] EXCEPT !.phase = "done", !.result = r]
        OBVIOUS
    <1>3. /\ calls[e][i] \in CallType /\ calls[e][i].phase = "working" /\ exec[e].phase = "running"
          /\ exec[e].id \in Ids /\ calls[e][i].key \in Keys /\ i \in Nat
        <2>1. calls[e] \in Seq(CallType) /\ calls[e][i] \in CallType /\ i \in Nat
            BY Facts
        <2>2. exec[e].id \in Ids /\ calls[e][i].phase = "working" /\ exec[e].phase = "running"
            BY Facts DEF WorkerReturns
        <2> QED BY <2>1, <2>2 DEF CallType
    <1>4. r \in Result /\ r.by = e /\ r.index = i /\ r.key = calls[e][i].key /\ r # NoResult
        BY <1>1, <1>3, ResultIsOne DEF Result
    <1>5. c \in CallType /\ c.key = calls[e][i].key /\ c.phase = "done" /\ c.result = r
        BY <1>2, <1>3, <1>4 DEF CallType
    <1>6. PICK p : p = exec[e].permits + 1
        OBVIOUS
    <1>7. p \in 0 .. Limit /\ p + Cardinality(Work([calls[e] EXCEPT ![i] = c])) = Limit
        BY <1>3, <1>5, <1>6, Released
    <1>8. Becomes(e, i, c, p)
        BY <1>1, <1>2, <1>3, <1>6, Facts DEF WorkerReturns, Becomes
    <1>9. UNCHANGED <<state, control>>
        BY DEF WorkerReturns
    <1>10. events' \in [Execs -> Seq(EventType)] /\ \A d \in Execs \ {e} : events'[d] = events[d]
        <2>1. Event("call_completed", i) \in EventType
            BY <1>3 DEF Event, EventType
        <2>2. events' = [events EXCEPT ![e] = Append(@, Event("call_completed", i))]
            BY DEF WorkerReturns
        <2> QED BY <2>1, <2>2, Facts
    <1>11. PICK id \in Ids : id = exec[e].id
        BY <1>3
    <1>12. PICK f \in Files : f = File[r.key]
        BY <1>3, <1>4, WorkflowAssumption
    <1>13. files' = [files EXCEPT ![id][f] = r]
        BY <1>1, <1>11, <1>12 DEF WorkerReturns
    <1>14. files \in [Ids -> [Files -> Result \cup {NoResult}]]
        BY DEF IInv, TypeOK
    <1>15. files' \in [Ids -> [Files -> Result \cup {NoResult}]]
        BY <1>4, <1>13, <1>14
    <1>16. /\ \A d \in Ids \ {id} : files'[d] = files[d]
           /\ files'[id][f] = r /\ \A g \in Files \ {f} : files'[id][g] = files[id][g]
        BY <1>13, <1>14
    <1>17. ASSUME Keeps PROVE FileInv(id)'
        <2>1. Genuine(r, id)'
            <3>1. calls'[e] = [calls[e] EXCEPT ![i] = c] /\ exec'[e].id = id
                BY <1>8, <1>11, Facts DEF Becomes
            <3>2. i \in DOMAIN calls'[e] /\ calls'[e][i].result = r
                BY <1>5, <3>1, Facts
            <3> QED BY <1>4, <3>1, <3>2 DEF Genuine
        <2>2. \A g \in Files \ {f} : files[id][g] # NoResult => Genuine(files[id][g], id)
            BY DEF IInv, FileInv
        <2>3. \A q : Genuine(q, id) => Genuine(q, id)'
            BY <1>17, GenuineKept
        <2>4. ASSUME NEW g \in Files, NEW q, q = files'[id][g], q # NoResult PROVE Genuine(q, id)'
            BY <1>16, <2>1, <2>2, <2>3, <2>4
        <2> QED BY <2>4 DEF FileInv, NoResult
    <1>18. \A d \in Ids : files'[d] = files[d] \/ (Keeps => FileInv(d)')
        BY <1>16, <1>17
    <1> QED BY <1>3, <1>4, <1>5, <1>7, <1>8, <1>9, <1>10, <1>15, <1>18, CallMoves

\* The cache of a resumed run holds what the files of its source hold, all of it genuine.
LEMMA CacheIsGenuine ==
    ASSUME IInv, NEW from \in Ids \cup {None}, NEW r \in ResumeCache(from)
    PROVE  r \in Result /\ Genuine(r, from)
    <1>1. from \in Ids
        BY DEF ResumeCache
    <1>2. PICK q : /\ r = files[from][File[q.key]] /\ files[from][File[q.key]] # NoResult
                   /\ q \in {state[from].results[i] : i \in DOMAIN state[from].results}
        BY <1>1, WorkflowAssumption DEF ResumeCache
    <1>3. q \in Result
        BY <1>1, <1>2 DEF IInv, TypeOK
    <1>4. File[q.key] \in Files
        BY <1>3, WorkflowAssumption DEF Result
    <1>5. Genuine(r, from)
        BY <1>1, <1>2, <1>4 DEF IInv, FileInv
    <1> QED BY <1>5 DEF Genuine

\* An execution starts with no call, so its cache is all it may reuse.
LEMMA BeginStep ==
    ASSUME IInv, NEW e \in Execs, Begin(e)
    PROVE  IInv'
    <1>1. PICK g : g = ResumeCache(exec[e].from)
        OBVIOUS
    <1>2. PICK id : id = exec[e].from
        OBVIOUS
    <1>3. id \in Ids \cup {None} /\ exec[e].phase = "queued" /\ calls[e] = <<>>
        BY <1>2, Facts DEF ExecType, Begin, ExecInv
    <1>4. g \in SUBSET Result /\ \A r \in g : Genuine(r, id)
        BY <1>1, <1>2, <1>3, CacheIsGenuine
    <1>5. [exec[e] EXCEPT !.phase = "running", !.cached = g] \in ExecType
        BY <1>4, Facts DEF ExecType
    <1>6. /\ exec' \in [Execs -> ExecType] /\ \A d \in Execs \ {e} : exec'[d] = exec[d]
          /\ exec'[e] = [exec[e] EXCEPT !.phase = "running", !.cached = g]
          /\ UNCHANGED <<calls, events, state, files, control>>
        BY <1>1, <1>5, Facts DEF Begin
    <1>7. /\ exec'[e].id = exec[e].id /\ exec'[e].from = id /\ exec'[e].phase = "running"
          /\ exec'[e].permits = exec[e].permits /\ exec'[e].cached = g
        BY <1>2, <1>6, Facts DEF ExecType
    <1>8. Others(e) /\ GoesOn(e)
        BY <1>2, <1>3, <1>6, <1>7 DEF Others, GoesOn, Open
    <1>9. Keeps
        BY <1>6, <1>7 DEF Keeps
    <1>10. ExecInv(e)'
        <2>1. ExecInv(e)
            BY Facts
        <2>2. Working(e)' = Working(e)
            BY <1>6 DEF Working
        <2> QED BY <1>6, <1>7, <2>1, <2>2 DEF ExecInv, NoResult
    <1>11. ReuseInv(e)'
        <2>1. \A r \in exec'[e].cached : Genuine(r, id)'
            BY <1>4, <1>7, <1>9, GenuineKept
        <2>2. DOMAIN calls'[e] = {}
            BY <1>3, <1>6
        <2> QED BY <1>7, <2>1, <2>2 DEF ReuseInv
    <1>12. \A d \in Ids : FileInv(d)'
        BY <1>6, <1>9, FileKept DEF IInv
    <1>13. /\ calls' \in [Execs -> Seq(CallType)] /\ events' \in [Execs -> Seq(EventType)]
           /\ files' \in [Ids -> [Files -> Result \cup {NoResult}]] /\ Len(calls'[e]) <= MaxCalls[e]
        BY <1>6, Facts DEF TypeOK
    <1> QED BY <1>6, <1>8, <1>9, <1>10, <1>11, <1>12, <1>13, Gather

\* A call that is asked for waits, or is answered from the cache.
LEMMA Asked ==
    ASSUME IInv, NEW e \in Execs, exec[e].phase = "running", Len(calls[e]) < MaxCalls[e],
           NEW c \in CallType, NEW v \in EventType,
           \/ c.phase = "waiting" /\ c.result = NoResult
           \/ c.phase = "done" /\ c.result \in exec[e].cached /\ c.result.key = c.key,
           calls' = [calls EXCEPT ![e] = Append(@, c)], events' = [events EXCEPT ![e] = Append(@, v)],
           UNCHANGED <<exec, state, files, control>>
    PROVE  IInv'
    <1>1. PICK s \in Seq(CallType) : s = calls[e]
        BY Facts
    <1>2. PICK t : t = Append(s, c)
        OBVIOUS
    <1>3. c.phase # "working"
        OBVIOUS
    <1>4. /\ Work(t) = Work(s) /\ t \in Seq(CallType) /\ Len(t) = Len(s) + 1 /\ Len(s) \in Nat
          /\ DOMAIN s = 1 .. Len(s) /\ DOMAIN t = 1 .. Len(s) + 1
          /\ (\A i \in DOMAIN s : t[i] = s[i]) /\ t[Len(s) + 1] = c
        BY <1>2, <1>3, WorkAppended
    <1>5. \A i \in DOMAIN t : (i \in DOMAIN s /\ t[i] = s[i]) \/ t[i] = c
        BY <1>4
    <1>6. \A i \in DOMAIN s : i \in DOMAIN t /\ t[i] = s[i]
        BY <1>4
    <1>7. calls' \in [Execs -> Seq(CallType)] /\ calls'[e] = t /\ \A d \in Execs \ {e} : calls'[d] = calls[d]
        BY <1>1, <1>2, <1>4, Facts
    <1>8. events' \in [Execs -> Seq(EventType)] /\ \A d \in Execs \ {e} : events'[d] = events[d]
        BY Facts
    <1>9. Others(e) /\ GoesOn(e)
        BY <1>7, <1>8 DEF Others, GoesOn, Open
    <1>10. Keeps
        BY <1>1, <1>6, <1>7 DEF Keeps
    <1>11. ExecInv(e)'
        <2>1. Working(e)' = Working(e)
            BY <1>1, <1>4, <1>7 DEF Work, Working
        <2>2. \A j \in DOMAIN s : s[j].phase # "done" => s[j].result = NoResult
            BY <1>1, Facts DEF ExecInv
        <2>3. \A j \in DOMAIN t : t[j].phase # "done" => t[j].result = NoResult
            BY <1>5, <2>2
        <2>4. exec[e].permits + Cardinality(Working(e)) = Limit
            BY Facts DEF ExecInv
        <2> QED BY <1>7, <2>1, <2>3, <2>4 DEF ExecInv, NoResult
    <1>12. \A j \in DOMAIN calls'[e] : Answered(e, j)
        BY <1>1, <1>5, <1>7 DEF Answered
    <1>13. ReuseInv(e)'
        BY <1>10, <1>12, Facts, ReuseKept
    <1>14. Len(calls'[e]) <= MaxCalls[e]
        BY <1>1, <1>4, <1>7, Facts
    <1>15. \A id \in Ids : FileInv(id)'
        BY <1>10, FileKept DEF IInv
    <1>16. exec' \in [Execs -> ExecType] /\ files' \in [Ids -> [Files -> Result \cup {NoResult}]]
        BY DEF IInv, TypeOK
    <1> QED BY <1>7, <1>8, <1>9, <1>10, <1>11, <1>13, <1>14, <1>15, <1>16, Gather

\* agent() in a script.
LEMMA AgentCallStep ==
    ASSUME IInv, NEW e \in Execs, NEW k \in Keys, AgentCall(e, k)
    PROVE  IInv'
    <1>1. PICK i : i = Len(calls[e]) + 1
        OBVIOUS
    <1>2. i \in Nat
        BY <1>1, Facts
    <1>3. exec[e].phase = "running" /\ Len(calls[e]) < MaxCalls[e] /\ UNCHANGED <<exec, state, files, control>>
        BY DEF AgentCall
    <1>4. ASSUME NEW w \in {"call_started", "call_completed"} PROVE Event(w, i) \in EventType
        BY <1>2 DEF Event, EventType
    <1>5. CASE /\ calls' = [calls EXCEPT ![e] = Append(@, [key |-> k, phase |-> "waiting", result |-> NoResult])]
               /\ events' = [events EXCEPT ![e] = Append(@, Event("call_started", i))]
        <2>1. PICK c : c = [key |-> k, phase |-> "waiting", result |-> NoResult]
            OBVIOUS
        <2>2. c \in CallType /\ c.phase = "waiting" /\ c.result = NoResult
            BY <2>1 DEF CallType
        <2>3. PICK v \in EventType : v = Event("call_started", i)
            BY <1>4
        <2>4. calls' = [calls EXCEPT ![e] = Append(@, c)] /\ events' = [events EXCEPT ![e] = Append(@, v)]
            BY <1>5, <2>1, <2>3
        <2> QED BY <1>3, <2>2, <2>4, Asked
    <1>6. ASSUME NEW r \in exec[e].cached, r.key = k,
                 calls' = [calls EXCEPT ![e] = Append(@, [key |-> k, phase |-> "done", result |-> r])],
                 events' = [events EXCEPT ![e] = Append(@, Event("call_completed", i))]
          PROVE  IInv'
        <2>1. PICK c : c = [key |-> k, phase |-> "done", result |-> r]
            OBVIOUS
        <2>2. r \in Result
            BY Facts DEF ExecType
        <2>3. c \in CallType /\ c.phase = "done" /\ c.result \in exec[e].cached /\ c.result.key = c.key
            BY <1>6, <2>1, <2>2 DEF CallType
        <2>4. PICK v \in EventType : v = Event("call_completed", i)
            BY <1>4
        <2>5. calls' = [calls EXCEPT ![e] = Append(@, c)] /\ events' = [events EXCEPT ![e] = Append(@, v)]
            BY <1>6, <2>1, <2>4
        <2> QED BY <1>3, <2>3, <2>5, Asked
    <1> QED BY <1>1, <1>5, <1>6 DEF AgentCall

\* A cancelled token is seen by the calls; it changes nothing else.
LEMMA CancelStep ==
    ASSUME IInv, NEW id \in Ids, Cancel(id)
    PROVE  IInv'
    <1>1. PICK e \in Execs : e = control[id]
        BY WorkflowAssumption DEF IInv, TypeOK, Execs, Cancel
    <1>2. exec[e].phase # "new"
        BY <1>1, WorkflowAssumption DEF IInv, StateInv, Execs
    <1>3. [exec[e] EXCEPT !.cancelled = TRUE] \in ExecType
        BY Facts DEF ExecType
    <1>4. /\ exec' \in [Execs -> ExecType] /\ \A d \in Execs \ {e} : exec'[d] = exec[d]
          /\ exec'[e] = [exec[e] EXCEPT !.cancelled = TRUE]
          /\ UNCHANGED <<calls, events, state, files, control>>
        BY <1>1, <1>3, Facts DEF Cancel
    <1>5. /\ exec'[e].id = exec[e].id /\ exec'[e].from = exec[e].from /\ exec'[e].phase = exec[e].phase
          /\ exec'[e].permits = exec[e].permits /\ exec'[e].cached = exec[e].cached
        BY <1>4, Facts DEF ExecType
    <1>6. Others(e) /\ GoesOn(e)
        BY <1>2, <1>4, <1>5 DEF Others, GoesOn, Open
    <1>7. Keeps
        BY <1>4, <1>5 DEF Keeps
    <1>8. ExecInv(e)'
        <2>1. ExecInv(e)
            BY Facts
        <2> QED BY <1>4, <1>5, <2>1 DEF ExecInv, Working, NoResult
    <1>9. ReuseInv(e)'
        <2>1. \A j \in DOMAIN calls'[e] : Answered(e, j)
            BY <1>4 DEF Answered
        <2> QED BY <1>5, <1>7, <2>1, Facts, ReuseKept
    <1>10. \A d \in Ids : FileInv(d)'
        BY <1>4, <1>7, FileKept DEF IInv
    <1>11. /\ calls' \in [Execs -> Seq(CallType)] /\ events' \in [Execs -> Seq(EventType)]
           /\ files' \in [Ids -> [Files -> Result \cup {NoResult}]] /\ Len(calls'[e]) <= MaxCalls[e]
        BY <1>4, Facts DEF TypeOK
    <1> QED BY <1>4, <1>6, <1>7, <1>8, <1>9, <1>10, <1>11, Gather

\* What the invariant says of the records, as far as types go.
RecordOK(x) ==
    /\ x = [status |-> x.status, results |-> x.results]
    /\ x.status \in Status \cup {"none"} /\ DOMAIN x.results \subseteq Nat
    /\ \A i \in DOMAIN x.results : x.results[i] \in Result

\* Every record stays well formed when one is replaced by a well-formed one.
LEMMA RecordKept ==
    ASSUME IInv, NEW id \in Ids, NEW x, RecordOK(x), state' = [state EXCEPT ![id] = x]
    PROVE  DOMAIN state' = Ids /\ \A d \in Ids : RecordOK(state'[d])
    BY DEF IInv, TypeOK, RecordOK

\* The record of the end of another execution of the id stays such a record.
LEMMA EndedKept ==
    ASSUME NEW d \in Execs, NEW id \in Ids, exec'[d] = exec[d], calls'[d] = calls[d], events'[d] = events[d],
           state'[id] = state[id], exec[d].id = id, exec[d].phase = "ended", state[id].results = Results(d),
           events[d][Len(events[d])].what = state[id].status
    PROVE  /\ exec'[d].id = id /\ exec'[d].phase = "ended" /\ state'[id].results = Results(d)'
           /\ events'[d][Len(events'[d])].what = state'[id].status
    <1>1. Results(d)' = Results(d)
        BY DEF Results, NoResult
    <1> QED BY <1>1

\* The record of an id stays that of one of its executions while none of them takes a step.
LEMMA StateOfOtherId ==
    ASSUME TypeOK, NEW e \in Execs, Others(e), NEW id \in Ids, StateInv(id), exec[e].id # id \/ exec[e].phase = "new",
           state'[id] = state[id]
    PROVE  OneExecution(id)' /\ (control[id] # 0 => control[id] \in Execs /\ exec'[control[id]] = exec[control[id]])
    <1>1. control[id] # 0 => control[id] \in Execs \ {e}
        BY WorkflowAssumption DEF TypeOK, Execs, StateInv
    <1>2. control[id] # 0 => control[id] \in Execs /\ exec'[control[id]] = exec[control[id]]
        BY <1>1 DEF Others
    <1>3. state[id] = NoRun => OneExecution(id)'
        BY DEF OneExecution, NoRun
    <1>4. ASSUME NEW d \in Execs, exec[d].id = id, Open(d), state[id] = Running
          PROVE  OneExecution(id)'
        <2>1. exec'[d] = exec[d]
            BY <1>4 DEF Others, Open
        <2> QED BY <1>4, <2>1 DEF OneExecution, Running, Open
    <1>5. ASSUME NEW d \in Execs, exec[d].id = id, exec[d].phase = "ended", state[id].results = Results(d),
                 events[d][Len(events[d])].what = state[id].status
          PROVE  OneExecution(id)'
        <2>1. exec'[d] = exec[d] /\ calls'[d] = calls[d] /\ events'[d] = events[d]
            BY <1>5 DEF Others
        <2>2. /\ exec'[d].id = id /\ exec'[d].phase = "ended" /\ state'[id].results = Results(d)'
              /\ events'[d][Len(events'[d])].what = state'[id].status
            BY <1>5, <2>1, EndedKept
        <2> QED BY <2>2 DEF OneExecution
    <1>6. OneExecution(id)
        BY DEF StateInv
    <1>7. OneExecution(id)'
        BY <1>3, <1>4, <1>5, <1>6 DEF OneExecution
    <1> QED BY <1>2, <1>7

\* The invariant from its parts, when the records or the controls change.
LEMMA GatherRecord ==
    ASSUME IInv, NEW e \in Execs, Others(e), Keeps, DOMAIN state' = Ids, \A d \in Ids : RecordOK(state'[d]),
           UNCHANGED files, control' \in [Ids -> 0 .. N],
           exec' \in [Execs -> ExecType], calls' \in [Execs -> Seq(CallType)], events' \in [Execs -> Seq(EventType)],
           exec'[e].id \in Ids, Len(calls'[e]) <= MaxCalls[e], ExecInv(e)', ReuseInv(e)', \A d \in Ids : StateInv(d)'
    PROVE  IInv'
    <1>1. \A d \in Execs \ {e} : ExecInv(d)' /\ ReuseInv(d)'
        BY OthersKeep DEF IInv
    <1>2. \A d \in Ids : FileInv(d)'
        BY FileKept DEF IInv
    <1>3. \A d \in Execs : exec'[d].phase # "new" => exec'[d].id \in Ids
        BY DEF IInv, TypeOK, Others
    <1>4. \A d \in Execs : Len(calls'[d]) <= MaxCalls[d]
        BY DEF IInv, TypeOK, Others
    <1>5. files' \in [Ids -> [Files -> Result \cup {NoResult}]]
        BY DEF IInv, TypeOK
    <1>7. TypeOK'
        BY <1>3, <1>4, <1>5 DEF TypeOK, RecordOK, ExecType, CallType, EventType, Result, NoResult
    <1> QED BY <1>1, <1>2, <1>7 DEF IInv

\* A new execution overwrites the record of its id.
LEMMA SaveStep ==
    ASSUME IInv, NEW e \in Execs, NEW o \in Options[e], Save(e, o[1], o[2])
    PROVE  IInv'
    <1>1. PICK id \in Ids, from \in Ids \cup {None} : id = o[1] /\ from = o[2]
        BY WorkflowAssumption
    <1>2. exec[e].phase = "new" /\ calls[e] = <<>> /\ exec[e].cached = {} /\ UNCHANGED <<calls, events, files, control>>
        BY Facts DEF Save, ExecInv
    <1>3. [exec[e] EXCEPT !.id = id, !.from = from, !.phase = "saved"] \in ExecType
        BY Facts DEF ExecType
    <1>4. /\ exec' \in [Execs -> ExecType] /\ \A d \in Execs \ {e} : exec'[d] = exec[d]
          /\ exec'[e] = [exec[e] EXCEPT !.id = id, !.from = from, !.phase = "saved"]
        BY <1>1, <1>3, Facts DEF Save
    <1>5. /\ exec'[e].id = id /\ exec'[e].from = from /\ exec'[e].phase = "saved"
          /\ exec'[e].permits = exec[e].permits /\ exec'[e].cached = {}
        BY <1>2, <1>4, Facts DEF ExecType
    <1>6. events' \in [Execs -> Seq(EventType)] /\ calls' \in [Execs -> Seq(CallType)] /\ Len(calls'[e]) <= MaxCalls[e]
        BY <1>2, Facts
    <1>7. Others(e)
        BY <1>2, <1>4 DEF Others
    <1>8. Keeps
        <2>1. DOMAIN calls[e] = {}
            BY <1>2
        <2> QED BY <1>2, <1>4, <2>1 DEF Keeps
    <1>9. RecordOK(Running) /\ state' = [state EXCEPT ![id] = Running]
        BY <1>1 DEF RecordOK, Status, Save, Running
    <1>10. control' = control /\ control' \in [Ids -> 0 .. N] /\ DOMAIN state = Ids
        BY <1>2 DEF IInv, TypeOK
    <1>11. ExecInv(e)'
        <2>1. exec[e].permits + Cardinality(Working(e)) = Limit
            BY Facts DEF ExecInv
        <2>2. Working(e)' = Working(e)
            BY <1>2 DEF Working
        <2>3. DOMAIN calls'[e] = {} /\ calls'[e] = <<>>
            BY <1>2
        <2> QED BY <1>5, <2>1, <2>2, <2>3 DEF ExecInv
    <1>12. ReuseInv(e)'
        <2>1. DOMAIN calls'[e] = {}
            BY <1>2
        <2> QED BY <1>5, <2>1 DEF ReuseInv
    <1>13. ASSUME NEW d \in Ids PROVE StateInv(d)'
        <2>1. StateInv(d) /\ control'[d] = control[d]
            BY <1>10 DEF IInv
        <2>2. PICK c : c = control[d]
            OBVIOUS
        <2>3. c # 0 => c \in Execs \ {e} /\ exec[c].id = d /\ exec[c].phase # "new"
            BY <1>2, <1>10, <2>1, <2>2, WorkflowAssumption DEF StateInv, Execs
        <2>4. c # 0 => exec'[c].id = d /\ exec'[c].phase # "new"
            BY <1>4, <2>3
        <2>5. OneExecution(d)'
            <3>1. CASE d = id
                <4>1. state'[d] = Running /\ exec'[e].id = d /\ Open(e)'
                    BY <1>5, <1>9, <1>10, <3>1 DEF Open
                <4> QED BY <4>1 DEF OneExecution, Running
            <3>2. CASE d # id
                <4>1. state'[d] = state[d]
                    BY <1>9, <1>10, <3>2
                <4> QED BY <1>2, <1>7, <2>1, <4>1, Facts, StateOfOtherId
            <3> QED BY <3>1, <3>2
        <2> QED BY <2>1, <2>2, <2>4, <2>5 DEF StateInv
    <1>14. \A d \in Ids : StateInv(d)'
        BY <1>13
    <1>15. DOMAIN state' = Ids /\ \A d \in Ids : RecordOK(state'[d])
        BY <1>9, RecordKept
    <1> QED BY <1>2, <1>4, <1>5, <1>6, <1>7, <1>8, <1>10, <1>11, <1>12, <1>14, <1>15, GatherRecord

\* The control of its id becomes that of the new execution, which another may have overtaken.
LEMMA RegisterStep ==
    ASSUME IInv, NEW e \in Execs, Register(e)
    PROVE  IInv'
    <1>1. PICK id : id = exec[e].id
        OBVIOUS
    <1>2. /\ exec[e].phase = "saved" /\ id \in Ids /\ calls[e] = <<>> /\ exec[e].cached = {}
          /\ UNCHANGED <<calls, state, files>>
        BY <1>1, Facts DEF Register, ExecInv
    <1>3. [exec[e] EXCEPT !.phase = "queued"] \in ExecType
        BY Facts DEF ExecType
    <1>4. /\ exec' \in [Execs -> ExecType] /\ \A d \in Execs \ {e} : exec'[d] = exec[d]
          /\ exec'[e] = [exec[e] EXCEPT !.phase = "queued"]
        BY <1>3, Facts DEF Register
    <1>5. /\ exec'[e].id = id /\ exec'[e].from = exec[e].from /\ exec'[e].phase = "queued"
          /\ exec'[e].permits = exec[e].permits /\ exec'[e].cached = {}
        BY <1>1, <1>2, <1>4, Facts DEF ExecType
    <1>6. events' \in [Execs -> Seq(EventType)] /\ \A d \in Execs \ {e} : events'[d] = events[d]
        <2>1. Event("run_started", 0) \in EventType
            BY DEF Event, EventType
        <2>2. <<Event("run_started", 0)>> \in Seq(EventType)
            BY <2>1
        <2> QED BY <2>2, Facts DEF Register
    <1>7. Others(e) /\ GoesOn(e)
        BY <1>1, <1>2, <1>4, <1>5, <1>6 DEF Others, GoesOn, Open
    <1>8. Keeps
        BY <1>1, <1>2, <1>4, <1>5 DEF Keeps
    <1>9. control' = [control EXCEPT ![id] = e]
        BY <1>1 DEF Register
    <1>10. control \in [Ids -> 0 .. N] /\ e \in 0 .. N /\ DOMAIN state = Ids /\ \A d \in Ids : RecordOK(state[d])
        BY WorkflowAssumption DEF IInv, TypeOK, Execs, RecordOK
    <1>11. control' \in [Ids -> 0 .. N] /\ control'[id] = e /\ \A d \in Ids \ {id} : control'[d] = control[d]
        BY <1>2, <1>9, <1>10
    <1>12. ExecInv(e)'
        <2>1. exec[e].permits + Cardinality(Working(e)) = Limit
            BY Facts DEF ExecInv
        <2>2. Working(e)' = Working(e)
            BY <1>2 DEF Working
        <2>3. DOMAIN calls'[e] = {} /\ calls'[e] = <<>>
            BY <1>2
        <2> QED BY <1>5, <2>1, <2>2, <2>3 DEF ExecInv
    <1>13. ReuseInv(e)'
        <2>1. DOMAIN calls'[e] = {}
            BY <1>2
        <2> QED BY <1>5, <2>1 DEF ReuseInv
    <1>14. StateInv(id)'
        <2>1. CASE state[id] = NoRun
            BY <1>2, <1>5, <1>11, <2>1 DEF StateInv, OneExecution, NoRun
        <2>2. CASE state[id] = Running
            <3>1. Open(e)'
                BY <1>5 DEF Open
            <3> QED BY <1>2, <1>5, <1>11, <2>2, <3>1 DEF StateInv, OneExecution, Running
        <2>3. ASSUME NEW d \in Execs, exec[d].id = id, exec[d].phase = "ended", state[id].results = Results(d),
                     events[d][Len(events[d])].what = state[id].status
              PROVE  StateInv(id)'
            <3>1. d # e /\ state'[id] = state[id]
                BY <1>2, <2>3
            <3>2. exec'[d] = exec[d] /\ calls'[d] = calls[d] /\ events'[d] = events[d]
                BY <1>7, <3>1 DEF Others
            <3>3. /\ exec'[d].id = id /\ exec'[d].phase = "ended" /\ state'[id].results = Results(d)'
                  /\ events'[d][Len(events'[d])].what = state'[id].status
                BY <1>2, <2>3, <3>1, <3>2, EndedKept
            <3> QED BY <1>5, <1>11, <3>3 DEF StateInv, OneExecution
        <2>4. StateInv(id)
            BY <1>2 DEF IInv
        <2> QED BY <2>1, <2>2, <2>3, <2>4 DEF StateInv, OneExecution
    <1>15. ASSUME NEW d \in Ids \ {id} PROVE StateInv(d)'
        BY <1>2, <1>7, <1>11, Facts, StateKept DEF IInv
    <1>16. \A d \in Ids : StateInv(d)'
        BY <1>14, <1>15
    <1>17. calls' \in [Execs -> Seq(CallType)] /\ Len(calls'[e]) <= MaxCalls[e]
        BY <1>2, Facts
    <1>19. DOMAIN state' = Ids /\ \A d \in Ids : RecordOK(state'[d])
        BY <1>2, <1>10
    <1>20. exec'[e].id \in Ids /\ UNCHANGED files
        BY <1>2, <1>5
    <1> QED BY <1>2, <1>4, <1>6, <1>7, <1>8, <1>11, <1>12, <1>13, <1>16, <1>17, <1>19, <1>20, GatherRecord

\* The calls of a run that ends: none is under way and every result stays.
LEMMA Dropped ==
    ASSUME IInv, NEW e \in Execs, calls' = DropCalls(e)
    PROVE  /\ calls' \in [Execs -> Seq(CallType)] /\ \A d \in Execs \ {e} : calls'[d] = calls[d]
           /\ Len(calls'[e]) = Len(calls[e]) /\ DOMAIN calls'[e] = DOMAIN calls[e]
           /\ \A i \in DOMAIN calls[e] : /\ calls'[e][i].phase \in {"done", "lost"}
                                         /\ calls'[e][i].phase = "done" <=> calls[e][i].phase = "done"
                                         /\ calls'[e][i].key = calls[e][i].key
                                         /\ calls'[e][i].result = calls[e][i].result
    <1> DEFINE Over(c) == IF c.phase \in {"waiting", "working"} THEN [c EXCEPT !.phase = "lost"] ELSE c
    <1>1. \A c \in CallType : /\ Over(c) \in CallType /\ Over(c).phase \in {"done", "lost"}
                              /\ Over(c).phase = "done" <=> c.phase = "done"
                              /\ Over(c).key = c.key /\ Over(c).result = c.result
        BY DEF CallType
    <1>2. PICK s \in Seq(CallType) : s = calls[e]
        BY Facts
    <1>3. PICK t : t = [i \in DOMAIN s |-> Over(s[i])]
        OBVIOUS
    <1>4. calls' = [calls EXCEPT ![e] = t]
        BY <1>2, <1>3, Facts DEF DropCalls
    <1> HIDE DEF Over
    <1>5. DOMAIN s = 1 .. Len(s) /\ Len(s) \in Nat /\ \A i \in DOMAIN s : s[i] \in CallType
        OBVIOUS
    <1>6. t \in Seq(CallType) /\ Len(t) = Len(s) /\ DOMAIN t = DOMAIN s
        BY <1>1, <1>3, <1>5
    <1>7. \A i \in DOMAIN s : /\ t[i].phase \in {"done", "lost"} /\ (t[i].phase = "done" <=> s[i].phase = "done")
                              /\ t[i].key = s[i].key /\ t[i].result = s[i].result
        BY <1>1, <1>3, <1>5
    <1>8. calls' \in [Execs -> Seq(CallType)] /\ calls'[e] = t /\ \A d \in Execs \ {e} : calls'[d] = calls[d]
        BY <1>4, <1>6, Facts
    <1> QED BY <1>2, <1>6, <1>7, <1>8

\* The status a run ends with.
LEMMA FinalStatusType ==
    ASSUME NEW e \in Execs, NEW ok \in BOOLEAN
    PROVE  FinalStatus(e, ok) \in Status
    BY DEF FinalStatus, Status

\* A run that ends writes the record of its id from its own results and events, or leaves it open.
LEMMA EndStep ==
    ASSUME IInv, NEW e \in Execs, NEW ok \in BOOLEAN, End(e, ok)
    PROVE  IInv'
    <1>1. PICK id : id = exec[e].id
        OBVIOUS
    <1>2. exec[e].phase = "running" /\ id \in Ids /\ UNCHANGED <<files, control>> /\ calls' = DropCalls(e)
        BY <1>1, Facts DEF End
    <1> PICK ph \in {"ended", "unrecorded"} :
                /\ exec' = [exec EXCEPT ![e].phase = ph, ![e].permits = Limit]
                /\ ph = "ended" => state' = [state EXCEPT ![exec[e].id] = [status |-> FinalStatus(e, ok), results |-> Results(e)]]
                /\ ph = "unrecorded" => UNCHANGED state
        BY DEF End
    <1>3. [exec[e] EXCEPT !.phase = ph, !.permits = Limit] \in ExecType
        <2>1. Limit \in 0 .. Limit
            BY WorkflowAssumption
        <2> QED BY <2>1, Facts DEF ExecType
    <1>4. /\ exec' \in [Execs -> ExecType] /\ \A d \in Execs \ {e} : exec'[d] = exec[d]
          /\ exec'[e] = [exec[e] EXCEPT !.phase = ph, !.permits = Limit]
        BY <1>3, Facts
    <1>5. /\ exec'[e].id = id /\ exec'[e].from = exec[e].from /\ exec'[e].phase = ph
          /\ exec'[e].permits = Limit /\ exec'[e].cached = exec[e].cached
        BY <1>1, <1>4, Facts DEF ExecType
    <1>6. /\ calls' \in [Execs -> Seq(CallType)] /\ \A d \in Execs \ {e} : calls'[d] = calls[d]
          /\ Len(calls'[e]) = Len(calls[e]) /\ DOMAIN calls'[e] = DOMAIN calls[e]
          /\ \A i \in DOMAIN calls[e] : /\ calls'[e][i].phase \in {"done", "lost"}
                                        /\ calls'[e][i].phase = "done" <=> calls[e][i].phase = "done"
                                        /\ calls'[e][i].key = calls[e][i].key
                                        /\ calls'[e][i].result = calls[e][i].result
        BY <1>2, Dropped
    <1>7. PICK st \in Status : st = FinalStatus(e, ok)
        BY FinalStatusType
    <1>8. PICK v \in EventType : v = Event(st, 0) /\ v.what = st
        <2>1. Event(st, 0) \in EventType /\ Event(st, 0).what = st
            BY DEF Event, EventType
        <2> QED BY <2>1
    <1>9. events' = [events EXCEPT ![e] = Append(@, v)]
        BY <1>7, <1>8 DEF End
    <1>10. /\ events' \in [Execs -> Seq(EventType)] /\ \A d \in Execs \ {e} : events'[d] = events[d]
           /\ events'[e][Len(events'[e])].what = st
        <2>1. PICK s \in Seq(EventType) : s = events[e]
            BY Facts
        <2>2. Append(s, v) \in Seq(EventType) /\ Append(s, v)[Len(Append(s, v))] = v
            OBVIOUS
        <2>3. /\ events' \in [Execs -> Seq(EventType)] /\ \A d \in Execs \ {e} : events'[d] = events[d]
              /\ events'[e] = Append(s, v)
            BY <1>9, <2>1, <2>2, Facts
        <2> QED BY <1>8, <2>2, <2>3
    <1>11. Others(e)
        BY <1>4, <1>6, <1>10 DEF Others
    <1>12. Keeps
        BY <1>1, <1>4, <1>5, <1>6 DEF Keeps
    <1>13. PICK x : x = [status |-> st, results |-> Results(e)]
        OBVIOUS
    <1>14. x.status = st /\ x.results = Results(e) /\ (ph = "ended" => state' = [state EXCEPT ![id] = x])
        BY <1>1, <1>7, <1>13
    <1>15. RecordOK(x)
        <2>1. DOMAIN Results(e) \subseteq DOMAIN calls[e] /\ \A i \in DOMAIN Results(e) : Results(e)[i] \in Result
            <3>1. \A i \in DOMAIN calls[e] : calls[e][i].result \in Result \cup {NoResult}
                <4>1. \A i \in DOMAIN calls[e] : calls[e][i] \in CallType
                    BY Facts
                <4> QED BY <4>1 DEF CallType
            <3> QED BY <3>1 DEF Results
        <2>2. DOMAIN calls[e] \subseteq Nat
            BY Facts
        <2> QED BY <1>13, <1>14, <2>1, <2>2 DEF RecordOK
    <1>16. ExecInv(e)'
        <2>1. Working(e)' = {}
            BY <1>6 DEF Working
        <2>2. Limit + Cardinality({}) = Limit
            BY WorkflowAssumption, FS_EmptySet
        <2>3. \A i \in DOMAIN calls[e] : calls[e][i].phase # "done" => calls[e][i].result = NoResult
            BY Facts DEF ExecInv
        <2>4. \A i \in DOMAIN calls'[e] : calls'[e][i].phase # "done" => calls'[e][i].result = NoResult
            BY <1>6, <2>3
        <2> QED BY <1>5, <1>6, <2>1, <2>2, <2>4 DEF ExecInv, NoResult
    <1>17. ReuseInv(e)'
        <2>1. \A i \in DOMAIN calls'[e] : Answered(e, i)
            BY <1>6 DEF Answered
        <2> QED BY <1>5, <1>12, <2>1, Facts, ReuseKept
    <1>18. DOMAIN state = Ids /\ control' = control /\ control \in [Ids -> 0 .. N]
        BY <1>2 DEF IInv, TypeOK
    <1>19. ASSUME ph = "ended" PROVE StateInv(id)'
        <2>1. Results(e)' = Results(e)
            BY <1>6 DEF Results, NoResult
        <2>2. state'[id] = x
            BY <1>2, <1>14, <1>18, <1>19
        <2>3. PICK c : c = control[id]
            OBVIOUS
        <2>4. c # 0 => c \in Execs /\ exec[c].id = id /\ exec[c].phase # "new"
            BY <1>2, <1>18, <2>3, WorkflowAssumption DEF IInv, StateInv, Execs
        <2>5. c # 0 => exec'[c].id = id /\ exec'[c].phase # "new"
            BY <1>4, <1>5, <2>4
        <2> QED BY <1>5, <1>10, <1>14, <1>18, <1>19, <2>1, <2>2, <2>3, <2>5 DEF StateInv, OneExecution
    <1>20. ASSUME ph = "ended", NEW d \in Ids \ {id} PROVE StateInv(d)'
        <2>1. state'[d] = state[d] /\ control'[d] = control[d] /\ StateInv(d)
            BY <1>14, <1>18, <1>20 DEF IInv
        <2>2. OneExecution(d)' /\ (control[d] # 0 => control[d] \in Execs /\ exec'[control[d]] = exec[control[d]])
            BY <1>1, <1>11, <2>1, Facts, StateOfOtherId
        <2> QED BY <2>1, <2>2 DEF StateInv
    <1>21. Len(calls'[e]) <= MaxCalls[e] /\ control' \in [Ids -> 0 .. N] /\ exec'[e].id \in Ids
        BY <1>2, <1>5, <1>6, <1>18, Facts
    <1>22. CASE ph = "ended"
        <2>1. \A d \in Ids : StateInv(d)'
            BY <1>19, <1>20, <1>22
        <2>2. DOMAIN state' = Ids /\ \A d \in Ids : RecordOK(state'[d])
            BY <1>2, <1>14, <1>15, <1>22, RecordKept
        <2> QED BY <1>2, <1>4, <1>6, <1>10, <1>11, <1>12, <1>16, <1>17, <1>21, <2>1, <2>2, GatherRecord
    <1>23. CASE ph = "unrecorded"
        <2>1. GoesOn(e) /\ UNCHANGED <<state, control>>
            BY <1>1, <1>2, <1>5, <1>18, <1>23 DEF GoesOn, Open
        <2>2. \A d \in Ids : FileInv(d)'
            BY <1>2, <1>12, FileKept DEF IInv
        <2>3. files' \in [Ids -> [Files -> Result \cup {NoResult}]]
            BY <1>2 DEF IInv, TypeOK
        <2> QED BY <1>4, <1>6, <1>10, <1>11, <1>12, <1>16, <1>17, <1>21, <2>1, <2>2, <2>3, Gather
    <1> QED BY <1>22, <1>23

-----------------------------------------------------------------------------
(* The invariant and what follows from it.                                   *)

\* No execution has started: no call, no file, no record.
LEMMA InitInv == Init => IInv
    <1> SUFFICES ASSUME Init PROVE IInv
        OBVIOUS
    <1>1. /\ \A e \in Execs : calls[e] = <<>> /\ events[e] = <<>> /\ DOMAIN calls[e] = {} /\ Len(calls[e]) = 0
          /\ calls \in [Execs -> Seq(CallType)] /\ events \in [Execs -> Seq(EventType)]
        BY DEF Init
    <1>2. PICK x : x = [id |-> None, from |-> None, phase |-> "new", cancelled |-> FALSE, permits |-> Limit, cached |-> {}]
        OBVIOUS
    <1>3. x \in ExecType /\ x.phase = "new" /\ x.permits = Limit /\ x.cached = {}
        BY <1>2, WorkflowAssumption DEF ExecType
    <1>4. exec \in [Execs -> ExecType] /\ \A e \in Execs : exec[e] = x
        BY <1>2, <1>3 DEF Init
    <1>5. \A d \in Ids : state[d] = NoRun /\ control[d] = 0 /\ \A f \in Files : files[d][f] = NoResult
        BY DEF Init
    <1>6. /\ files \in [Ids -> [Files -> Result \cup {NoResult}]] /\ control \in [Ids -> 0 .. N]
          /\ DOMAIN state = Ids /\ RecordOK(NoRun)
        BY WorkflowAssumption DEF Init, RecordOK, NoRun
    <1>7. \A e \in Execs : Len(calls[e]) <= MaxCalls[e]
        BY <1>1, WorkflowAssumption
    <1>8. TypeOK
        BY <1>1, <1>3, <1>4, <1>5, <1>6, <1>7 DEF TypeOK, RecordOK
    <1>9. ASSUME NEW e \in Execs PROVE ExecInv(e) /\ ReuseInv(e)
        <2>1. Working(e) = {} /\ Limit + Cardinality({}) = Limit
            BY <1>1, WorkflowAssumption, FS_EmptySet DEF Working
        <2> QED BY <1>1, <1>3, <1>4, <2>1 DEF ExecInv, ReuseInv
    <1>10. \A d \in Ids : FileInv(d) /\ StateInv(d)
        BY <1>5 DEF FileInv, StateInv, OneExecution
    <1> QED BY <1>8, <1>9, <1>10 DEF IInv

\* Every step keeps the invariant.
LEMMA StepInv == IInv /\ [Next]_vars => IInv'
    <1> SUFFICES ASSUME IInv, [Next]_vars PROVE IInv'
        OBVIOUS
    <1>1. ASSUME NEW e \in Execs, NEW o \in Options[e], Save(e, o[1], o[2]) PROVE IInv'
        BY <1>1, SaveStep
    <1>11. ASSUME NEW e \in Execs, Register(e) PROVE IInv'
        BY <1>11, RegisterStep
    <1>2. ASSUME NEW e \in Execs, Begin(e) PROVE IInv'
        BY <1>2, BeginStep
    <1>3. ASSUME NEW e \in Execs, NEW k \in Keys, AgentCall(e, k) PROVE IInv'
        BY <1>3, AgentCallStep
    <1>4. ASSUME NEW e \in Execs, NEW i \in DOMAIN calls[e], Acquire(e, i) PROVE IInv'
        BY <1>4, AcquireStep
    <1>5. ASSUME NEW e \in Execs, NEW i \in DOMAIN calls[e], CallCancelled(e, i) PROVE IInv'
        <2>1. PICK p : p = exec[e].permits + (IF calls[e][i].phase = "working" THEN 1 ELSE 0)
            OBVIOUS
        <2>2. /\ exec[e].phase = "running" /\ calls[e][i].phase \in {"waiting", "working"}
              /\ exec' = [exec EXCEPT ![e].permits = p] /\ calls' = [calls EXCEPT ![e][i].phase = "lost"]
              /\ UNCHANGED <<events, state, files, control>>
            BY <1>5, <2>1, Facts DEF CallCancelled, ExecType
        <2> QED BY <1>5, <2>1, <2>2, LostStep
    <1>6. ASSUME NEW e \in Execs, NEW i \in DOMAIN calls[e], WorkerFails(e, i) PROVE IInv'
        <2>1. PICK p : p = exec[e].permits + 1
            OBVIOUS
        <2>2. /\ exec[e].phase = "running" /\ calls[e][i].phase = "working"
              /\ exec' = [exec EXCEPT ![e].permits = p] /\ calls' = [calls EXCEPT ![e][i].phase = "lost"]
              /\ UNCHANGED <<events, state, files, control>>
            BY <1>6, <2>1, Facts DEF WorkerFails, ExecType
        <2>3. p = exec[e].permits + (IF calls[e][i].phase = "working" THEN 1 ELSE 0)
            BY <2>1, <2>2
        <2> QED BY <1>6, <2>2, <2>3, LostStep
    <1>7. ASSUME NEW e \in Execs, NEW i \in DOMAIN calls[e], NEW b \in BOOLEAN, WorkerReturns(e, i, b) PROVE IInv'
        BY <1>7, ReturnsStep
    <1>8. ASSUME NEW e \in Execs, NEW ok \in BOOLEAN, End(e, ok) PROVE IInv'
        BY <1>8, EndStep
    <1>9. ASSUME NEW id \in Ids, Cancel(id) PROVE IInv'
        BY <1>9, CancelStep
    <1>10. CASE UNCHANGED vars
        <2>1. UNCHANGED <<exec, calls, events, state, files, control>>
            BY <1>10 DEF vars
        <2>2. TypeOK'
            BY <2>1 DEF IInv, TypeOK, ExecType, CallType, EventType, Result, NoResult
        <2>3. ASSUME NEW e \in Execs PROVE ExecInv(e)' /\ ReuseInv(e)'
            <3>1. ExecInv(e)'
                BY <2>1, Facts DEF ExecInv, Working, NoResult
            <3>2. ReuseInv(e) /\ Keeps /\ \A i \in DOMAIN calls'[e] : Answered(e, i)
                BY <2>1, Facts DEF Keeps, Answered
            <3> QED BY <2>1, <3>1, <3>2, ReuseKept
        <2>4. ASSUME NEW id \in Ids PROVE FileInv(id)' /\ StateInv(id)'
            <3>1. FileInv(id) /\ StateInv(id)
                BY DEF IInv
            <3>2. FileInv(id)'
                BY <2>1, <3>1 DEF FileInv, Genuine, NoResult
            <3>3. \A e \in Execs : Results(e)' = Results(e)
                BY <2>1 DEF Results, NoResult
            <3> QED BY <2>1, <3>1, <3>2, <3>3 DEF StateInv, OneExecution, Open, NoRun, Running
        <2> QED BY <2>2, <2>3, <2>4 DEF IInv
    <1> QED BY <1>1, <1>2, <1>3, <1>4, <1>5, <1>6, <1>7, <1>8, <1>9, <1>10, <1>11 DEF Next, CallStep

\* The inductive invariant holds in every state of the workflow runtime.
THEOREM Invariant == Spec => []IInv
    BY InitInv, StepInv, PTL DEF Spec

\* Every variable keeps the type of what it models.
THEOREM TypeCorrect == Spec => []TypeOK
    <1>1. IInv => TypeOK
        BY DEF IInv
    <1> QED BY <1>1, Invariant, PTL

\* Whatever the limit, the scripts and the ways their calls end, permits and working calls add up.
THEOREM PermitsTheorem == Spec => []PermitsConserved
    <1>1. IInv => PermitsConserved
        BY DEF IInv, ExecInv, Working, PermitsConserved
    <1> QED BY <1>1, Invariant, PTL

\* Whatever executions share ids and whatever labels share files, a resumed call is answered only
\* with what a worker returned for its label in an execution of the run it resumes from.
THEOREM ReuseTheorem == Spec => []ReuseIsGenuine
    <1>1. ASSUME IInv PROVE ReuseIsGenuine
        <2>1. SUFFICES ASSUME NEW e \in Execs, NEW i \in DOMAIN calls[e], NEW r, r = calls[e][i].result, r # NoResult
                       PROVE  /\ r.key = calls[e][i].key /\ calls[r.by][r.index].result = r
                              /\ r.by # e => exec[r.by].id = exec[e].from
            BY DEF ReuseIsGenuine
        <2>2. r.key = calls[e][i].key /\ ((r.by = e /\ r.index = i) \/ Genuine(r, exec[e].from))
            BY <1>1, <2>1 DEF IInv, ReuseInv
        <2>3. CASE r.by = e /\ r.index = i
            BY <2>1, <2>2, <2>3
        <2>4. CASE Genuine(r, exec[e].from)
            BY <2>2, <2>4 DEF Genuine
        <2> QED BY <2>2, <2>3, <2>4
    <1> QED BY <1>1, Invariant, PTL

\* However many executions share an id, whatever their starts and ends overlap and whichever ends
\* cannot be saved, its record is the whole end of one of them, or says running for one still open.
THEOREM StateTheorem == Spec => []StateIsOneExecution
    <1>1. IInv => StateIsOneExecution
        BY DEF IInv, StateInv, StateIsOneExecution
    <1> QED BY <1>1, Invariant, PTL

=============================================================================
