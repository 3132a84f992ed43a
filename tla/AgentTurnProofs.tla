-------------------------- MODULE AgentTurnProofs --------------------------
(* Proofs about the turns of the agent loop: what is typed, what the journal  *)
(* holds before a turn returns, and what a replay repeats and where it may    *)
(* end.  A journal is the run of a small automaton, and so is the record; the *)
(* inductive invariant keeps the loop, its journal and the record in step.    *)
EXTENDS AgentTurn, FiniteSetTheorems, TLAPS

-----------------------------------------------------------------------------
(* The journal as the run of an automaton: what may follow what.             *)

\* Where the writer of a journal is: the response it works on, how many of its
\* calls and of their results are written, and all responses and results so far.
Ctl == {x \in [at : {"turn", "request", "response", "tools", "over"}, resp : Response,
               calls : Nat, done : Nat, chat : Nat] :
          /\ x.done <= x.calls /\ x.calls <= x.resp.size
          /\ x.at = "tools" <=> x.done < x.resp.size}

Start == [at |-> "turn", resp |-> NoResponse, calls |-> 0, done |-> 0, chat |-> 0]

StepTurn(x, e, y) == x.at = "turn" /\ e = TurnStart /\ y = [x EXCEPT !.at = "request"]

StepRequest(x, e, y) == x.at = "request" /\ e = LlmRequest(e.v) /\ y = [x EXCEPT !.at = "response"]

StepResponse(x, e, y) ==
    /\ x.at = "response"
    /\ y.resp \in Response /\ y.resp.id > x.resp.id /\ e = LlmResponse(y.resp)
    /\ y = [at |-> IF y.resp.size = 0 THEN "over" ELSE "tools", resp |-> y.resp,
            calls |-> 0, done |-> 0, chat |-> x.chat + 1]

\* A call follows the result of the one before it, unless calls are batched.
StepCall(x, e, y, a) ==
    /\ x.at = "tools" /\ x.calls < x.resp.size
    /\ x.done = x.calls \/ (x.done = 0 /\ x.resp.parallel /\ ~a)
    /\ e = ToolCall(<<x.resp.id, x.calls + 1>>)
    /\ y = [x EXCEPT !.calls = @ + 1]

StepResult(x, e, y) ==
    /\ x.at = "tools" /\ x.done < x.calls
    /\ x.calls = x.done + 1 \/ x.calls = x.resp.size
    /\ e = ToolResult(<<x.resp.id, x.done + 1>>, e.v)
    /\ y = [x EXCEPT !.at = IF x.done + 1 = x.resp.size THEN "turn" ELSE "tools",
                     !.done = @ + 1, !.chat = @ + 1]

\* Entries of tools and of children may come anywhere, and change nothing.
StepEffect(x, e, y) == e.k = "Effect" /\ y = x

\* Entry e leads from x to y; a tells whether tools need approval.
Step(x, e, y, a) ==
    \/ StepTurn(x, e, y) \/ StepRequest(x, e, y) \/ StepResponse(x, e, y)
    \/ StepCall(x, e, y, a) \/ StepResult(x, e, y) \/ StepEffect(x, e, y)

\* Responses, calls and results only go forward.
Precedes(x, y) ==
    \/ x.resp.id < y.resp.id
    \/ x.resp = y.resp /\ x.calls <= y.calls /\ x.done <= y.done

\* Between i and j there are nested entries only, so i decides where the writer is at j.
Decides(s, f, i, j) ==
    /\ i = 0 \/ s[i].k # "Effect"
    /\ f[i] = f[j] /\ \A h \in (i + 1) .. j : s[h].k = "Effect"

\* f is the run of the automaton on s.  The last two parts save an induction:
\* the last entry that is not nested decides where the writer is, and the
\* response it works on was written.
Parses(s, f, a) ==
    /\ f \in [0 .. Len(s) -> Ctl] /\ f[0] = Start
    /\ \A j \in 1 .. Len(s) : Step(f[j - 1], s[j], f[j], a)
    /\ \A i, j \in 0 .. Len(s) : i <= j => Precedes(f[i], f[j])
    /\ \A j \in 0 .. Len(s) : \E i \in 0 .. j : Decides(s, f, i, j)
    /\ \A j \in 0 .. Len(s) :
          f[j].resp = NoResponse \/ \E i \in 1 .. j : s[i] = LlmResponse(f[j].resp)

\* Without steered input a request tells how many messages there are.
Honest(s, f) == \A j \in 1 .. Len(s) : s[j].k = "LlmRequest" => s[j].v = f[j - 1].chat

-----------------------------------------------------------------------------
(* The inductive invariant.                                                  *)

\* What the local variables of execute_turn hold at each place.
StageInv ==
    /\ pc \notin {"exec", "batchrun", "ended"} => running = {}
    /\ outcome = "diverged" => pc = "ended"
    /\ pc \in {"dispatch", "approve", "exec", "finish"} =>
          /\ next \in 1 .. (resp.size + 1) /\ (pc # "dispatch" => next <= resp.size)
          /\ Len(results) = IF pc = "finish" THEN next ELSE next - 1
          /\ \A i \in DOMAIN results : results[i] >= 0
          /\ resp.size > 0
    /\ pc = "exec" => running = {next}
    /\ pc = "batch" => next \in 2 .. (resp.size + 1)
    /\ pc = "batchrun" =>
          /\ next \in 1 .. (resp.size + 1) /\ (next > 1 => running = {})
          /\ Len(results) = resp.size /\ \A i \in (1 .. resp.size) \ running : results[i] >= 0
    /\ pc \in {"batch", "batchrun"} => resp.parallel /\ ~flags.approval /\ resp.size > 0
    /\ pc \in {"calling", "batch", "batchrun", "approve", "exec"} => AtFrontier

\* The results of this turn that are in the journal and not yet among the messages.
Done == IF pc \in {"dispatch", "approve", "exec", "finish", "batchrun"} THEN next - 1 ELSE 0

\* The first d results s of the calls of r, numbered from n on.
Ahead(r, s, n, d) == {<<n + i, ToolResult(<<r.id, i>>, s[i])>> : i \in 1 .. d}

\* The journal is ahead of the conversation by the results of this turn.
ChatInv ==
    IF pc = "ended" THEN Chat(messages) \subseteq Chat(journal)
    ELSE LET n == Count(messages, Len(messages), ChatKinds) IN
         /\ Count(journal, Len(journal), ChatKinds) = n + Done
         /\ Chat(journal) = Chat(messages) \cup Ahead(resp, results, n, Done)

\* The place in execute_turn and the place in the journal agree.
Matches(x) ==
    /\ x.resp.id <= produced /\ resp.id <= produced
    /\ pc \in {"idle", "crashed"} => x.at = "turn"
    /\ pc = "started" => x.at = "request"
    /\ pc \in {"requested", "calling", "responded"} => x.at = "response"
    /\ pc = "responded" => resp.id > x.resp.id
    /\ pc \in {"dispatch", "approve", "exec", "finish", "batch", "batchrun"} => x.at \in {"tools", "turn"}
    /\ pc \notin {"responded", "pushed"} => x.resp = resp
    /\ pc \in {"dispatch", "approve", "exec", "finish"} =>
          x.done = next - 1 /\ x.calls = (IF pc = "dispatch" THEN next - 1 ELSE next)
    /\ pc = "batch" => x.done = 0 /\ x.calls = next - 1
    /\ pc = "batchrun" => x.done = next - 1 /\ x.calls = resp.size
    /\ bounds.inputs = 0 => queue = 0 /\ Len(messages) + Done = x.chat

\* What has been consumed or produced and is journaled next.
Lagging == pc \in {"responded", "finish"}
Lag == IF pc = "responded" THEN LlmResponse(resp) ELSE ToolResult(Call(next), results[next])
Written == IF Lagging THEN Plain(journal) \cup {<<Count(journal, Len(journal), PlainKinds) + 1, Lag>>}
           ELSE Plain(journal)

\* While it replays, the run is where the record is, and has written it; or it
\* has used the record up and is past it.
Follows(x, g, a) ==
    /\ Written = SelectTo(recorded, cursor, PlainKinds)
    /\ Count(journal, Len(journal), PlainKinds) + (IF Lagging THEN 1 ELSE 0) = Count(recorded, cursor, PlainKinds)
    /\ IF Lagging THEN Step(x, Lag, g[cursor], a) ELSE g[cursor] = x

IsPast(x, g) == AtFrontier /\ Plain(recorded) \subseteq Plain(journal) /\ Precedes(g[Len(recorded)], x)

Track(f, g) ==
    LET x == f[Len(journal)]
        a == flags.approval
    IN /\ Parses(recorded, g, a) /\ (bounds.inputs = 0 => Honest(recorded, g))
       /\ g[Len(recorded)].resp.id <= produced
       /\ pc # "ended" =>
            /\ Parses(journal, f, a) /\ (bounds.inputs = 0 => Honest(journal, f))
            /\ Matches(x) /\ (Follows(x, g, a) \/ IsPast(x, g))

-----------------------------------------------------------------------------
(* Selections: the numbered entries of some kinds.                           *)

\* Counting finds a natural number, and one more at an entry of the kinds.
LEMMA CountStep ==
    ASSUME NEW s, NEW n \in Nat, NEW K
    PROVE  /\ Count(s, n, K) \in Nat
           /\ Count(s, n + 1, K) = Count(s, n, K) + (IF s[n + 1].k \in K THEN 1 ELSE 0)
<1> DEFINE A == {j \in 1 .. n : s[j].k \in K}
           B == {j \in 1 .. n + 1 : s[j].k \in K}
<1>1. IsFiniteSet(A)
  <2>1. IsFiniteSet(1 .. n)
    BY FS_Interval
  <2> QED
    BY <2>1, FS_Subset
<1>2. Cardinality(A) \in Nat
  BY <1>1, FS_CardinalityType
<1>3. CASE s[n + 1].k \in K
  <2>1. B = A \cup {n + 1} /\ n + 1 \notin A
    BY <1>3
  <2>2. Cardinality(B) = Cardinality(A) + 1
    <3> HIDE DEF A, B
    <3> QED
      BY <1>1, <2>1, FS_AddElement
  <2> QED
    BY <1>2, <1>3, <2>2 DEF Count
<1>4. CASE s[n + 1].k \notin K
  <2>1. B = A
    BY <1>4
  <2>2. Count(s, n, K) = Cardinality(A) /\ Count(s, n + 1, K) = Cardinality(B)
    BY DEF Count
  <2> HIDE DEF A, B
  <2> QED
    BY <1>2, <1>4, <2>1, <2>2
<1> QED
  BY <1>3, <1>4

\* Counts are natural numbers.
LEMMA CountNat ==
    ASSUME NEW s, NEW n \in Nat, NEW K
    PROVE  Count(s, n, K) \in Nat
BY CountStep

\* A function on 1 .. n is a sequence.
LEMMA TupleSeq ==
    ASSUME NEW S, NEW n \in Nat, NEW t \in [1 .. n -> S]
    PROVE  t \in Seq(S) /\ Len(t) = n
OBVIOUS

\* Nothing is counted before the first entry.
LEMMA CountNone ==
    ASSUME NEW s, NEW K
    PROVE  Count(s, 0, K) = 0 /\ SelectTo(s, 0, K) = {}
<1>1. {j \in 1 .. 0 : s[j].k \in K} = {}
  OBVIOUS
<1>2. Cardinality({}) = 0
  BY FS_EmptySet
<1> QED
  BY <1>1, <1>2 DEF Count, SelectTo

\* One more entry is selected if it is of the kinds, under the next number.
LEMMA SelectStep ==
    ASSUME NEW s, NEW n \in Nat, NEW K
    PROVE  /\ s[n + 1].k \in K => SelectTo(s, n + 1, K) = SelectTo(s, n, K) \cup {<<Count(s, n, K) + 1, s[n + 1]>>}
           /\ s[n + 1].k \notin K => SelectTo(s, n + 1, K) = SelectTo(s, n, K)
<1>1. CASE s[n + 1].k \in K
  <2>1. {h \in 1 .. n + 1 : s[h].k \in K} = {h \in 1 .. n : s[h].k \in K} \cup {n + 1}
    BY <1>1
  <2>2. Count(s, n + 1, K) = Count(s, n, K) + 1
    BY <1>1, CountStep
  <2> QED
    BY <1>1, <2>1, <2>2 DEF SelectTo
<1>2. CASE s[n + 1].k \notin K
  <2>1. {h \in 1 .. n + 1 : s[h].k \in K} = {h \in 1 .. n : s[h].k \in K}
    BY <1>2
  <2> QED
    BY <1>2, <2>1 DEF SelectTo
<1> QED
  BY <1>1, <1>2

\* A longer selection holds the shorter ones.
LEMMA SelectMore ==
    ASSUME NEW s, NEW m \in Nat, NEW n \in Nat, m <= n, NEW K
    PROVE  SelectTo(s, m, K) \subseteq SelectTo(s, n, K)
<1>1. {h \in 1 .. m : s[h].k \in K} \subseteq {h \in 1 .. n : s[h].k \in K}
  OBVIOUS
<1> QED
  BY <1>1 DEF SelectTo

\* Sequences that agree up to n have the same selection up to n.
LEMMA SelectSame ==
    ASSUME NEW s, NEW t, NEW n \in Nat, NEW K, \A j \in 1 .. n : s[j] = t[j]
    PROVE  Count(s, n, K) = Count(t, n, K) /\ SelectTo(s, n, K) = SelectTo(t, n, K)
<1>1. \A m \in 0 .. n : Count(s, m, K) = Count(t, m, K)
  <2> TAKE m \in 0 .. n
  <2>1. {j \in 1 .. m : s[j].k \in K} = {j \in 1 .. m : t[j].k \in K}
    OBVIOUS
  <2> QED
    BY <2>1 DEF Count
<1>2. {j \in 1 .. n : s[j].k \in K} = {j \in 1 .. n : t[j].k \in K}
  OBVIOUS
<1>3. \A j \in {h \in 1 .. n : s[h].k \in K} : <<Count(s, j, K), s[j]>> = <<Count(t, j, K), t[j]>>
  BY <1>1
<1> QED
  BY <1>1, <1>2, <1>3 DEF SelectTo

\* Entries that are not of the kinds change no selection.
LEMMA SelectOver ==
    ASSUME NEW s, NEW m \in Nat, NEW n \in Nat, m <= n, NEW K, \A j \in (m + 1) .. n : s[j].k \notin K
    PROVE  Count(s, n, K) = Count(s, m, K) /\ SelectTo(s, n, K) = SelectTo(s, m, K)
<1>1. {j \in 1 .. n : s[j].k \in K} = {j \in 1 .. m : s[j].k \in K}
  OBVIOUS
<1> QED
  BY <1>1 DEF Count, SelectTo

\* What an append does to a selection of the whole sequence.
LEMMA SelectAppend ==
    ASSUME NEW S, NEW s \in Seq(S), NEW e \in S, NEW K
    PROVE  LET t == Append(s, e) IN
           /\ Count(s, Len(s), K) \in Nat
           /\ Count(t, Len(t), K) = Count(s, Len(s), K) + (IF e.k \in K THEN 1 ELSE 0)
           /\ e.k \in K => SelectTo(t, Len(t), K) = SelectTo(s, Len(s), K) \cup {<<Count(s, Len(s), K) + 1, e>>}
           /\ e.k \notin K => SelectTo(t, Len(t), K) = SelectTo(s, Len(s), K)
           /\ SelectTo(s, Len(s), K) \subseteq SelectTo(t, Len(t), K)
<1> DEFINE t == Append(s, e)
           n == Len(s)
<1>1. n \in Nat /\ Len(t) = n + 1 /\ t[n + 1] = e /\ \A j \in 1 .. n : s[j] = t[j]
  OBVIOUS
<1>2. Count(s, n, K) = Count(t, n, K) /\ SelectTo(s, n, K) = SelectTo(t, n, K)
  <2> HIDE DEF t, n
  <2> QED
    BY <1>1, SelectSame
<1>3. /\ Count(t, n, K) \in Nat
      /\ Count(t, n + 1, K) = Count(t, n, K) + (IF t[n + 1].k \in K THEN 1 ELSE 0)
  <2> HIDE DEF t, n
  <2> QED
    BY <1>1, CountStep
<1>4. /\ t[n + 1].k \in K => SelectTo(t, n + 1, K) = SelectTo(t, n, K) \cup {<<Count(t, n, K) + 1, t[n + 1]>>}
      /\ t[n + 1].k \notin K => SelectTo(t, n + 1, K) = SelectTo(t, n, K)
  <2> HIDE DEF t, n
  <2> QED
    BY <1>1, SelectStep
<1> HIDE DEF t, n
<1>5. /\ Count(s, n, K) \in Nat
      /\ Count(t, Len(t), K) = Count(s, n, K) + (IF e.k \in K THEN 1 ELSE 0)
      /\ e.k \in K => SelectTo(t, Len(t), K) = SelectTo(s, n, K) \cup {<<Count(s, n, K) + 1, e>>}
      /\ e.k \notin K => SelectTo(t, Len(t), K) = SelectTo(s, n, K)
  BY <1>1, <1>2, <1>3, <1>4
<1>6. SelectTo(s, n, K) \subseteq SelectTo(t, Len(t), K)
  BY <1>5
<1> QED
  BY <1>5, <1>6 DEF t, n

\* A block of entries of the kinds joins a selection with consecutive numbers.
LEMMA SelectBlock ==
    ASSUME NEW S, NEW s \in Seq(S), NEW t \in Seq(S), NEW K, \A i \in 1 .. Len(t) : t[i].k \in K
    PROVE  LET u == s \o t
               n == Count(s, Len(s), K)
           IN /\ Count(u, Len(u), K) = n + Len(t)
              /\ SelectTo(u, Len(u), K) = SelectTo(s, Len(s), K) \cup {<<n + i, t[i]>> : i \in 1 .. Len(t)}
<1> DEFINE u == s \o t
           l == Len(s)
           m == Len(t)
           n == Count(s, l, K)
           A == {j \in 1 .. l : s[j].k \in K}
<1>1. /\ l \in Nat /\ m \in Nat /\ Len(u) = l + m
      /\ \A j \in 1 .. l : u[j] = s[j]
      /\ \A i \in 1 .. m : u[l + i] = t[i]
  OBVIOUS
<1>2. \A i \in 1 .. m : u[l + i].k \in K
  BY <1>1
<1> HIDE DEF u, l, m
<1>3. IsFiniteSet(A) /\ Cardinality(A) \in Nat /\ n = Cardinality(A)
  <2>1. IsFiniteSet(1 .. l)
    BY <1>1, FS_Interval
  <2> QED
    BY <2>1, FS_Subset, FS_CardinalityType DEF Count
<1>4. \A i \in 0 .. m : Count(u, l + i, K) = n + i
  <2> TAKE i \in 0 .. m
  <2> DEFINE B == {j \in 1 .. l + i : u[j].k \in K}
             C == (l + 1) .. (l + i)
  <2>1. B = A \cup C /\ A \cap C = {}
    <3>1. \A j \in C : j - l \in 1 .. m /\ u[l + (j - l)].k \in K /\ l + (j - l) = j
      BY <1>1, <1>2
    <3> QED
      BY <1>1, <3>1
  <2>2. IsFiniteSet(C) /\ Cardinality(C) = i
    BY <1>1, FS_Interval
  <2>3. Cardinality(A \cup C) = Cardinality(A) + Cardinality(C) - Cardinality(A \cap C)
    <3> HIDE DEF A, C
    <3> QED
      BY <1>3, <2>2, FS_Union
  <2>4. Cardinality({}) = 0
    BY FS_EmptySet
  <2>5. Cardinality(B) = Cardinality(A) + i
    <3> HIDE DEF A, B, C
    <3>1. Cardinality(B) = Cardinality(A \cup C) /\ Cardinality(A \cap C) = 0
      BY <2>1, <2>4
    <3> QED
      BY <1>1, <1>3, <2>2, <2>3, <3>1
  <2> QED
    BY <1>3, <2>5 DEF Count
<1>5. SelectTo(u, l, K) = SelectTo(s, l, K) /\ Count(u, l, K) = Count(s, l, K)
  BY <1>1, SelectSame
<1>6. SelectTo(u, l + m, K) = SelectTo(u, l, K) \cup {<<n + i, t[i]>> : i \in 1 .. m}
  <2> DEFINE D == {h \in 1 .. l : u[h].k \in K}
             E == {l + i : i \in 1 .. m}
  <2>1. {h \in 1 .. l + m : u[h].k \in K} = D \cup E
    <3>1. \A h \in 1 .. l + m : h \notin 1 .. l => h - l \in 1 .. m /\ h = l + (h - l)
      BY <1>1
    <3>2. \A i \in 1 .. m : l + i \in 1 .. l + m
      BY <1>1
    <3>3. 1 .. l \subseteq 1 .. l + m
      BY <1>1
    <3> QED
      BY <1>2, <3>1, <3>2, <3>3
  <2>2. \A i \in 1 .. m : <<Count(u, l + i, K), u[l + i]>> = <<n + i, t[i]>>
    <3> TAKE i \in 1 .. m
    <3>1. i \in 0 .. m
      BY <1>1
    <3> HIDE DEF n
    <3> QED
      BY <1>1, <1>4, <3>1
  <2>3. {<<Count(u, j, K), u[j]>> : j \in D \cup E} = {<<Count(u, j, K), u[j]>> : j \in D} \cup {<<n + i, t[i]>> : i \in 1 .. m}
    <3> HIDE DEF D, n
    <3>1. {<<Count(u, j, K), u[j]>> : j \in E} = {<<n + i, t[i]>> : i \in 1 .. m}
      BY <2>2
    <3> QED
      BY <3>1
  <2> QED
    BY <2>1, <2>3 DEF SelectTo
<1>7. Count(u, l + m, K) = n + m
  <2> HIDE DEF n
  <2> QED
    BY <1>1, <1>4
<1> QED
  BY <1>1, <1>5, <1>6, <1>7 DEF u, l, m

\* A block of entries of other kinds joins no selection.
LEMMA SelectNoBlock ==
    ASSUME NEW S, NEW s \in Seq(S), NEW t \in Seq(S), NEW K, \A i \in 1 .. Len(t) : t[i].k \notin K
    PROVE  LET u == s \o t
           IN /\ Count(u, Len(u), K) = Count(s, Len(s), K)
              /\ SelectTo(u, Len(u), K) = SelectTo(s, Len(s), K)
<1> DEFINE u == s \o t
           l == Len(s)
           m == Len(t)
<1>1. /\ l \in Nat /\ m \in Nat /\ Len(u) = l + m
      /\ \A j \in 1 .. l : u[j] = s[j]
      /\ \A i \in 1 .. m : u[l + i] = t[i]
  OBVIOUS
<1>2. \A j \in (l + 1) .. (l + m) : u[j].k \notin K
  <2> TAKE j \in (l + 1) .. (l + m)
  <2>1. j - l \in 1 .. m /\ l + (j - l) = j
    BY <1>1
  <2> QED
    BY <1>1, <2>1
<1> HIDE DEF u, l, m
<1>3. Count(u, l + m, K) = Count(u, l, K) /\ SelectTo(u, l + m, K) = SelectTo(u, l, K)
  BY <1>1, <1>2, SelectOver
<1>4. Count(u, l, K) = Count(s, l, K) /\ SelectTo(u, l, K) = SelectTo(s, l, K)
  BY <1>1, SelectSame
<1> QED
  BY <1>1, <1>3, <1>4 DEF u, l, m

-----------------------------------------------------------------------------
(* The automaton.                                                            *)

\* Every entry the loop writes is an entry.
LEMMA EntryTypes ==
    /\ TurnStart \in EntryType
    /\ \A n \in Nat : LlmRequest(n) \in EntryType
    /\ \A r \in Response : LlmResponse(r) \in EntryType
    /\ \A c \in Nat \X Nat : ToolCall(c) \in EntryType /\ Effect(c) \in EntryType
    /\ \A c \in Nat \X Nat, v \in Nat : ToolResult(c, v) \in EntryType
    /\ Input \in EntryType
BY DEF EntryType, Kinds, Entry, TurnStart, LlmRequest, LlmResponse, ToolCall, Effect, ToolResult, Input, Response

\* The response is read back from its entry.
LEMMA ResponseBack ==
    ASSUME NEW r \in Response
    PROVE  AsResponse(LlmResponse(r)) = r
<1> DEFINE q == AsResponse(LlmResponse(r))
<1>1. q.id = r.id /\ q.size = r.size /\ q.parallel = r.parallel
  BY DEF Response, AsResponse, LlmResponse, Entry
<1>2. q \in Response
  BY DEF Response, AsResponse, LlmResponse, Entry
<1> HIDE DEF q
<1>3. q = r
  BY <1>1, <1>2 DEF Response
<1> QED
  BY <1>3 DEF q

\* The kind of an entry tells which step it is.
LEMMA StepKind ==
    ASSUME NEW x, NEW e, NEW y, NEW a, Step(x, e, y, a)
    PROVE  /\ e.k = "TurnStart" => StepTurn(x, e, y)
           /\ e.k = "LlmRequest" => StepRequest(x, e, y)
           /\ e.k = "LlmResponse" => StepResponse(x, e, y)
           /\ e.k = "ToolCall" => StepCall(x, e, y, a)
           /\ e.k = "ToolResult" => StepResult(x, e, y)
           /\ e.k = "Effect" => StepEffect(x, e, y)
           /\ e.k \in {"TurnStart", "LlmRequest", "LlmResponse", "ToolCall", "ToolResult", "Effect"}
<1>1. StepTurn(x, e, y) => e.k = "TurnStart"
  BY DEF StepTurn, TurnStart, Entry
<1>2. StepRequest(x, e, y) => e.k = "LlmRequest"
  BY DEF StepRequest, LlmRequest, Entry
<1>3. StepResponse(x, e, y) => e.k = "LlmResponse"
  BY DEF StepResponse, LlmResponse, Entry
<1>4. StepCall(x, e, y, a) => e.k = "ToolCall"
  BY DEF StepCall, ToolCall, Entry
<1>5. StepResult(x, e, y) => e.k = "ToolResult"
  BY DEF StepResult, ToolResult, Entry
<1>6. StepEffect(x, e, y) => e.k = "Effect"
  BY DEF StepEffect
<1> QED
  BY <1>1, <1>2, <1>3, <1>4, <1>5, <1>6 DEF Step

\* A step leads to a place of the automaton, and forward.
LEMMA StepForward ==
    ASSUME NEW x \in Ctl, NEW e, NEW y, NEW a, Step(x, e, y, a)
    PROVE  y \in Ctl /\ Precedes(x, y)
<1>1. CASE StepTurn(x, e, y)
  BY <1>1 DEF StepTurn, Ctl, Precedes, Response
<1>2. CASE StepRequest(x, e, y)
  BY <1>2 DEF StepRequest, Ctl, Precedes, Response
<1>3. CASE StepResponse(x, e, y)
  <2> DEFINE r == y.resp
  <2>1. /\ r \in Response /\ r.id > x.resp.id
        /\ y = [at |-> IF r.size = 0 THEN "over" ELSE "tools", resp |-> r, calls |-> 0, done |-> 0, chat |-> x.chat + 1]
    BY <1>3 DEF StepResponse
  <2>2. x.resp \in Response /\ x.chat \in Nat
    BY DEF Ctl
  <2> HIDE DEF r
  <2>3. r.id \in Nat /\ r.size \in Nat /\ x.resp.id \in Nat
    BY <2>1, <2>2 DEF Response
  <2>4. y \in Ctl
    BY <2>1, <2>2, <2>3 DEF Ctl
  <2>5. x.resp.id < y.resp.id
    BY <2>1, <2>3
  <2> QED
    BY <2>4, <2>5 DEF Precedes
<1>4. CASE StepCall(x, e, y, a)
  BY <1>4 DEF StepCall, Ctl, Precedes, Response
<1>5. CASE StepResult(x, e, y)
  <2> DEFINE to == IF x.done + 1 = x.resp.size THEN "turn" ELSE "tools"
             Fields == [at : {"turn", "request", "response", "tools", "over"}, resp : Response, calls : Nat, done : Nat, chat : Nat]
  <2>1. x.at = "tools" /\ x.done < x.calls /\ y = [x EXCEPT !.at = to, !.done = @ + 1, !.chat = @ + 1]
    BY <1>5 DEF StepResult
  <2>2. x \in Fields /\ x.calls <= x.resp.size
    BY DEF Ctl
  <2>3. x.resp.size \in Nat /\ x.calls \in Nat /\ x.done \in Nat
    BY <2>2 DEF Response
  <2>4. to \in {"turn", "tools"} /\ (to = "tools" <=> x.done + 1 # x.resp.size)
    OBVIOUS
  <2> HIDE DEF to
  <2>5. y \in Fields
    <3>1. x.chat \in Nat /\ x.resp \in Response
      BY <2>2
    <3>2. y = [at |-> to, resp |-> x.resp, calls |-> x.calls, done |-> x.done + 1, chat |-> x.chat + 1]
      BY <2>1, <2>2
    <3> QED
      BY <2>3, <2>4, <3>1, <3>2
  <2>6. y.at = to /\ y.resp = x.resp /\ y.calls = x.calls /\ y.done = x.done + 1
    BY <2>1, <2>2
  <2>7. y.done <= y.calls /\ y.calls <= y.resp.size /\ (y.at = "tools" <=> y.done < y.resp.size)
    BY <2>1, <2>2, <2>3, <2>4, <2>6
  <2>8. Precedes(x, y)
    BY <2>3, <2>6 DEF Precedes
  <2> QED
    BY <2>5, <2>7, <2>8 DEF Ctl
<1>6. CASE StepEffect(x, e, y)
  BY <1>6 DEF StepEffect, Ctl, Precedes, Response
<1> QED
  BY <1>1, <1>2, <1>3, <1>4, <1>5, <1>6 DEF Step

\* Being before another place of the same turn is transitive.
LEMMA PrecedesTransitive ==
    ASSUME NEW x \in Ctl, NEW y \in Ctl, NEW z \in Ctl, Precedes(x, y), Precedes(y, z)
    PROVE  Precedes(x, z)
BY DEF Precedes, Ctl, Response

\* A place is before itself.
LEMMA PrecedesItself ==
    ASSUME NEW x \in Ctl
    PROVE  Precedes(x, x)
BY DEF Precedes, Ctl, Response

\* The start of a journal is a place.
LEMMA StartCtl == Start \in Ctl
BY DEF Start, Ctl, NoResponse, Response

\* The run f, and y after it.
Extend(f, n, y) == [j \in 0 .. n |-> IF j = n THEN y ELSE f[j]]

\* The extended run agrees with the run, and ends in y.
LEMMA ExtendAt ==
    ASSUME NEW f, NEW n \in Nat, NEW y
    PROVE  /\ Extend(f, n + 1, y)[n + 1] = y
           /\ \A j \in 0 .. n : Extend(f, n + 1, y)[j] = f[j]
           /\ DOMAIN Extend(f, n + 1, y) = 0 .. (n + 1)
           /\ Extend(f, n + 1, y) = [j \in 0 .. (n + 1) |-> Extend(f, n + 1, y)[j]]
BY DEF Extend

\* A run is extended by a step.
LEMMA ParsesAppend ==
    ASSUME NEW s \in Seq(EntryType), NEW f, NEW a, Parses(s, f, a),
           NEW e \in EntryType, NEW y, Step(f[Len(s)], e, y, a)
    PROVE  Parses(Append(s, e), Extend(f, Len(s) + 1, y), a)
<1> DEFINE n == Len(s)
           t == Append(s, e)
           F == Extend(f, n + 1, y)
<1>1. n \in Nat /\ Len(t) = n + 1 /\ t[n + 1] = e /\ \A j \in 1 .. n : t[j] = s[j]
  OBVIOUS
<1>2. F[n + 1] = y /\ (\A j \in 0 .. n : F[j] = f[j]) /\ F = [j \in 0 .. (n + 1) |-> F[j]]
  BY <1>1, ExtendAt
<1>3. /\ f \in [0 .. n -> Ctl] /\ f[0] = Start
      /\ \A j \in 1 .. n : Step(f[j - 1], s[j], f[j], a)
      /\ \A i, j \in 0 .. n : i <= j => Precedes(f[i], f[j])
      /\ \A j \in 0 .. n : \E i \in 0 .. j : Decides(s, f, i, j)
      /\ \A j \in 0 .. n : f[j].resp = NoResponse \/ \E i \in 1 .. j : s[i] = LlmResponse(f[j].resp)
  BY DEF Parses
<1>4. Step(f[n], e, y, a)
  OBVIOUS
<1> HIDE DEF n, t, F
<1>5. f[n] \in Ctl /\ y \in Ctl /\ Precedes(f[n], y)
  <2>1. f[n] \in Ctl
    BY <1>1, <1>3
  <2> QED
    BY <1>4, <2>1, StepForward
<1>6. F \in [0 .. (n + 1) -> Ctl] /\ F[0] = Start
  <2>1. \A j \in 0 .. (n + 1) : F[j] \in Ctl
    <3> TAKE j \in 0 .. (n + 1)
    <3>1. j = n + 1 \/ j \in 0 .. n
      BY <1>1
    <3> QED
      BY <1>2, <1>3, <1>5, <3>1
  <2>2. F[0] = Start
    <3>1. 0 \in 0 .. n
      BY <1>1
    <3> QED
      BY <1>2, <1>3, <3>1
  <2> QED
    BY <1>2, <2>1, <2>2
<1>7. \A j \in 1 .. (n + 1) : Step(F[j - 1], t[j], F[j], a)
  <2> TAKE j \in 1 .. (n + 1)
  <2>1. CASE j = n + 1
    <3>1. j - 1 = n /\ n \in 0 .. n
      BY <1>1, <2>1
    <3>2. F[n] = f[n]
      BY <1>2, <3>1
    <3> QED
      BY <1>1, <1>2, <1>4, <2>1, <3>1, <3>2
  <2>2. CASE j # n + 1
    <3>1. j \in 1 .. n /\ j - 1 \in 0 .. n /\ j \in 0 .. n
      BY <1>1, <2>2
    <3> QED
      BY <1>1, <1>2, <1>3, <3>1
  <2> QED
    BY <2>1, <2>2
<1>8. \A i, j \in 0 .. (n + 1) : i <= j => Precedes(F[i], F[j])
  <2> SUFFICES ASSUME NEW i \in 0 .. (n + 1), NEW j \in 0 .. (n + 1), i <= j
               PROVE  Precedes(F[i], F[j])
    OBVIOUS
  <2>1. CASE j # n + 1
    <3>1. j \in 0 .. n /\ i \in 0 .. n
      BY <1>1, <2>1
    <3> QED
      BY <1>2, <1>3, <3>1
  <2>2. CASE j = n + 1 /\ i # n + 1
    <3>1. i \in 0 .. n /\ n \in 0 .. n /\ i <= n
      BY <1>1, <2>2
    <3>2. Precedes(f[i], f[n]) /\ f[i] \in Ctl /\ F[i] = f[i] /\ F[j] = y
      BY <1>2, <1>3, <2>2, <3>1
    <3> QED
      BY <1>5, <3>2, PrecedesTransitive
  <2>3. CASE j = n + 1 /\ i = n + 1
    BY <1>2, <1>5, <2>3, PrecedesItself
  <2> QED
    BY <2>1, <2>2, <2>3
<1>9. \A j \in 0 .. (n + 1) : \E i \in 0 .. j : Decides(t, F, i, j)
  <2> TAKE j \in 0 .. (n + 1)
  <2>1. CASE j # n + 1
    <3>1. j \in 0 .. n
      BY <1>1, <2>1
    <3>2. PICK i \in 0 .. j : Decides(s, f, i, j)
      BY <1>3, <3>1
    <3>3. i \in 0 .. n /\ (i # 0 => i \in 1 .. n) /\ \A h \in (i + 1) .. j : h \in 1 .. n
      BY <1>1, <3>1
    <3>4. Decides(t, F, i, j)
      BY <1>1, <1>2, <3>1, <3>2, <3>3 DEF Decides
    <3> QED
      BY <3>4
  <2>2. CASE j = n + 1 /\ e.k # "Effect"
    <3>1. j \in 0 .. j /\ (j + 1) .. j = {}
      BY <1>1
    <3>2. Decides(t, F, j, j)
      BY <1>1, <2>2, <3>1 DEF Decides
    <3> QED
      BY <3>1, <3>2
  <2>3. CASE j = n + 1 /\ e.k = "Effect"
    <3>1. StepEffect(f[n], e, y)
      BY <1>4, <2>3, StepKind
    <3>2. y = f[n]
      BY <3>1 DEF StepEffect
    <3>3. n \in 0 .. n
      BY <1>1
    <3>4. PICK i \in 0 .. n : Decides(s, f, i, n)
      BY <1>3, <3>3
    <3>5. i \in 0 .. j /\ (i # 0 => i \in 1 .. n) /\ \A h \in (i + 1) .. j : h \in (i + 1) .. n \/ h = n + 1
      BY <1>1, <2>3
    <3>6. \A h \in (i + 1) .. n : h \in 1 .. n
      BY <1>1
    <3>7. \A h \in (i + 1) .. j : t[h].k = "Effect"
      BY <1>1, <2>3, <3>4, <3>5, <3>6 DEF Decides
    <3>8. (i = 0 \/ t[i].k # "Effect") /\ F[i] = F[j]
      BY <1>1, <1>2, <2>3, <3>2, <3>4, <3>5 DEF Decides
    <3>9. Decides(t, F, i, j)
      BY <3>7, <3>8 DEF Decides
    <3> QED
      BY <3>5, <3>9
  <2> QED
    BY <2>1, <2>2, <2>3
<1>10. \A j \in 0 .. (n + 1) : F[j].resp = NoResponse \/ \E i \in 1 .. j : t[i] = LlmResponse(F[j].resp)
  <2> TAKE j \in 0 .. (n + 1)
  <2>1. \A m \in 0 .. n : f[m].resp = NoResponse \/ \E i \in 1 .. m : t[i] = LlmResponse(f[m].resp)
    <3> TAKE m \in 0 .. n
    <3>1. \A i \in 1 .. m : i \in 1 .. n
      BY <1>1
    <3> QED
      BY <1>1, <1>3, <3>1
  <2>2. CASE j # n + 1
    <3>1. j \in 0 .. n
      BY <1>1, <2>2
    <3> QED
      BY <1>2, <2>1, <3>1
  <2>3. CASE j = n + 1
    <3>1. y.resp = f[n].resp \/ e = LlmResponse(y.resp)
      <4>1. StepResponse(f[n], e, y) => e = LlmResponse(y.resp)
        BY DEF StepResponse
      <4>2. (\/ StepTurn(f[n], e, y) \/ StepRequest(f[n], e, y) \/ StepCall(f[n], e, y, a)
             \/ StepResult(f[n], e, y) \/ StepEffect(f[n], e, y)) => y.resp = f[n].resp
        BY <1>5 DEF StepTurn, StepRequest, StepCall, StepResult, StepEffect, Ctl
      <4>3. \/ StepTurn(f[n], e, y) \/ StepRequest(f[n], e, y) \/ StepCall(f[n], e, y, a)
            \/ StepResult(f[n], e, y) \/ StepEffect(f[n], e, y) \/ StepResponse(f[n], e, y)
        BY <1>4 DEF Step
      <4> QED
        BY <4>1, <4>2, <4>3
    <3>2. n \in 0 .. n /\ j \in 1 .. j /\ \A i \in 1 .. n : i \in 1 .. j
      BY <1>1, <2>3
    <3> QED
      BY <1>1, <1>2, <2>1, <2>3, <3>1, <3>2
  <2> QED
    BY <2>2, <2>3
<1>11. Parses(t, F, a)
  BY <1>1, <1>6, <1>7, <1>8, <1>9, <1>10 DEF Parses
<1> QED
  BY <1>11 DEF n, t, F

\* An entry extends an honest run, if it is no request or tells the truth.
LEMMA HonestAppend ==
    ASSUME NEW s \in Seq(EntryType), NEW f, NEW e \in EntryType, NEW y,
           Honest(s, f), e.k = "LlmRequest" => e.v = f[Len(s)].chat
    PROVE  Honest(Append(s, e), Extend(f, Len(s) + 1, y))
<1> DEFINE n == Len(s)
           t == Append(s, e)
           F == Extend(f, n + 1, y)
<1>1. n \in Nat /\ Len(t) = n + 1 /\ t[n + 1] = e /\ \A j \in 1 .. n : t[j] = s[j]
  OBVIOUS
<1>2. \A j \in 0 .. n : F[j] = f[j]
  BY <1>1 DEF Extend
<1> HIDE DEF F, t
<1>3. \A j \in 1 .. (n + 1) : t[j].k = "LlmRequest" => t[j].v = F[j - 1].chat
  <2> TAKE j \in 1 .. (n + 1)
  <2>1. j - 1 \in 0 .. n /\ (j = n + 1 \/ j \in 1 .. n)
    BY <1>1
  <2>2. CASE j = n + 1
    <3>1. j - 1 = n
      BY <1>1, <2>2
    <3> QED
      BY <1>1, <1>2, <2>1, <2>2, <3>1
  <2>3. CASE j \in 1 .. n
    BY <1>1, <1>2, <2>1, <2>3 DEF Honest
  <2> QED
    BY <2>1, <2>2, <2>3
<1> QED
  BY <1>1, <1>3 DEF Honest, F, t

\* The empty journal.
LEMMA ParsesEmpty ==
    ASSUME NEW a
    PROVE  LET f == [j \in 0 .. 0 |-> Start] IN Parses(<<>>, f, a) /\ Honest(<<>>, f) /\ f[Len(<<>>)] = Start
<1> DEFINE f == [j \in 0 .. 0 |-> Start]
<1>1. Len(<<>>) = 0 /\ f[0] = Start /\ f \in [0 .. 0 -> Ctl] /\ 1 .. 0 = {}
  BY StartCtl
<1>2. \A i, j \in 0 .. 0 : Precedes(f[i], f[j])
  BY StartCtl, PrecedesItself
<1>3. \A j \in 0 .. 0 : f[j].resp = NoResponse
  BY DEF Start
<1>4. \A j \in 0 .. 0 : \E i \in 0 .. j : Decides(<<>>, f, i, j)
  BY DEF Decides
<1> QED
  BY <1>1, <1>2, <1>3, <1>4 DEF Parses, Honest

-----------------------------------------------------------------------------
(* Types, and the local variables of a turn.                                 *)

\* A run that has ended takes no step.
LEMMA EndedStays ==
    ASSUME pc = "ended", Next
    PROVE  FALSE
<1>1. ~TurnStep
  BY DEF TurnStep, StopBetweenTurns, StartTurn, Request, ReplayResponse, CallProvider, ProviderAnswers, Respond,
         KilledAtResponse, Complete, EndTurn
<1>2. ~ToolStep
  BY DEF ToolStep, BatchCall, BatchRun, BatchResult, BatchToolReturns, SerialCall, Approve, ToolReturns, Finish
<1>3. ~FaultStep
  BY DEF FaultStep, HookRefuses, ProviderFails, TurnFails, Steer, Crash, Signal
<1>4. ~Restart /\ (~\E i \in running : ToolJournals(i)) /\ ~ChildCompletes
  BY DEF Restart, ToolJournals, ChildCompletes
<1> QED
  BY <1>1, <1>2, <1>3, <1>4 DEF Next

\* The types of what the calls of a response are named by and answered with.
LEMMA CallType ==
    ASSUME TypeOK, NEW i \in Nat
    PROVE  Call(i) \in Nat \X Nat
BY DEF TypeOK, Response, Call

\* Appending an entry.
LEMMA AppendType ==
    ASSUME NEW s \in Seq(EntryType), NEW e \in EntryType
    PROVE  Append(s, e) \in Seq(EntryType)
OBVIOUS

\* A tool or a child appends entry e, wherever the turn is.
Nests(e) ==
    /\ e.k = "Effect" /\ pc \notin {"ended", "crashed"} /\ journal' = Append(journal, e)
    /\ UNCHANGED <<pc, outcome, turn, messages, recorded, cursor, resp, next, results, running, ran, produced,
                   queue, flags, bounds>>

\* Running tools and background children append such entries, and do nothing else.
LEMMA NestedEntry ==
    ASSUME TypeOK, ChildCompletes \/ \E i \in running : ToolJournals(i)
    PROVE  \E e \in EntryType : Nests(e)
<1>1. CASE ChildCompletes
  <2>1. SubAgentCompleted \in EntryType /\ SubAgentCompleted.k = "Effect"
    BY DEF SubAgentCompleted, Effect, Entry, EntryType, Kinds
  <2>2. Nests(SubAgentCompleted)
    BY <1>1, <2>1 DEF ChildCompletes, Nests, replayVars, turnVars, envVars
  <2> QED
    BY <2>1, <2>2
<1>2. ASSUME NEW i \in running, ToolJournals(i)
      PROVE  \E e \in EntryType : Nests(e)
  <2>1. i \in Nat
    BY DEF TypeOK, Response
  <2>2. Effect(Call(i)) \in EntryType
    BY <2>1, CallType, EntryTypes
  <2>3. Effect(Call(i)).k = "Effect"
    BY DEF Effect, Entry
  <2>4. Nests(Effect(Call(i)))
    BY <1>2, <2>3 DEF ToolJournals, Nests, replayVars, turnVars, envVars
  <2> QED
    BY <2>2, <2>4
<1> QED
  BY <1>1, <1>2

\* Appending and replacing a result.
LEMMA ResultType ==
    ASSUME NEW s \in Seq(Int), NEW v \in Int
    PROVE  Append(s, v) \in Seq(Int) /\ \A i : [s EXCEPT ![i] = v] \in Seq(Int)
<1>1. \A i : [s EXCEPT ![i] = v] \in [1 .. Len(s) -> Int]
  <2>1. s \in [1 .. Len(s) -> Int]
    OBVIOUS
  <2> QED
    BY <2>1
<1>2. [1 .. Len(s) -> Int] \subseteq Seq(Int)
  OBVIOUS
<1> QED
  BY <1>1, <1>2

\* The bounds and flags that change keep their types.
LEMMA RecordTypes ==
    ASSUME TypeOK
    PROVE  /\ [bounds EXCEPT !.inputs = @ + 1] \in [inputs : Nat, faults : Nat, crashes : Nat]
           /\ [bounds EXCEPT !.faults = @ + 1] \in [inputs : Nat, faults : Nat, crashes : Nat]
           /\ [bounds EXCEPT !.crashes = @ + 1] \in [inputs : Nat, faults : Nat, crashes : Nat]
           /\ [flags EXCEPT !.cancelled = FALSE, !.killed = FALSE] \in [cancelled : BOOLEAN, killed : BOOLEAN, approval : BOOLEAN]
<1>1. bounds \in [inputs : Nat, faults : Nat, crashes : Nat]
  BY DEF TypeOK
<1>2. flags \in [cancelled : BOOLEAN, killed : BOOLEAN, approval : BOOLEAN]
  BY DEF TypeOK
<1>3. [bounds EXCEPT !.inputs = @ + 1] \in [inputs : Nat, faults : Nat, crashes : Nat]
  BY <1>1
<1>4. [bounds EXCEPT !.faults = @ + 1] \in [inputs : Nat, faults : Nat, crashes : Nat]
  BY <1>1
<1>5. [bounds EXCEPT !.crashes = @ + 1] \in [inputs : Nat, faults : Nat, crashes : Nat]
  BY <1>1
<1>6. [flags EXCEPT !.cancelled = FALSE, !.killed = FALSE] \in [cancelled : BOOLEAN, killed : BOOLEAN, approval : BOOLEAN]
  BY <1>2
<1> QED
  BY <1>3, <1>4, <1>5, <1>6

\* Journaling and consuming an entry keeps the types.
LEMMA JournalTypes ==
    ASSUME TypeOK, NEW e \in EntryType, NEW to, JournalAndConsume(e, to), outcome' = "diverged" \/ outcome' = outcome
    PROVE  /\ journal' \in Seq(EntryType) /\ recorded' \in Seq(EntryType) /\ cursor' \in 0 .. Len(recorded')
           /\ outcome' \in {"none", "complete", "max_turns", "cancelled", "killed", "refused", "error", "diverged"}
           /\ pc' \in {to, "ended"}
<1>1. journal' \in Seq(EntryType) /\ recorded' = recorded
  BY AppendType DEF TypeOK, JournalAndConsume
<1>2. cursor' = cursor \/ (cursor # Len(recorded) /\ cursor' = cursor + 1)
  BY DEF JournalAndConsume, AtFrontier
<1>3. cursor' \in 0 .. Len(recorded)
  <2>1. recorded \in Seq(EntryType) /\ cursor \in 0 .. Len(recorded)
    BY DEF TypeOK
  <2>2. Len(recorded) \in Nat
    BY <2>1
  <2> QED
    BY <1>2, <2>1, <2>2
<1>4. pc' \in {to, "ended"}
  BY DEF JournalAndConsume, Goto, Ends
<1> QED
  BY <1>1, <1>3, <1>4 DEF TypeOK

\* Every step keeps the types.
LEMMA TypeStep ==
    ASSUME TypeOK, StageInv, Next, AgentTurnAssumption
    PROVE  TypeOK'
<1> USE DEF Goto, Ends, turnVars, replayVars, envVars
<1>1. CASE StopBetweenTurns
  BY <1>1 DEF StopBetweenTurns, TypeOK
<1>2. CASE StartTurn
  <2>1. JournalAndConsume(TurnStart, "started") /\ TurnStart \in EntryType
    BY <1>2, EntryTypes DEF StartTurn
  <2>2. outcome' = "diverged" \/ outcome' = outcome
    BY <2>1 DEF JournalAndConsume
  <2>3. /\ journal' \in Seq(EntryType) /\ recorded' \in Seq(EntryType) /\ cursor' \in 0 .. Len(recorded')
        /\ outcome' \in {"none", "complete", "max_turns", "cancelled", "killed", "refused", "error", "diverged"}
        /\ pc' \in {"started", "ended"}
    BY <2>1, <2>2, JournalTypes
  <2>4. messages' \in Seq(EntryType)
    <3>1. [i \in 1 .. queue |-> Input] \in Seq(EntryType)
      BY EntryTypes DEF TypeOK
    <3> QED
      BY <1>2, <3>1 DEF StartTurn, TypeOK
  <2> QED
    BY <1>2, <2>3, <2>4 DEF StartTurn, TypeOK
<1>3. CASE Request
  <2>1. JournalAndConsume(LlmRequest(Len(messages)), "requested") /\ LlmRequest(Len(messages)) \in EntryType
    BY <1>3, EntryTypes DEF Request, TypeOK
  <2>2. outcome' = "diverged" \/ outcome' = outcome
    BY <2>1 DEF JournalAndConsume
  <2>3. /\ journal' \in Seq(EntryType) /\ recorded' \in Seq(EntryType) /\ cursor' \in 0 .. Len(recorded')
        /\ outcome' \in {"none", "complete", "max_turns", "cancelled", "killed", "refused", "error", "diverged"}
        /\ pc' \in {"requested", "ended"}
    BY <2>1, <2>2, JournalTypes
  <2> QED
    BY <1>3, <2>3 DEF Request, TypeOK
<1>4. CASE ReplayResponse
  <2>1. recorded \in Seq(EntryType) /\ cursor \in 0 .. Len(recorded) /\ cursor # Len(recorded) /\ Len(recorded) \in Nat
    BY <1>4 DEF ReplayResponse, AtFrontier, TypeOK
  <2>2. cursor + 1 \in 1 .. Len(recorded) /\ Upcoming \in EntryType
    BY <2>1 DEF Upcoming
  <2>3. AsResponse(Upcoming) \in Response
    <3> HIDE DEF Goto
    <3> QED
      BY <2>2 DEF AsResponse, Response, EntryType
  <2>4. running = {}
    BY <1>4 DEF ReplayResponse, StageInv
  <2> QED
    BY <1>4, <2>2, <2>3, <2>4 DEF ReplayResponse, TypeOK
<1>5. CASE CallProvider
  BY <1>5 DEF CallProvider, TypeOK
<1>6. ASSUME NEW n \in Sizes, NEW p \in Parallel, ProviderAnswers(n, p)
      PROVE  TypeOK'
  <2>1. running = {} /\ n \in Nat /\ p \in BOOLEAN
    BY <1>6 DEF ProviderAnswers, StageInv, AgentTurnAssumption
  <2>2. resp' \in Response /\ produced' \in Nat
    BY <1>6, <2>1 DEF ProviderAnswers, Response, TypeOK
  <2> QED
    BY <1>6, <2>1, <2>2 DEF ProviderAnswers, TypeOK
<1>7. CASE Respond
  <2>1. LlmResponse(resp) \in EntryType
    BY EntryTypes DEF TypeOK
  <2>2. journal' \in Seq(EntryType) /\ messages' \in Seq(EntryType)
    BY <1>7, <2>1, AppendType DEF Respond, TypeOK
  <2> QED
    BY <1>7, <2>2 DEF Respond, TypeOK
<1>8. CASE KilledAtResponse
  BY <1>8 DEF KilledAtResponse, TypeOK
<1>9. CASE Complete
  BY <1>9 DEF Complete, TypeOK
<1>10. CASE EndTurn
  <2>1. pc' = "idle" => messages' \in Seq(EntryType)
    <3> SUFFICES ASSUME pc' = "idle"
                 PROVE  messages' \in Seq(EntryType)
      OBVIOUS
    <3>1. messages' = messages \o [i \in 1 .. resp.size |-> ToolResult(Call(i), results[i])]
      BY <1>10 DEF EndTurn
    <3>2. resp.size \in Nat /\ \A i \in 1 .. resp.size : results[i] \in Nat
      <4>1. resp.size \in Nat /\ results \in Seq(Int) /\ next \in Nat
        BY DEF TypeOK, Response
      <4>2. CASE pc = "dispatch"
        <5>1. Len(results) = next - 1 /\ next = resp.size + 1 /\ \A i \in DOMAIN results : results[i] >= 0
          BY <1>10, <4>1, <4>2 DEF EndTurn, StageInv
        <5> QED
          BY <4>1, <5>1
      <4>3. CASE pc = "batchrun"
        <5>1. Len(results) = resp.size /\ \A i \in 1 .. resp.size : results[i] >= 0
          BY <1>10, <4>1, <4>3 DEF EndTurn, StageInv
        <5> QED
          BY <4>1, <5>1
      <4> QED
        BY <1>10, <4>1, <4>2, <4>3 DEF EndTurn
    <3>3. \A i \in 1 .. resp.size : ToolResult(Call(i), results[i]) \in EntryType
      BY <3>2, CallType, EntryTypes
    <3>4. [i \in 1 .. resp.size |-> ToolResult(Call(i), results[i])] \in Seq(EntryType)
      BY <3>2, <3>3
    <3> QED
      BY <3>1, <3>4 DEF TypeOK
  <2>2. pc' # "idle" => messages' = messages
    BY <1>10 DEF EndTurn
  <2> QED
    BY <1>10, <2>1, <2>2 DEF EndTurn, TypeOK
<1>11. CASE BatchCall
  <2>1. ToolCall(Call(next)) \in EntryType
    BY CallType, EntryTypes DEF TypeOK
  <2>2. journal' \in Seq(EntryType)
    BY <1>11, <2>1, AppendType DEF BatchCall, TypeOK
  <2> QED
    BY <1>11, <2>2 DEF BatchCall, TypeOK
<1>12. CASE BatchRun
  <2>1. {Call(i) : i \in 1 .. resp.size} \subseteq Nat \X Nat
    BY CallType DEF TypeOK, Response
  <2>2. results' \in Seq(Int)
    <3>1. resp.size \in Nat /\ \A i \in 1 .. resp.size : -1 \in Int
      BY DEF TypeOK, Response
    <3>2. [i \in 1 .. resp.size |-> -1] \in Seq(Int)
      BY <3>1
    <3> QED
      BY <1>12, <3>2 DEF BatchRun
  <2> QED
    BY <1>12, <2>1, <2>2 DEF BatchRun, TypeOK
<1>13. CASE BatchResult
  <2>1. /\ resp.size \in Nat /\ results \in Seq(Int) /\ next \in 1 .. resp.size
        /\ Len(results) = resp.size /\ results[next] >= 0
    BY <1>13 DEF BatchResult, StageInv, TypeOK, Response
  <2>2. results[next] \in Nat /\ next \in Nat
    BY <2>1
  <2>3. ToolResult(Call(next), results[next]) \in EntryType
    BY <2>1, <2>2, CallType, EntryTypes
  <2>4. journal' \in Seq(EntryType)
    BY <1>13, <2>3, AppendType DEF BatchResult, TypeOK
  <2> QED
    BY <1>13, <2>4 DEF BatchResult, TypeOK
<1>14. ASSUME NEW i \in running, BatchToolReturns(i)
       PROVE  TypeOK'
  <2>1. results' \in Seq(Int) /\ produced' \in Nat
    <3>1. results \in Seq(Int) /\ produced + 1 \in Int /\ Synthetic \in Int /\ produced \in Nat
      BY DEF TypeOK, Synthetic
    <3>2. \A v \in Int : [results EXCEPT ![i] = v] \in Seq(Int)
      BY <3>1, ResultType
    <3> QED
      BY <1>14, <3>1, <3>2 DEF BatchToolReturns
  <2>2. running' \subseteq running
    BY <1>14 DEF BatchToolReturns
  <2> QED
    BY <1>14, <2>1, <2>2 DEF BatchToolReturns, TypeOK
<1>15. CASE SerialCall
  <2>1. ToolCall(Call(next)) \in EntryType
    BY CallType, EntryTypes DEF TypeOK
  <2>2. journal' \in Seq(EntryType) /\ recorded' = recorded
    BY <1>15, <2>1, AppendType DEF SerialCall, TypeOK
  <2>3. recorded \in Seq(EntryType) /\ cursor \in 0 .. Len(recorded) /\ Len(recorded) \in Nat /\ results \in Seq(Int)
    BY DEF TypeOK
  <2>4. \/ cursor' = cursor /\ results' = results
        \/ cursor # Len(recorded) /\ cursor' = cursor + 1 /\ results' = results
        \/ \E j \in Found(Call(next)) : cursor' = j /\ results' = Append(results, recorded[j].v)
    BY <1>15 DEF SerialCall, AtFrontier
  <2>5. \A j \in Found(Call(next)) : j \in 1 .. Len(recorded) /\ recorded[j].v \in Nat
    <3> TAKE j \in Found(Call(next))
    <3>1. j \in 1 .. Len(recorded)
      BY <2>3 DEF Found
    <3>2. recorded[j] \in EntryType
      BY <2>3, <3>1
    <3> QED
      BY <3>1, <3>2 DEF EntryType
  <2>6. cursor' \in 0 .. Len(recorded)
    BY <2>3, <2>4, <2>5
  <2>7. results' \in Seq(Int)
    <3>1. \A j \in Found(Call(next)) : Append(results, recorded[j].v) \in Seq(Int)
      BY <2>3, <2>5, ResultType
    <3> QED
      BY <2>3, <2>4, <3>1
  <2>8. pc' \in {"approve", "finish", "ended"} /\ outcome' \in {outcome, "diverged"}
    BY <1>15 DEF SerialCall
  <2> QED
    BY <1>15, <2>2, <2>6, <2>7, <2>8 DEF SerialCall, TypeOK
<1>16. CASE Approve
  <2>1. results' \in Seq(Int)
    <3>1. results \in Seq(Int) /\ Append(results, Synthetic) \in Seq(Int)
      BY ResultType DEF TypeOK, Synthetic
    <3> QED
      BY <1>16, <3>1 DEF Approve
  <2>2. Call(next) \in Nat \X Nat /\ next \in 1 .. resp.size
    BY <1>16, CallType DEF Approve, StageInv, TypeOK, Response
  <2> QED
    BY <1>16, <2>1, <2>2 DEF Approve, TypeOK
<1>17. CASE ToolReturns
  <2>1. results' \in Seq(Int) /\ produced' \in Nat
    <3>1. produced \in Nat /\ produced + 1 \in Int /\ Synthetic \in Int /\ results \in Seq(Int)
      BY DEF TypeOK, Synthetic
    <3>2. Append(results, Synthetic) \in Seq(Int) /\ Append(results, produced + 1) \in Seq(Int)
      BY <3>1, ResultType
    <3>3. \/ results' = Append(results, produced + 1) /\ produced' = produced + 1
          \/ results' = Append(results, Synthetic) /\ produced' = produced
      BY <1>17 DEF ToolReturns
    <3>4. produced + 1 \in Nat
      BY <3>1
    <3>5. CASE results' = Append(results, produced + 1) /\ produced' = produced + 1
      BY <3>2, <3>4, <3>5, Zenon
    <3>6. CASE results' = Append(results, Synthetic) /\ produced' = produced
      BY <3>1, <3>2, <3>6, Zenon
    <3> QED
      BY <3>3, <3>5, <3>6, Zenon
  <2> QED
    BY <1>17, <2>1 DEF ToolReturns, TypeOK
<1>18. CASE Finish
  <2>1. results \in Seq(Int) /\ next \in 1 .. Len(results) /\ results[next] >= 0
    <3>1. results \in Seq(Int) /\ next \in Nat /\ resp.size \in Nat
      BY DEF TypeOK, Response
    <3>2. next \in 1 .. (resp.size + 1) /\ Len(results) = next /\ \A i \in DOMAIN results : results[i] >= 0
      BY <1>18 DEF Finish, StageInv
    <3>3. next \in 1 .. Len(results) /\ next \in DOMAIN results
      BY <3>1, <3>2
    <3> QED
      BY <3>1, <3>2, <3>3
  <2>2. results[next] \in Nat /\ next \in Nat
    BY <2>1
  <2>3. ToolResult(Call(next), results[next]) \in EntryType
    BY <2>1, <2>2, CallType, EntryTypes
  <2>4. journal' \in Seq(EntryType)
    BY <1>18, <2>3, AppendType DEF Finish, TypeOK
  <2> QED
    BY <1>18, <2>4 DEF Finish, TypeOK
<1>19. CASE HookRefuses
  <2>1. Entry("Hook", <<0, 0>>, 0) \in EntryType
    BY DEF Entry, EntryType, Kinds
  <2>2. journal' \in Seq(EntryType)
    BY <1>19, <2>1, AppendType DEF HookRefuses, TypeOK
  <2> QED
    BY <1>19, <2>2, RecordTypes DEF HookRefuses, TypeOK
<1>20. CASE ProviderFails
  BY <1>20, RecordTypes DEF ProviderFails, TypeOK
<1>21. CASE TurnFails
  BY <1>21, RecordTypes DEF TurnFails, TypeOK
<1>22. CASE Steer
  <2>1. bounds' \in [inputs : Nat, faults : Nat, crashes : Nat]
    BY <1>22, RecordTypes DEF Steer
  <2>2. queue' \in Nat
    <3>1. queue \in Nat /\ queue' = queue + 1
      BY <1>22 DEF Steer, TypeOK
    <3> QED
      BY <3>1
  <2> QED
    BY <1>22, <2>1, <2>2 DEF Steer, TypeOK
<1>23. CASE Crash
  <2>1. resp' \in Response /\ results' \in Seq(Int)
    BY <1>23 DEF Crash, NoResponse, Response
  <2>2. recorded' \in Seq(EntryType) /\ cursor' \in 0 .. Len(recorded')
    BY <1>23 DEF Crash, TypeOK
  <2>3. messages' \in Seq(EntryType) /\ journal' \in Seq(EntryType)
    BY <1>23 DEF Crash
  <2> QED
    BY <1>23, <2>1, <2>2, <2>3, RecordTypes DEF Crash, TypeOK
<1>24. ASSUME NEW flag \in {"cancelled", "killed"}, Signal(flag)
       PROVE  TypeOK'
  <2>1. flags' \in [cancelled : BOOLEAN, killed : BOOLEAN, approval : BOOLEAN]
    <3>1. CASE flag = "cancelled"
      BY <1>24, <3>1 DEF Signal, TypeOK
    <3>2. CASE flag = "killed"
      BY <1>24, <3>2 DEF Signal, TypeOK
    <3> QED
      BY <3>1, <3>2
  <2> QED
    BY <1>24, <2>1, RecordTypes DEF Signal, TypeOK
<1>25. CASE Restart
  BY <1>25 DEF Restart, TypeOK
<1>26. ASSUME NEW e \in EntryType, Nests(e)
       PROVE  TypeOK'
  <2>1. journal' \in Seq(EntryType)
    BY <1>26, AppendType DEF Nests, TypeOK
  <2> QED
    BY <1>26, <2>1 DEF Nests, TypeOK
<1> QED
  BY <1>1, <1>2, <1>3, <1>4, <1>5, <1>6, <1>7, <1>8, <1>9, <1>10, <1>11, <1>12, <1>13, <1>14, <1>15, <1>16, <1>17,
     <1>18, <1>19, <1>20, <1>21, <1>22, <1>23, <1>24, <1>25, <1>26, NestedEntry
  DEF Next, TurnStep, ToolStep, FaultStep

\* Nothing is required of a run that ended.
LEMMA EndedStage ==
    ASSUME pc' = "ended"
    PROVE  StageInv'
BY DEF StageInv

\* A journaled and consumed entry moves to the next place or ends the run.
LEMMA JournalGoto ==
    ASSUME NEW e, NEW to, JournalAndConsume(e, to)
    PROVE  \/ pc' = "ended"
           \/ /\ pc' = to /\ outcome' = outcome
              /\ \/ AtFrontier /\ cursor' = cursor
                 \/ ~AtFrontier /\ Upcoming = e /\ cursor' = cursor + 1
BY DEF JournalAndConsume, Goto, Ends

\* Every step keeps the stages.
LEMMA StageStep ==
    ASSUME TypeOK, StageInv, Next
    PROVE  StageInv'
<1> USE DEF Goto, Ends, turnVars, replayVars, envVars
<1>0. resp.size \in Nat /\ next \in Nat /\ results \in Seq(Int) /\ produced \in Nat
  BY DEF TypeOK, Response
<1>1. CASE pc' = "ended"
  BY <1>1, EndedStage
<1> SUFFICES ASSUME pc' # "ended"
             PROVE  StageInv'
  BY <1>1
<1>2. CASE StartTurn
  <2>1. pc' = "started" /\ outcome' = outcome
    BY <1>2, JournalGoto DEF StartTurn
  <2> QED
    BY <1>2, <2>1 DEF StartTurn, StageInv
<1>3. CASE Request
  <2>1. pc' = "requested" /\ outcome' = outcome
    BY <1>3, JournalGoto DEF Request
  <2> QED
    BY <1>3, <2>1 DEF Request, StageInv
<1>4. CASE ReplayResponse
  BY <1>4 DEF ReplayResponse, StageInv
<1>5. CASE CallProvider
  BY <1>5 DEF CallProvider, StageInv, AtFrontier
<1>6. ASSUME NEW n \in Sizes, NEW p \in Parallel, ProviderAnswers(n, p)
      PROVE  StageInv'
  BY <1>6 DEF ProviderAnswers, StageInv
<1>7. CASE Respond
  BY <1>0, <1>7 DEF Respond, StageInv
<1>10. CASE EndTurn
  BY <1>10 DEF EndTurn, StageInv
<1>11. CASE BatchCall
  <2>1. /\ pc' = "batch" /\ outcome' = outcome /\ next' = next + 1
        /\ UNCHANGED <<resp, results, running, recorded, cursor, flags>>
    BY <1>11 DEF BatchCall
  <2>2. next <= resp.size /\ next >= 1 /\ running = {} /\ resp.parallel /\ ~flags.approval /\ resp.size > 0 /\ AtFrontier
        /\ outcome # "diverged"
    BY <1>0, <1>11 DEF BatchCall, StageInv, Batched
  <2>3. next + 1 \in 2 .. (resp.size + 1)
    BY <1>0, <2>2
  <2> QED
    BY <2>1, <2>2, <2>3 DEF StageInv, AtFrontier
<1>12. CASE BatchRun
  <2>1. /\ pc' = "batchrun" /\ outcome' = outcome /\ next' = 1 /\ results' = [i \in 1 .. resp.size |-> -1]
        /\ running' = 1 .. resp.size
        /\ UNCHANGED <<resp, recorded, cursor, flags>>
    BY <1>12 DEF BatchRun
  <2>2. resp.parallel /\ ~flags.approval /\ resp.size > 0 /\ AtFrontier /\ outcome # "diverged"
    BY <1>0, <1>12 DEF BatchRun, StageInv
  <2>3. 1 \in 1 .. (resp.size + 1) /\ Len(results') = resp.size /\ (1 .. resp.size) \ running' = {}
    BY <1>0, <2>1, <2>2
  <2>4. /\ next' \in 1 .. (resp'.size + 1) /\ ~(next' > 1) /\ Len(results') = resp'.size
        /\ \A i \in (1 .. resp'.size) \ running' : results'[i] >= 0
    <3>1. resp' = resp /\ next' = 1
      BY <2>1
    <3>2. \A i \in (1 .. resp.size) \ running' : results'[i] >= 0
      BY <2>3
    <3>3. ~(1 > 1)
      OBVIOUS
    <3> QED
      BY <2>3, <3>1, <3>2, <3>3
  <2>5. pc' = "batchrun" /\ outcome' # "diverged" /\ resp'.parallel /\ ~flags'.approval /\ resp'.size > 0 /\ AtFrontier'
    BY <2>1, <2>2 DEF AtFrontier
  <2> QED
    BY <2>4, <2>5 DEF StageInv
<1>13. CASE BatchResult
  <2>1. /\ pc = "batchrun" /\ pc' = "batchrun" /\ outcome' = outcome /\ next' = next + 1 /\ next <= resp.size /\ running = {}
        /\ UNCHANGED <<resp, results, running, recorded, cursor, flags>>
    BY <1>13 DEF BatchResult
  <2>2. next + 1 \in 1 .. (resp.size + 1)
    BY <1>0, <2>1
  <2> QED
    BY <2>1, <2>2 DEF StageInv, AtFrontier
<1>14. ASSUME NEW i \in running, BatchToolReturns(i)
       PROVE  StageInv'
  <2>1. /\ pc = "batchrun" /\ pc' = "batchrun" /\ outcome' = outcome /\ running' = running \ {i}
        /\ \E v \in Nat : results' = [results EXCEPT ![i] = v]
        /\ UNCHANGED <<resp, next, recorded, cursor, flags>>
    BY <1>0, <1>14 DEF BatchToolReturns, Synthetic
  <2>2. PICK v \in Nat : results' = [results EXCEPT ![i] = v]
    BY <2>1
  <2>3. i \in 1 .. resp.size /\ Len(results) = resp.size
    BY <2>1 DEF TypeOK, StageInv
  <2>4. Len(results') = resp.size /\ results'[i] = v /\ \A h \in (1 .. resp.size) \ {i} : results'[h] = results[h]
    BY <1>0, <2>2, <2>3
  <2>5. \A h \in (1 .. resp.size) \ running' : results'[h] >= 0
    <3> TAKE h \in (1 .. resp.size) \ running'
    <3>1. CASE h = i
      BY <2>4, <3>1
    <3>2. CASE h # i
      <4>1. h \in (1 .. resp.size) \ running
        BY <2>1, <3>2
      <4> QED
        BY <2>1, <2>4, <3>2, <4>1 DEF StageInv
    <3> QED
      BY <3>1, <3>2
  <2>6. next > 1 => running' = {}
    BY <2>1 DEF StageInv
  <2> QED
    BY <2>1, <2>4, <2>5, <2>6 DEF StageInv, AtFrontier
<1>15. CASE SerialCall
  <2>1. /\ pc = "dispatch" /\ next <= resp.size /\ outcome' = outcome /\ UNCHANGED <<resp, next, running, recorded, flags>>
        /\ \/ pc' = "approve" /\ results' = results /\ cursor' = cursor /\ AtFrontier
           \/ pc' = "approve" /\ results' = results /\ cursor' = cursor + 1 /\ ~AtFrontier /\ ~(cursor + 1 < Len(recorded))
           \/ pc' = "finish" /\ \E j \in Found(Call(next)) : results' = Append(results, recorded[j].v)
    BY <1>15 DEF SerialCall
  <2>2. /\ next \in 1 .. (resp.size + 1) /\ Len(results) = next - 1 /\ \A i \in DOMAIN results : results[i] >= 0
        /\ resp.size > 0 /\ running = {} /\ outcome # "diverged"
    BY <2>1 DEF StageInv
  <2>3. CASE pc' = "approve"
    <3>1. results' = results
      BY <2>1, <2>3
    <3>2. AtFrontier'
      <4>1. cursor \in 0 .. Len(recorded) /\ Len(recorded) \in Nat
        BY DEF TypeOK
      <4> QED
        BY <2>1, <2>3, <4>1 DEF AtFrontier
    <3> QED
      BY <2>1, <2>2, <2>3, <3>1, <3>2 DEF StageInv
  <2>4. CASE pc' = "finish"
    <3>1. PICK j \in Found(Call(next)) : results' = Append(results, recorded[j].v)
      BY <2>1, <2>4
    <3>2. recorded \in Seq(EntryType) /\ cursor \in Nat
      BY DEF TypeOK
    <3>3. j \in 1 .. Len(recorded)
      BY <3>2 DEF Found
    <3>4. recorded[j] \in EntryType
      BY <3>2, <3>3
    <3>5. recorded[j].v \in Nat
      BY <3>4 DEF EntryType
    <3>6. Len(results') = next /\ \A i \in DOMAIN results' : results'[i] >= 0
      BY <1>0, <2>2, <3>1, <3>5
    <3> QED
      BY <2>1, <2>2, <2>4, <3>6 DEF StageInv
  <2> QED
    BY <2>1, <2>3, <2>4
<1>16. CASE Approve
  <2>1. /\ pc = "approve" /\ outcome' = outcome /\ UNCHANGED <<resp, next, recorded, cursor, flags>>
        /\ \/ pc' = "exec" /\ running' = {next} /\ results' = results
           \/ pc' = "finish" /\ running' = running /\ results' = Append(results, 0)
    BY <1>16 DEF Approve, Synthetic
  <2>2. /\ next \in 1 .. (resp.size + 1) /\ next <= resp.size /\ Len(results) = next - 1
        /\ \A i \in DOMAIN results : results[i] >= 0
        /\ resp.size > 0 /\ running = {} /\ outcome # "diverged" /\ AtFrontier
    BY <2>1 DEF StageInv
  <2>3. CASE pc' = "exec"
    BY <2>1, <2>2, <2>3 DEF StageInv, AtFrontier
  <2>4. CASE pc' = "finish"
    <3>1. Len(results') = next /\ \A i \in DOMAIN results' : results'[i] >= 0
      BY <1>0, <2>1, <2>2, <2>4
    <3> QED
      BY <2>1, <2>2, <2>4, <3>1 DEF StageInv
  <2> QED
    BY <2>1, <2>3, <2>4
<1>17. CASE ToolReturns
  <2>1. /\ pc = "exec" /\ pc' = "finish" /\ outcome' = outcome /\ running' = {} /\ UNCHANGED <<resp, next, recorded, cursor, flags>>
        /\ \E v \in Nat : results' = Append(results, v)
    BY <1>0, <1>17 DEF ToolReturns, Synthetic
  <2>2. /\ next \in 1 .. (resp.size + 1) /\ next <= resp.size /\ Len(results) = next - 1
        /\ \A i \in DOMAIN results : results[i] >= 0
        /\ resp.size > 0 /\ outcome # "diverged"
    BY <2>1 DEF StageInv
  <2>3. Len(results') = next /\ \A i \in DOMAIN results' : results'[i] >= 0
    BY <1>0, <2>1, <2>2
  <2> QED
    BY <2>1, <2>2, <2>3 DEF StageInv
<1>18. CASE Finish
  <2>1. /\ pc = "finish" /\ pc' = "dispatch" /\ outcome' = outcome /\ next' = next + 1
        /\ UNCHANGED <<resp, results, running, recorded, cursor, flags>>
    BY <1>18 DEF Finish
  <2>2. /\ next \in 1 .. (resp.size + 1) /\ next <= resp.size /\ Len(results) = next
        /\ \A i \in DOMAIN results : results[i] >= 0
        /\ resp.size > 0 /\ running = {} /\ outcome # "diverged"
    BY <2>1 DEF StageInv
  <2>3. next + 1 \in 1 .. (resp.size + 1) /\ next + 1 - 1 = next
    BY <1>0, <2>2
  <2> QED
    BY <2>1, <2>2, <2>3 DEF StageInv
<1>22. CASE Steer
  BY <1>22 DEF Steer, StageInv, AtFrontier
<1>23. CASE Crash
  BY <1>23 DEF Crash, StageInv
<1>24. ASSUME NEW flag \in {"cancelled", "killed"}, Signal(flag)
       PROVE  StageInv'
  <2>1. flags'.approval = flags.approval
    BY <1>24 DEF Signal, TypeOK
  <2> QED
    BY <1>24, <2>1 DEF Signal, StageInv, AtFrontier
<1>25. CASE Restart
  BY <1>25 DEF Restart, StageInv
<1>26. ASSUME NEW e \in EntryType, Nests(e)
       PROVE  StageInv'
  BY <1>26 DEF Nests, StageInv, AtFrontier
<1>27. StopBetweenTurns \/ KilledAtResponse \/ Complete \/ HookRefuses \/ ProviderFails \/ TurnFails => pc' = "ended"
  BY DEF StopBetweenTurns, KilledAtResponse, Complete, HookRefuses, ProviderFails, TurnFails
<1> QED
  BY <1>2, <1>3, <1>4, <1>5, <1>6, <1>7, <1>10, <1>11, <1>12, <1>13, <1>14, <1>15, <1>16, <1>17,
     <1>18, <1>22, <1>23, <1>24, <1>25, <1>26, <1>27, NestedEntry
  DEF Next, TurnStep, ToolStep, FaultStep

-----------------------------------------------------------------------------
(* The conversation and the journal.                                         *)

\* The kinds of the entries.
LEMMA EntryKinds ==
    /\ TurnStart.k = "TurnStart" /\ Input.k = "Input"
    /\ \A n : LlmRequest(n).k = "LlmRequest"
    /\ \A r : LlmResponse(r).k = "LlmResponse"
    /\ \A c : ToolCall(c).k = "ToolCall" /\ Effect(c).k = "Effect"
    /\ \A c, v : ToolResult(c, v).k = "ToolResult" /\ ToolResult(c, v).c = c /\ ToolResult(c, v).v = v
BY DEF Entry, TurnStart, LlmRequest, LlmResponse, ToolCall, Effect, ToolResult, Input

\* No result is ahead of the conversation.
LEMMA AheadNone ==
    ASSUME NEW r, NEW s, NEW n
    PROVE  Ahead(r, s, n, 0) = {}
BY DEF Ahead

\* The results ahead depend on the response and its first results only.
LEMMA AheadSame ==
    ASSUME NEW r, NEW q, NEW s, NEW t, NEW n, NEW d \in Nat, d = 0 \/ r = q, \A i \in 1 .. d : s[i] = t[i]
    PROVE  Ahead(r, s, n, d) = Ahead(q, t, n, d)
<1>1. CASE d = 0
  BY <1>1, AheadNone
<1>2. CASE r = q
  BY <1>2 DEF Ahead
<1> QED
  BY <1>1, <1>2

\* Appending leaves what was there.
LEMMA AppendKeeps ==
    ASSUME NEW S, NEW s \in Seq(S), NEW v
    PROVE  \A i \in 1 .. Len(s) : Append(s, v)[i] = s[i]
<1>1. s \in [1 .. Len(s) -> S \cup {v}]
  OBVIOUS
<1>2. s \in Seq(S \cup {v}) /\ v \in S \cup {v}
  BY <1>1
<1> QED
  BY <1>2

\* The number of finished calls is a number.
LEMMA DoneType ==
    ASSUME TypeOK, StageInv
    PROVE  Done \in Nat
<1>1. resp.size \in Nat /\ next \in Nat
  BY DEF TypeOK, Response
<1> QED
  BY <1>1 DEF StageInv, Done

\* The journal is as it was, or one entry longer.
Writes(K) ==
    \/ journal' = journal
    \/ \E e \in EntryType : e.k \in K /\ journal' = Append(journal, e)

\* Steps that leave the conversation, and its distance to the journal, alone.
LEMMA ChatQuiet ==
    ASSUME TypeOK, ChatInv, pc # "ended", pc' # "ended", messages' = messages, Done \in Nat, Done' = Done,
           Writes(Kinds \ ChatKinds), Done = 0 \/ resp' = resp, \A i \in 1 .. Done : results'[i] = results[i]
    PROVE  ChatInv'
<1>1. /\ Count(journal', Len(journal'), ChatKinds) = Count(journal, Len(journal), ChatKinds)
      /\ Chat(journal') = Chat(journal)
  <2>1. CASE journal' = journal
    BY <2>1
  <2>2. ASSUME NEW e \in EntryType, e.k \in Kinds \ ChatKinds, journal' = Append(journal, e)
        PROVE  <1>1
    <3>1. journal \in Seq(EntryType) /\ e.k \notin ChatKinds
      BY <2>2 DEF TypeOK
    <3>2. /\ Count(journal, Len(journal), ChatKinds) \in Nat
          /\ Count(journal', Len(journal'), ChatKinds) = Count(journal, Len(journal), ChatKinds) + (IF e.k \in ChatKinds THEN 1 ELSE 0)
          /\ SelectTo(journal', Len(journal'), ChatKinds) = SelectTo(journal, Len(journal), ChatKinds)
      BY <2>2, <3>1, SelectAppend
    <3> QED
      BY <3>1, <3>2 DEF Chat
  <2> QED
    BY <2>1, <2>2 DEF Writes
<1>2. \A n : Ahead(resp', results', n, Done) = Ahead(resp, results, n, Done)
  BY AheadSame
<1> QED
  BY <1>1, <1>2 DEF ChatInv

\* The journal never loses what the conversation shows.
LEMMA ChatEnded ==
    ASSUME TypeOK, ChatInv, pc # "ended", pc' = "ended", Chat(messages') = Chat(messages), Writes(Kinds)
    PROVE  ChatInv'
<1>1. Chat(messages) \subseteq Chat(journal)
  BY DEF ChatInv
<1>2. Chat(journal) \subseteq Chat(journal')
  <2>1. ASSUME NEW e \in EntryType, journal' = Append(journal, e)
        PROVE  Chat(journal) \subseteq Chat(journal')
    <3>1. journal \in Seq(EntryType)
      BY DEF TypeOK
    <3>2. SelectTo(journal, Len(journal), ChatKinds) \subseteq SelectTo(journal', Len(journal'), ChatKinds)
      BY <2>1, <3>1, SelectAppend
    <3> QED
      BY <3>2 DEF Chat
  <2> QED
    BY <2>1 DEF Writes
<1> QED
  BY <1>1, <1>2 DEF ChatInv

\* Queued inputs do not change the selection of the conversation.
LEMMA DrainQueue ==
    ASSUME TypeOK, messages' = messages \o [i \in 1 .. queue |-> Input]
    PROVE  /\ Count(messages', Len(messages'), ChatKinds) = Count(messages, Len(messages), ChatKinds)
           /\ Chat(messages') = Chat(messages)
<1> DEFINE t == [i \in 1 .. queue |-> Input]
<1>1. messages \in Seq(EntryType) /\ queue \in Nat
  BY DEF TypeOK
<1>2. t \in Seq(EntryType) /\ Len(t) = queue /\ \A i \in 1 .. Len(t) : t[i] = Input
  BY <1>1, EntryTypes
<1>3. \A i \in 1 .. Len(t) : t[i].k \notin ChatKinds
  BY <1>2, EntryKinds DEF ChatKinds
<1>4. messages' = messages \o t
  OBVIOUS
<1> HIDE DEF t
<1>5. LET u == messages \o t
      IN /\ Count(u, Len(u), ChatKinds) = Count(messages, Len(messages), ChatKinds)
         /\ SelectTo(u, Len(u), ChatKinds) = SelectTo(messages, Len(messages), ChatKinds)
  BY <1>1, <1>2, <1>3, SelectNoBlock
<1> QED
  BY <1>4, <1>5 DEF Chat

\* What an action that ends the run may have written.
LEMMA EndingWrites ==
    ASSUME TypeOK, StageInv, Next, pc' = "ended"
    PROVE  Writes(Kinds) /\ (messages' = messages \/ messages' = messages \o [i \in 1 .. queue |-> Input])
<1> USE DEF Goto, Ends, turnVars, replayVars, envVars
<1>1. \A e \in EntryType : e.k \in Kinds
  BY DEF EntryType
<1>2. CASE StartTurn
  <2>1. TurnStart \in EntryType /\ journal' = Append(journal, TurnStart)
    BY <1>2, EntryTypes DEF StartTurn, JournalAndConsume
  <2> QED
    BY <1>1, <1>2, <2>1 DEF StartTurn, Writes
<1>3. CASE Request
  <2>1. LlmRequest(Len(messages)) \in EntryType /\ journal' = Append(journal, LlmRequest(Len(messages)))
    BY <1>3, EntryTypes DEF Request, JournalAndConsume, TypeOK
  <2> QED
    BY <1>1, <1>3, <2>1 DEF Request, Writes
<1>4. CASE SerialCall
  <2>1. ToolCall(Call(next)) \in EntryType /\ journal' = Append(journal, ToolCall(Call(next)))
    BY <1>4, CallType, EntryTypes DEF SerialCall, TypeOK
  <2> QED
    BY <1>1, <1>4, <2>1 DEF SerialCall, Writes
<1>5. CASE HookRefuses
  <2>1. Entry("Hook", <<0, 0>>, 0) \in EntryType
    BY DEF Entry, EntryType, Kinds
  <2> QED
    BY <1>1, <1>5, <2>1 DEF HookRefuses, Writes
<1>6. CASE \/ StopBetweenTurns \/ ReplayResponse \/ CallProvider \/ KilledAtResponse \/ Complete \/ EndTurn
           \/ ProviderFails \/ TurnFails
  BY <1>6 DEF StopBetweenTurns, ReplayResponse, CallProvider, KilledAtResponse, Complete, EndTurn, ProviderFails, TurnFails, Writes
<1>7. /\ \A n \in Sizes, p \in Parallel : ProviderAnswers(n, p) => pc' # "ended"
      /\ \A i \in running : BatchToolReturns(i) => pc' # "ended"
      /\ \A e \in EntryType : Nests(e) => pc' # "ended"
      /\ Respond \/ BatchCall \/ BatchRun \/ BatchResult \/ Approve \/ ToolReturns \/ Finish \/ Crash \/ Restart => pc' # "ended"
      /\ Steer => pc' # "ended"
      /\ \A flag \in {"cancelled", "killed"} : Signal(flag) => pc' # "ended"
  BY DEF ProviderAnswers, Nests, BatchToolReturns, Respond, BatchCall, BatchRun, BatchResult, Approve, ToolReturns,
         Finish, Crash, Restart, Steer, Signal
<1> QED
  BY <1>2, <1>3, <1>4, <1>5, <1>6, <1>7, NestedEntry DEF Next, TurnStep, ToolStep, FaultStep

\* Every step keeps the conversation and the journal together.
LEMMA ChatStep ==
    ASSUME TypeOK, StageInv, StageInv', ChatInv, Next
    PROVE  ChatInv'
<1> USE DEF Goto, Ends, turnVars, replayVars, envVars
<1>0. /\ resp.size \in Nat /\ next \in Nat /\ results \in Seq(Int) /\ Done \in Nat
      /\ messages \in Seq(EntryType) /\ journal \in Seq(EntryType)
  BY DoneType DEF TypeOK, Response
<1>1. pc # "ended"
  BY EndedStays
<1>e. CASE pc' = "ended"
  <2>1. Writes(Kinds) /\ Chat(messages') = Chat(messages)
    BY <1>e, EndingWrites, DrainQueue
  <2> QED
    BY <1>1, <1>e, <2>1, ChatEnded
<1> SUFFICES ASSUME pc' # "ended"
             PROVE  ChatInv'
  BY <1>e
<1>k. \A e \in EntryType : e.k \in Kinds
  BY DEF EntryType
<1>2. CASE StartTurn
  <2>1. pc = "idle" /\ pc' = "started" /\ journal' = Append(journal, TurnStart)
        /\ messages' = messages \o [i \in 1 .. queue |-> Input]
    BY <1>2, JournalGoto DEF StartTurn, JournalAndConsume
  <2>2. Done = 0 /\ Done' = 0
    BY <2>1 DEF Done
  <2>3. TurnStart \in EntryType /\ TurnStart.k \notin ChatKinds
    BY EntryTypes, EntryKinds DEF ChatKinds
  <2>4. /\ Count(journal', Len(journal'), ChatKinds) = Count(journal, Len(journal), ChatKinds)
        /\ Chat(journal') = Chat(journal)
    <3>1. /\ Count(journal, Len(journal), ChatKinds) \in Nat
          /\ Count(journal', Len(journal'), ChatKinds) = Count(journal, Len(journal), ChatKinds) + (IF TurnStart.k \in ChatKinds THEN 1 ELSE 0)
          /\ SelectTo(journal', Len(journal'), ChatKinds) = SelectTo(journal, Len(journal), ChatKinds)
      BY <1>0, <2>1, <2>3, SelectAppend
    <3> QED
      BY <2>3, <3>1 DEF Chat
  <2>5. /\ Count(messages', Len(messages'), ChatKinds) = Count(messages, Len(messages), ChatKinds)
        /\ Chat(messages') = Chat(messages)
    BY <2>1, DrainQueue
  <2> QED
    BY <1>1, <2>2, <2>4, <2>5, AheadNone DEF ChatInv
<1>3. CASE Request
  <2>1. pc = "started" /\ pc' = "requested" /\ journal' = Append(journal, LlmRequest(Len(messages)))
    BY <1>3, JournalGoto DEF Request, JournalAndConsume
  <2>2. LlmRequest(Len(messages)) \in EntryType /\ LlmRequest(Len(messages)).k \notin ChatKinds
    BY <1>0, EntryTypes, EntryKinds DEF ChatKinds
  <2>3. Writes(Kinds \ ChatKinds)
    BY <1>k, <2>1, <2>2 DEF Writes
  <2>4. Done = 0 /\ Done' = 0 /\ messages' = messages
    BY <1>3, <2>1 DEF Done, Request
  <2> QED
    BY <1>1, <2>3, <2>4, ChatQuiet
<1>4. CASE ReplayResponse \/ CallProvider \/ \E n \in Sizes : \E p \in Parallel : ProviderAnswers(n, p)
  <2>1. /\ pc \in {"requested", "calling"} /\ pc' \in {"calling", "responded"}
        /\ messages' = messages /\ journal' = journal
    BY <1>4 DEF ReplayResponse, CallProvider, ProviderAnswers
  <2>2. Done = 0 /\ Done' = 0 /\ Writes(Kinds \ ChatKinds)
    BY <2>1 DEF Done, Writes
  <2> QED
    BY <1>1, <2>1, <2>2, ChatQuiet
<1>7. CASE Respond
  <2> DEFINE e == LlmResponse(resp)
  <2>1. /\ pc = "responded" /\ pc' \in {"pushed", "dispatch"} /\ next' = 1
        /\ journal' = Append(journal, e) /\ messages' = Append(messages, e)
    BY <1>7 DEF Respond
  <2>2. e \in EntryType /\ e.k \in ChatKinds
    BY EntryTypes, EntryKinds DEF ChatKinds, TypeOK
  <2>3. Done = 0 /\ Done' = 0
    BY <2>1 DEF Done
  <2> HIDE DEF e
  <2>4. /\ Count(journal, Len(journal), ChatKinds) \in Nat
        /\ Count(journal', Len(journal'), ChatKinds) = Count(journal, Len(journal), ChatKinds) + (IF e.k \in ChatKinds THEN 1 ELSE 0)
        /\ SelectTo(journal', Len(journal'), ChatKinds) = SelectTo(journal, Len(journal), ChatKinds) \cup {<<Count(journal, Len(journal), ChatKinds) + 1, e>>}
    BY <1>0, <2>1, <2>2, SelectAppend
  <2>5. /\ Count(messages, Len(messages), ChatKinds) \in Nat
        /\ Count(messages', Len(messages'), ChatKinds) = Count(messages, Len(messages), ChatKinds) + (IF e.k \in ChatKinds THEN 1 ELSE 0)
        /\ SelectTo(messages', Len(messages'), ChatKinds) = SelectTo(messages, Len(messages), ChatKinds) \cup {<<Count(messages, Len(messages), ChatKinds) + 1, e>>}
    BY <1>0, <2>1, <2>2, SelectAppend
  <2>6. Count(journal, Len(journal), ChatKinds) = Count(messages, Len(messages), ChatKinds) /\ Chat(journal) = Chat(messages)
    <3>1. /\ Count(journal, Len(journal), ChatKinds) = Count(messages, Len(messages), ChatKinds) + Done
          /\ Chat(journal) = Chat(messages) \cup Ahead(resp, results, Count(messages, Len(messages), ChatKinds), Done)
      BY <1>1 DEF ChatInv
    <3>2. Ahead(resp, results, Count(messages, Len(messages), ChatKinds), Done) = {}
      BY <2>3, AheadNone
    <3> QED
      BY <2>3, <2>5, <3>1, <3>2
  <2>7. Count(journal', Len(journal'), ChatKinds) = Count(messages', Len(messages'), ChatKinds) + 0 /\ Chat(journal') = Chat(messages')
    BY <2>2, <2>4, <2>5, <2>6 DEF Chat
  <2> QED
    BY <2>3, <2>7, AheadNone DEF ChatInv
<1>10. CASE EndTurn
  <2> DEFINE t == [i \in 1 .. resp.size |-> ToolResult(Call(i), results[i])]
             n == Count(messages, Len(messages), ChatKinds)
  <2>1. pc \in {"dispatch", "batchrun"} /\ pc' = "idle" /\ next > resp.size /\ messages' = messages \o t /\ journal' = journal
        /\ running = {}
    BY <1>10 DEF EndTurn
  <2>2. Done = resp.size /\ Done' = 0
    <3>1. next = resp.size + 1
      BY <1>0, <2>1 DEF StageInv
    <3> QED
      BY <1>0, <2>1, <3>1 DEF Done
  <2>3. t \in Seq(EntryType) /\ Len(t) = resp.size
    <3>1. \A i \in 1 .. resp.size : results[i] \in Nat
      <4>1. CASE pc = "dispatch"
        <5>1. Len(results) = next - 1 /\ next = resp.size + 1 /\ \A i \in DOMAIN results : results[i] >= 0
          BY <1>0, <2>1, <4>1 DEF StageInv
        <5> QED
          BY <1>0, <5>1
      <4>2. CASE pc = "batchrun"
        <5>1. Len(results) = resp.size /\ \A i \in 1 .. resp.size : results[i] >= 0
          BY <1>0, <2>1, <4>2 DEF StageInv
        <5> QED
          BY <1>0, <5>1
      <4> QED
        BY <2>1, <4>1, <4>2
    <3>2. \A i \in 1 .. resp.size : ToolResult(Call(i), results[i]) \in EntryType
      BY <3>1, CallType, EntryTypes
    <3>3. t \in [1 .. resp.size -> EntryType]
      BY <3>2
    <3>4. resp.size \in Nat
      BY <1>0
    <3> HIDE DEF t
    <3> QED
      BY <3>3, <3>4, TupleSeq
  <2>4. \A i \in 1 .. resp.size : t[i] = ToolResult(<<resp.id, i>>, results[i]) /\ t[i].k \in ChatKinds
    BY EntryKinds DEF ChatKinds, Call
  <2> HIDE DEF t
  <2>k. \A i \in 1 .. Len(t) : t[i].k \in ChatKinds
    BY <2>3, <2>4
  <2>5. LET u == messages \o t
        IN /\ Count(u, Len(u), ChatKinds) = n + Len(t)
           /\ SelectTo(u, Len(u), ChatKinds) = SelectTo(messages, Len(messages), ChatKinds) \cup {<<n + i, t[i]>> : i \in 1 .. Len(t)}
    BY <1>0, <2>3, <2>k, SelectBlock
  <2>6. {<<n + i, t[i]>> : i \in 1 .. Len(t)} = Ahead(resp, results, n, Done)
    BY <2>2, <2>3, <2>4 DEF Ahead
  <2>7. Count(messages', Len(messages'), ChatKinds) = n + Done /\ Chat(messages') = Chat(messages) \cup Ahead(resp, results, n, Done)
    BY <2>1, <2>2, <2>3, <2>5, <2>6 DEF Chat
  <2>8. Count(journal, Len(journal), ChatKinds) = n + Done /\ Chat(journal) = Chat(messages) \cup Ahead(resp, results, n, Done)
    BY <1>1 DEF ChatInv
  <2>9. n + Done \in Nat
    BY <1>0, <2>8, CountStep
  <2> HIDE DEF n
  <2>10. Count(journal', Len(journal'), ChatKinds) = Count(messages', Len(messages'), ChatKinds) + 0 /\ Chat(journal') = Chat(messages')
    BY <2>1, <2>7, <2>8, <2>9
  <2> QED
    BY <2>2, <2>10, AheadNone DEF ChatInv
<1>11. CASE BatchCall
  <2>1. /\ pc \in {"dispatch", "batch"} /\ (pc = "dispatch" => next = 1) /\ pc' = "batch"
        /\ messages' = messages /\ journal' = Append(journal, ToolCall(Call(next)))
    BY <1>11 DEF BatchCall
  <2>2. ToolCall(Call(next)) \in EntryType /\ ToolCall(Call(next)).k \notin ChatKinds
    BY <1>0, CallType, EntryTypes, EntryKinds DEF ChatKinds
  <2>3. Writes(Kinds \ ChatKinds)
    BY <1>k, <2>1, <2>2 DEF Writes
  <2>4. Done = 0 /\ Done' = 0
    BY <2>1 DEF Done
  <2> QED
    BY <1>1, <2>1, <2>3, <2>4, ChatQuiet
<1>12. CASE BatchRun
  <2>1. pc = "batch" /\ pc' = "batchrun" /\ next' = 1 /\ messages' = messages /\ journal' = journal
    BY <1>12 DEF BatchRun
  <2>2. Done = 0 /\ Done' = 0 /\ Writes(Kinds \ ChatKinds)
    BY <2>1 DEF Done, Writes
  <2> QED
    BY <1>1, <2>1, <2>2, ChatQuiet
<1>13. CASE BatchResult \/ Finish
  <2> DEFINE e == ToolResult(Call(next), results[next])
             n == Count(messages, Len(messages), ChatKinds)
  <2>1. /\ pc \in {"batchrun", "finish"} /\ pc' \in {"batchrun", "dispatch"} /\ next' = next + 1
        /\ messages' = messages /\ journal' = Append(journal, e) /\ resp' = resp /\ results' = results
    BY <1>13 DEF BatchResult, Finish
  <2>2. next >= 1 /\ results[next] \in Nat
    <3>1. CASE BatchResult
      <4>1. Len(results) = resp.size /\ next \in 1 .. resp.size /\ results[next] >= 0
        BY <1>0, <3>1 DEF BatchResult, StageInv
      <4> QED
        BY <1>0, <4>1
    <3>2. CASE Finish
      <4>1. next \in 1 .. (resp.size + 1) /\ Len(results) = next /\ \A i \in DOMAIN results : results[i] >= 0
        BY <3>2 DEF Finish, StageInv
      <4>2. next \in DOMAIN results
        BY <1>0, <4>1
      <4> QED
        BY <1>0, <4>1, <4>2
    <3> QED
      BY <1>13, <3>1, <3>2
  <2>3. Done = next - 1 /\ Done' = Done + 1
    BY <1>0, <2>1, <2>2 DEF Done
  <2>4. e \in EntryType /\ e.k \in ChatKinds
    <3>1. Call(next) \in Nat \X Nat
      BY <1>0, CallType
    <3>2. e \in EntryType
      BY <2>2, <3>1, EntryTypes
    <3>3. e.k = "ToolResult"
      BY EntryKinds
    <3> QED
      BY <3>2, <3>3 DEF ChatKinds
  <2>5. e = ToolResult(<<resp.id, Done + 1>>, results[Done + 1])
    BY <1>0, <2>3 DEF Call
  <2> HIDE DEF e
  <2>6. /\ Count(journal', Len(journal'), ChatKinds) = Count(journal, Len(journal), ChatKinds) + (IF e.k \in ChatKinds THEN 1 ELSE 0)
        /\ SelectTo(journal', Len(journal'), ChatKinds) = SelectTo(journal, Len(journal), ChatKinds) \cup {<<Count(journal, Len(journal), ChatKinds) + 1, e>>}
    BY <1>0, <2>1, <2>4, SelectAppend
  <2>7. Count(journal, Len(journal), ChatKinds) = n + Done /\ Chat(journal) = Chat(messages) \cup Ahead(resp, results, n, Done)
    BY <1>1 DEF ChatInv
  <2>8. n \in Nat
    BY <1>0, CountStep
  <2>9. Ahead(resp, results, n, Done + 1) = Ahead(resp, results, n, Done) \cup {<<(n + Done) + 1, e>>}
    <3> HIDE DEF n
    <3> DEFINE T(i) == <<n + i, ToolResult(<<resp.id, i>>, results[i])>>
    <3>1. Done \in Nat
      BY <1>0
    <3>2. 1 .. (Done + 1) = (1 .. Done) \cup {Done + 1} /\ n + (Done + 1) = (n + Done) + 1
      BY <2>8, <3>1
    <3>3. T(Done + 1) = <<(n + Done) + 1, e>>
      BY <2>5, <3>2
    <3>4. /\ Ahead(resp, results, n, Done + 1) = {T(i) : i \in 1 .. (Done + 1)}
          /\ Ahead(resp, results, n, Done) = {T(i) : i \in 1 .. Done}
      BY DEF Ahead
    <3> HIDE DEF T
    <3>5. {T(i) : i \in 1 .. (Done + 1)} = {T(i) : i \in 1 .. Done} \cup {T(Done + 1)}
      BY <3>2
    <3> QED
      BY <3>3, <3>4, <3>5
  <2> HIDE DEF n
  <2>10. /\ Count(journal', Len(journal'), ChatKinds) = n + (Done + 1)
         /\ Chat(journal') = Chat(messages) \cup Ahead(resp, results, n, Done + 1)
    BY <1>0, <2>4, <2>6, <2>7, <2>8, <2>9 DEF Chat
  <2>11. n = Count(messages', Len(messages'), ChatKinds)
    BY <2>1 DEF n
  <2> QED
    BY <2>1, <2>3, <2>10, <2>11 DEF ChatInv
<1>14. ASSUME NEW i \in running, BatchToolReturns(i)
       PROVE  ChatInv'
  <2>1. pc = "batchrun" /\ pc' = "batchrun" /\ messages' = messages /\ journal' = journal /\ next' = next /\ next = 1
    BY <1>0, <1>14 DEF BatchToolReturns, StageInv
  <2>2. Done = 0 /\ Done' = 0 /\ Writes(Kinds \ ChatKinds)
    BY <2>1 DEF Done, Writes
  <2> QED
    BY <1>1, <2>1, <2>2, ChatQuiet
<1>15. CASE SerialCall
  <2>1. /\ pc = "dispatch" /\ pc' \in {"approve", "finish"} /\ messages' = messages /\ resp' = resp /\ next' = next
        /\ journal' = Append(journal, ToolCall(Call(next)))
        /\ results' = results \/ \E v : results' = Append(results, v)
    BY <1>15 DEF SerialCall
  <2>2. ToolCall(Call(next)) \in EntryType /\ ToolCall(Call(next)).k \notin ChatKinds
    BY <1>0, CallType, EntryTypes, EntryKinds DEF ChatKinds
  <2>3. Writes(Kinds \ ChatKinds)
    BY <1>k, <2>1, <2>2 DEF Writes
  <2>4. Done = next - 1 /\ Done' = Done /\ Len(results) = Done
    BY <2>1 DEF Done, StageInv
  <2>5. \A i \in 1 .. Done : results'[i] = results[i]
    <3>1. \A v : \A i \in 1 .. Len(results) : Append(results, v)[i] = results[i]
      BY <1>0, AppendKeeps
    <3> QED
      BY <2>1, <2>4, <3>1
  <2> QED
    BY <1>0, <1>1, <2>1, <2>3, <2>4, <2>5, ChatQuiet
<1>16. CASE Approve \/ ToolReturns
  <2>1. /\ pc \in {"approve", "exec"} /\ pc' \in {"exec", "finish"} /\ messages' = messages /\ resp' = resp /\ next' = next
        /\ journal' = journal
        /\ results' = results \/ \E v : results' = Append(results, v)
    BY <1>16 DEF Approve, ToolReturns
  <2>2. Done = next - 1 /\ Done' = Done /\ Len(results) = Done
    BY <2>1 DEF Done, StageInv
  <2>3. \A i \in 1 .. Done : results'[i] = results[i]
    <3>1. \A v : \A i \in 1 .. Len(results) : Append(results, v)[i] = results[i]
      BY <1>0, AppendKeeps
    <3> QED
      BY <2>1, <2>2, <3>1
  <2>4. Writes(Kinds \ ChatKinds)
    BY <2>1 DEF Writes
  <2> QED
    BY <1>0, <1>1, <2>1, <2>2, <2>3, <2>4, ChatQuiet
<1>22. CASE Steer \/ Restart \/ \E flag \in {"cancelled", "killed"} : Signal(flag)
  <2>1. /\ pc' = pc \/ (pc = "crashed" /\ pc' = "idle")
        /\ messages' = messages /\ journal' = journal /\ resp' = resp /\ next' = next /\ results' = results
    BY <1>22 DEF Steer, Restart, Signal
  <2>2. Done' = Done /\ Writes(Kinds \ ChatKinds)
    BY <2>1 DEF Done, Writes
  <2> QED
    BY <1>0, <1>1, <2>1, <2>2, ChatQuiet
<1>23. CASE Crash
  <2>1. pc' = "crashed" /\ messages' = <<>> /\ journal' = <<>>
    BY <1>23 DEF Crash
  <2>2. Done' = 0 /\ Len(<<>>) = 0
    BY <2>1 DEF Done
  <2>3. Count(messages', Len(messages'), ChatKinds) = 0 /\ Chat(messages') = {} /\ messages' = journal'
    BY <2>1, <2>2, CountNone DEF Chat
  <2> QED
    BY <2>1, <2>2, <2>3, AheadNone DEF ChatInv
<1>26. ASSUME NEW e \in EntryType, Nests(e)
       PROVE  ChatInv'
  <2>1. /\ pc' = pc /\ messages' = messages /\ resp' = resp /\ next' = next /\ results' = results
        /\ journal' = Append(journal, e) /\ e.k \notin ChatKinds
    BY <1>26 DEF Nests, ChatKinds
  <2>2. Writes(Kinds \ ChatKinds) /\ Done' = Done
    BY <1>k, <2>1 DEF Writes, Done
  <2> QED
    BY <1>0, <1>1, <2>1, <2>2, ChatQuiet
<1>27. StopBetweenTurns \/ KilledAtResponse \/ Complete \/ HookRefuses \/ ProviderFails \/ TurnFails => pc' = "ended"
  BY DEF StopBetweenTurns, KilledAtResponse, Complete, HookRefuses, ProviderFails, TurnFails
<1> QED
  BY <1>2, <1>3, <1>4, <1>7, <1>10, <1>11, <1>12, <1>13, <1>14, <1>15, <1>16, <1>22, <1>23, <1>26, <1>27, NestedEntry
  DEF Next, TurnStep, ToolStep, FaultStep

-----------------------------------------------------------------------------
(* The loop, its journal and the record.                                     *)

\* A recorded result tells where the writer was.
LEMMA ResultPlace ==
    ASSUME NEW s, NEW g, NEW a, Parses(s, g, a), NEW h \in 1 .. Len(s), s[h].k = "ToolResult"
    PROVE  /\ s[h].c = <<g[h].resp.id, g[h].done>>
           /\ g[h - 1].at = "tools" /\ g[h].resp = g[h - 1].resp /\ g[h].done = g[h - 1].done + 1
           /\ g[h - 1].done \in Nat /\ g[h - 1].resp \in Response
<1>1. Step(g[h - 1], s[h], g[h], a) /\ g[h - 1] \in Ctl
  BY DEF Parses
<1>2. StepResult(g[h - 1], s[h], g[h])
  BY <1>1, StepKind
<1>3. g[h - 1].done \in Nat /\ g[h - 1].resp \in Response
  BY <1>1 DEF Ctl
<1>4. g[h].resp = g[h - 1].resp /\ g[h].done = g[h - 1].done + 1 /\ g[h - 1].at = "tools"
  BY <1>1, <1>2 DEF StepResult, Ctl
<1>5. s[h].c = <<g[h - 1].resp.id, g[h - 1].done + 1>>
  BY <1>2, EntryKinds DEF StepResult
<1> QED
  BY <1>3, <1>4, <1>5

\* Between a call and its result there are nested entries only, unless calls
\* are batched.
LEMMA ResultFollows ==
    ASSUME NEW s \in Seq(EntryType), NEW g, NEW a, Parses(s, g, a), NEW k \in 1 .. Len(s), NEW h \in (k + 1) .. Len(s),
           s[k].k # "Effect", g[k].calls = g[k].done + 1,
           s[h].k = "ToolResult", s[h].c = <<g[k].resp.id, g[k].done + 1>>
    PROVE  \/ (\A i \in (k + 1) .. (h - 1) : s[i].k = "Effect") /\ g[h - 1] = g[k]
           \/ (\E i \in (k + 1) .. (h - 1) : s[i].k = "ToolCall") /\ g[k].resp.parallel /\ ~a
<1>1. /\ g \in [0 .. Len(s) -> Ctl] /\ Len(s) \in Nat
      /\ \A j \in 1 .. Len(s) : Step(g[j - 1], s[j], g[j], a)
      /\ \A i, j \in 0 .. Len(s) : i <= j => Precedes(g[i], g[j])
      /\ \A j \in 0 .. Len(s) : \E i \in 0 .. j : Decides(s, g, i, j)
  BY DEF Parses
<1>2. h \in 1 .. Len(s) /\ h - 1 \in 0 .. Len(s) /\ h - 1 >= k /\ k \in 0 .. Len(s)
  BY <1>1
<1>3. g[h - 1].at = "tools" /\ g[h - 1].resp.id = g[k].resp.id /\ g[h - 1].done = g[k].done
  <2>1. /\ s[h].c = <<g[h].resp.id, g[h].done>> /\ g[h - 1].at = "tools"
        /\ g[h].resp = g[h - 1].resp /\ g[h].done = g[h - 1].done + 1 /\ g[h - 1].done \in Nat
    BY <1>2, ResultPlace
  <2>2. g[k].done \in Nat
    BY <1>1, <1>2 DEF Ctl
  <2>3. g[h - 1].resp.id = g[k].resp.id /\ g[h - 1].done + 1 = g[k].done + 1
    BY <2>1
  <2> QED
    BY <2>1, <2>2, <2>3
<1>4. PICK i \in 0 .. (h - 1) : (i = 0 \/ s[i].k # "Effect") /\ g[i] = g[h - 1] /\ \A n \in (i + 1) .. (h - 1) : s[n].k = "Effect"
  BY <1>1, <1>2 DEF Decides
<1>5. CASE i <= k
  <2>1. i = k
    BY <1>2, <1>4, <1>5
  <2> QED
    BY <1>4, <2>1
<1>6. CASE i > k
  <2>1. i \in 1 .. Len(s) /\ i \in 0 .. Len(s) /\ i - 1 \in 0 .. Len(s) /\ k <= i - 1 /\ i \in (k + 1) .. (h - 1) /\ i - 1 <= i
    BY <1>1, <1>2, <1>4, <1>6
  <2>2. g[k] \in Ctl /\ g[i - 1] \in Ctl /\ g[i] \in Ctl /\ Step(g[i - 1], s[i], g[i], a)
    BY <1>1, <1>2, <2>1
  <2>3. Precedes(g[k], g[i - 1]) /\ Precedes(g[i - 1], g[i])
    BY <1>1, <1>2, <2>1
  <2>4. g[i].at = "tools" /\ g[i].resp.id = g[k].resp.id /\ g[i].done = g[k].done
    BY <1>3, <1>4
  <2> DEFINE x == g[k]
             y == g[i - 1]
             z == g[i]
  <2>5. /\ y.resp = x.resp /\ y.done >= x.done /\ y.calls > x.done /\ y.resp.id \in Nat /\ x.resp.id \in Nat
        /\ y.done \in Nat /\ x.done \in Nat /\ y.calls \in Nat /\ y.resp.id = z.resp.id
    <3> HIDE DEF x, y, z
    <3>1. x \in Ctl /\ y \in Ctl /\ z \in Ctl /\ Precedes(x, y) /\ Precedes(y, z) /\ z.resp.id = x.resp.id /\ x.calls = x.done + 1
      BY <2>2, <2>3, <2>4 DEF x, y, z
    <3>2. ASSUME NEW u \in Ctl
          PROVE  u.resp.id \in Nat /\ u.done \in Nat /\ u.calls \in Nat
      BY DEF Ctl, Response
    <3>3. /\ x.resp.id \in Nat /\ x.done \in Nat /\ x.calls \in Nat
          /\ y.resp.id \in Nat /\ y.done \in Nat /\ y.calls \in Nat /\ z.resp.id \in Nat
      BY <3>1, <3>2
    <3>4. y.resp.id <= z.resp.id /\ x.resp.id <= y.resp.id
      BY <3>1, <3>3 DEF Precedes
    <3>5. y.resp.id = x.resp.id
      BY <3>1, <3>3, <3>4
    <3>6. x.resp = y.resp /\ x.calls <= y.calls /\ x.done <= y.done
      BY <3>1, <3>3, <3>5 DEF Precedes
    <3> QED
      BY <3>1, <3>3, <3>5, <3>6
  <2>6. ~StepTurn(g[i - 1], s[i], g[i]) /\ ~StepRequest(g[i - 1], s[i], g[i]) /\ ~StepEffect(g[i - 1], s[i], g[i])
    <3>1. StepEffect(g[i - 1], s[i], g[i]) => s[i].k = "Effect"
      BY EntryKinds DEF StepEffect
    <3>2. StepTurn(g[i - 1], s[i], g[i]) => g[i].at = "request"
      BY <2>2 DEF StepTurn, Ctl
    <3>3. StepRequest(g[i - 1], s[i], g[i]) => g[i].at = "response"
      BY <2>2 DEF StepRequest, Ctl
    <3> QED
      BY <1>4, <2>4, <3>1, <3>2, <3>3
  <2>7. ~StepResponse(g[i - 1], s[i], g[i])
    BY <2>5 DEF StepResponse
  <2>8. ~StepResult(g[i - 1], s[i], g[i])
    <3>1. StepResult(g[i - 1], s[i], g[i]) => g[i].done = g[i - 1].done + 1
      BY <2>2 DEF StepResult, Ctl
    <3> QED
      BY <2>4, <2>5, <3>1
  <2>9. StepCall(g[i - 1], s[i], g[i], a)
    BY <2>2, <2>6, <2>7, <2>8 DEF Step
  <2>10. s[i].k = "ToolCall"
    BY <2>9, EntryKinds DEF StepCall
  <2>11. g[i].done = g[i - 1].done
    BY <2>2, <2>9 DEF StepCall, Ctl
  <2>12. g[i - 1].done # g[i - 1].calls
    BY <2>4, <2>5, <2>11
  <2>13. g[i - 1].resp.parallel /\ ~a
    BY <2>9, <2>12 DEF StepCall
  <2> QED
    BY <2>1, <2>5, <2>10, <2>13
<1> QED
  BY <1>2, <1>4, <1>5, <1>6

\* A response that is worked on, and carries parallel calls, is in the record.
LEMMA ParallelRecorded ==
    ASSUME NEW s, NEW g, NEW a, Parses(s, g, a), NEW k \in 0 .. Len(s), g[k].resp.parallel
    PROVE  \E j \in 1 .. k : s[j].k = "LlmResponse" /\ AsResponse(s[j]).parallel
<1>1. g[k].resp # NoResponse
  BY DEF NoResponse
<1>2. PICK i \in 1 .. k : s[i] = LlmResponse(g[k].resp)
  BY <1>1 DEF Parses
<1>3. g[k].resp \in Response
  BY DEF Parses, Ctl
<1>4. AsResponse(s[i]).parallel /\ s[i].k = "LlmResponse"
  BY <1>2, <1>3, ResponseBack, EntryKinds
<1> QED
  BY <1>4

\* What the places of the two runs are.
LEMMA TrackPlaces ==
    ASSUME TypeOK, NEW f, NEW g, Track(f, g)
    PROVE  /\ Parses(recorded, g, flags.approval) /\ cursor \in 0 .. Len(recorded) /\ Len(recorded) \in Nat
           /\ g[cursor] \in Ctl /\ g[Len(recorded)] \in Ctl /\ g[Len(recorded)].resp.id <= produced
           /\ pc # "ended" => /\ f[Len(journal)] \in Ctl /\ Len(journal) \in Nat /\ Matches(f[Len(journal)])
                              /\ Follows(f[Len(journal)], g, flags.approval) \/ IsPast(f[Len(journal)], g)
<1>1. cursor \in 0 .. Len(recorded) /\ Len(recorded) \in Nat /\ Len(journal) \in Nat
  BY DEF TypeOK
<1>2. Parses(recorded, g, flags.approval) /\ g[Len(recorded)].resp.id <= produced
  BY DEF Track
<1>3. g[cursor] \in Ctl /\ g[Len(recorded)] \in Ctl
  <2>1. g \in [0 .. Len(recorded) -> Ctl]
    BY <1>2 DEF Parses
  <2>2. Len(recorded) \in 0 .. Len(recorded)
    BY <1>1
  <2> QED
    BY <1>1, <2>1, <2>2
<1>4. ASSUME pc # "ended"
      PROVE  /\ f[Len(journal)] \in Ctl /\ Matches(f[Len(journal)])
             /\ Follows(f[Len(journal)], g, flags.approval) \/ IsPast(f[Len(journal)], g)
  <2>1. Parses(journal, f, flags.approval)
    BY <1>4 DEF Track
  <2>2. f[Len(journal)] \in Ctl
    BY <1>1, <2>1 DEF Parses
  <2> QED
    BY <1>4, <2>2 DEF Track
<1> QED
  BY <1>1, <1>2, <1>3, <1>4

\* The step the record takes next.
LEMMA UpcomingStep ==
    ASSUME TypeOK, NEW f, NEW g, Track(f, g), ~AtFrontier
    PROVE  /\ Step(g[cursor], Upcoming, g[cursor + 1], flags.approval)
           /\ cursor + 1 \in 1 .. Len(recorded) /\ Upcoming \in EntryType
           /\ g[cursor + 1] \in Ctl /\ g[cursor + 1].resp.id <= produced
           /\ pc # "ended" => Follows(f[Len(journal)], g, flags.approval)
<1>1. /\ Parses(recorded, g, flags.approval) /\ cursor \in 0 .. Len(recorded) /\ Len(recorded) \in Nat
      /\ g[Len(recorded)].resp.id <= produced
      /\ pc # "ended" => Follows(f[Len(journal)], g, flags.approval) \/ IsPast(f[Len(journal)], g)
  BY TrackPlaces
<1>2. cursor + 1 \in 1 .. Len(recorded) /\ cursor + 1 \in 0 .. Len(recorded) /\ (cursor + 1) - 1 = cursor
      /\ Len(recorded) \in 0 .. Len(recorded) /\ cursor + 1 <= Len(recorded)
  BY <1>1 DEF AtFrontier
<1>3. Step(g[cursor], Upcoming, g[cursor + 1], flags.approval)
  <2>1. Step(g[(cursor + 1) - 1], recorded[cursor + 1], g[cursor + 1], flags.approval)
    BY <1>1, <1>2 DEF Parses
  <2> QED
    BY <1>2, <2>1 DEF Upcoming
<1>4. g[cursor + 1] \in Ctl /\ g[Len(recorded)] \in Ctl /\ Precedes(g[cursor + 1], g[Len(recorded)])
  BY <1>1, <1>2 DEF Parses
<1>5. g[cursor + 1].resp.id <= produced
  <2>1. \A x, z \in Ctl : Precedes(x, z) => x.resp.id <= z.resp.id /\ x.resp.id \in Nat /\ z.resp.id \in Nat
    BY DEF Precedes, Ctl, Response
  <2>2. g[cursor + 1].resp.id <= g[Len(recorded)].resp.id /\ g[cursor + 1].resp.id \in Nat /\ g[Len(recorded)].resp.id \in Nat
    BY <1>4, <2>1
  <2>3. produced \in Nat
    BY DEF TypeOK
  <2> QED
    BY <1>1, <2>2, <2>3
<1>6. Upcoming \in EntryType
  BY <1>2 DEF Upcoming, TypeOK
<1> QED
  BY <1>1, <1>2, <1>3, <1>4, <1>5, <1>6 DEF IsPast

\* At the frontier, with nothing left to write, the run is past the record.
LEMMA PastRecord ==
    ASSUME TypeOK, NEW f, NEW g, Track(f, g), pc # "ended", AtFrontier, ~Lagging
    PROVE  IsPast(f[Len(journal)], g)
<1>1. /\ g[Len(recorded)] \in Ctl
      /\ Follows(f[Len(journal)], g, flags.approval) \/ IsPast(f[Len(journal)], g)
  BY TrackPlaces
<1>2. CASE Follows(f[Len(journal)], g, flags.approval)
  <2>1. Plain(journal) = SelectTo(recorded, cursor, PlainKinds) /\ g[cursor] = f[Len(journal)]
    BY <1>2 DEF Follows, Written
  <2>2. Precedes(g[Len(recorded)], f[Len(journal)])
    BY <1>1, <2>1, PrecedesItself DEF AtFrontier
  <2> QED
    BY <2>1, <2>2 DEF IsPast, AtFrontier, Plain
<1> QED
  BY <1>1, <1>2

\* And it stays past it.
LEMMA PastStays ==
    ASSUME TypeOK, NEW g, NEW x \in Ctl, NEW y \in Ctl, g[Len(recorded)] \in Ctl, IsPast(x, g), Precedes(x, y),
           recorded' = recorded, cursor' = cursor, Writes(Kinds)
    PROVE  IsPast(y, g)'
<1>1. Plain(journal) \subseteq Plain(journal')
  <2>1. ASSUME NEW e \in EntryType, journal' = Append(journal, e)
        PROVE  Plain(journal) \subseteq Plain(journal')
    <3>1. journal \in Seq(EntryType)
      BY DEF TypeOK
    <3>2. SelectTo(journal, Len(journal), PlainKinds) \subseteq SelectTo(journal', Len(journal'), PlainKinds)
      BY <2>1, <3>1, SelectAppend
    <3> QED
      BY <3>2 DEF Plain
  <2> QED
    BY <2>1 DEF Writes
<1>2. Precedes(g[Len(recorded)], y)
  BY PrecedesTransitive DEF IsPast
<1> QED
  BY <1>1, <1>2 DEF IsPast, AtFrontier

\* Writing what the record holds next keeps what is written what is consumed.
LEMMA WritesRecord ==
    ASSUME TypeOK, NEW g, NEW x, NEW a, Follows(x, g, a), ~Lagging,
           NEW e \in EntryType, e.k \in PlainKinds, ~AtFrontier, Upcoming = e, journal' = Append(journal, e)
    PROVE  /\ Plain(journal') = SelectTo(recorded, cursor + 1, PlainKinds)
           /\ Count(journal', Len(journal'), PlainKinds) = Count(recorded, cursor + 1, PlainKinds)
           /\ Count(journal', Len(journal'), PlainKinds) \in Nat
<1>1. journal \in Seq(EntryType) /\ cursor \in Nat /\ recorded[cursor + 1] = e
  BY DEF TypeOK, Upcoming
<1>2. /\ Count(journal, Len(journal), PlainKinds) \in Nat
      /\ Count(journal', Len(journal'), PlainKinds) = Count(journal, Len(journal), PlainKinds) + (IF e.k \in PlainKinds THEN 1 ELSE 0)
      /\ SelectTo(journal', Len(journal'), PlainKinds)
           = SelectTo(journal, Len(journal), PlainKinds) \cup {<<Count(journal, Len(journal), PlainKinds) + 1, e>>}
  BY <1>1, SelectAppend
<1>3. /\ Count(recorded, cursor + 1, PlainKinds) = Count(recorded, cursor, PlainKinds) + (IF e.k \in PlainKinds THEN 1 ELSE 0)
      /\ Count(recorded, cursor, PlainKinds) \in Nat
  BY <1>1, CountStep
<1>4. SelectTo(recorded, cursor + 1, PlainKinds)
        = SelectTo(recorded, cursor, PlainKinds) \cup {<<Count(recorded, cursor, PlainKinds) + 1, e>>}
  BY <1>1, SelectStep
<1>5. /\ SelectTo(journal, Len(journal), PlainKinds) = SelectTo(recorded, cursor, PlainKinds)
      /\ Count(journal, Len(journal), PlainKinds) + 0 = Count(recorded, cursor, PlainKinds)
  BY DEF Follows, Written, Plain
<1>6. Plain(journal') = SelectTo(recorded, cursor + 1, PlainKinds)
  BY <1>2, <1>4, <1>5 DEF Plain
<1>7. /\ Count(journal', Len(journal'), PlainKinds) = Count(recorded, cursor + 1, PlainKinds)
      /\ Count(journal', Len(journal'), PlainKinds) \in Nat
  BY <1>2, <1>3, <1>5
<1> QED
  BY <1>6, <1>7

\* Writing what was consumed before it was written.
LEMMA FollowsCatchUp ==
    ASSUME TypeOK, NEW g, NEW x, NEW a, NEW y, Follows(x, g, a), Lagging, ~Lagging',
           NEW e \in EntryType, e.k \in PlainKinds, Lag = e, y = g[cursor],
           journal' = Append(journal, e), recorded' = recorded, cursor' = cursor
    PROVE  Follows(y, g, a)'
<1>1. journal \in Seq(EntryType)
  BY DEF TypeOK
<1>2. /\ Count(journal, Len(journal), PlainKinds) \in Nat
      /\ Count(journal', Len(journal'), PlainKinds) = Count(journal, Len(journal), PlainKinds) + (IF e.k \in PlainKinds THEN 1 ELSE 0)
      /\ SelectTo(journal', Len(journal'), PlainKinds)
           = SelectTo(journal, Len(journal), PlainKinds) \cup {<<Count(journal, Len(journal), PlainKinds) + 1, e>>}
  BY <1>1, SelectAppend
<1>3. /\ Plain(journal) \cup {<<Count(journal, Len(journal), PlainKinds) + 1, e>>} = SelectTo(recorded, cursor, PlainKinds)
      /\ Count(journal, Len(journal), PlainKinds) + 1 = Count(recorded, cursor, PlainKinds)
  BY DEF Follows, Written
<1>4. Plain(journal') = SelectTo(recorded', cursor', PlainKinds)
  BY <1>2, <1>3 DEF Plain
<1>5. Count(journal', Len(journal'), PlainKinds) + 0 = Count(recorded', cursor', PlainKinds)
  BY <1>2, <1>3
<1> QED
  BY <1>4, <1>5 DEF Follows, Written

\* A journal and a record that are left alone are still parsed.
LEMMA TrackStays ==
    ASSUME TypeOK, NEW f, NEW g, Track(f, g), pc # "ended", journal' = journal, recorded' = recorded,
           flags'.approval = flags.approval, bounds'.inputs = 0 => bounds.inputs = 0, produced' \in Nat, produced' >= produced,
           NEW x, x = f[Len(journal)], Matches(x)', Follows(x, g, flags.approval)' \/ IsPast(x, g)'
    PROVE  \E F, G : Track(F, G)'
<1>1. g[Len(recorded)].resp.id <= produced'
  <2>1. g[Len(recorded)] \in Ctl /\ g[Len(recorded)].resp.id <= produced
    BY TrackPlaces
  <2>2. g[Len(recorded)].resp.id \in Nat
    BY <2>1 DEF Ctl, Response
  <2>3. produced \in Nat
    BY DEF TypeOK
  <2> QED
    BY <2>1, <2>2, <2>3
<1>2. Track(f, g)'
  BY <1>1 DEF Track
<1> QED
  BY <1>2

\* A run that ends leaves its record.
LEMMA TrackEnds ==
    ASSUME NEW f, NEW g, Track(f, g), pc' = "ended", recorded' = recorded,
           flags'.approval = flags.approval, bounds'.inputs = bounds.inputs, produced' = produced
    PROVE  \E F, G : Track(F, G)'
<1>1. Track(f, g)'
  BY DEF Track
<1> QED
  BY <1>1

\* A journal that grows by a step is still parsed.
LEMMA TrackAppend ==
    ASSUME TypeOK, NEW f, NEW g, Track(f, g), pc # "ended", recorded' = recorded,
           flags'.approval = flags.approval, bounds'.inputs = bounds.inputs, produced' = produced,
           NEW e \in EntryType, NEW y, journal' = Append(journal, e), Step(f[Len(journal)], e, y, flags.approval),
           bounds.inputs = 0 /\ e.k = "LlmRequest" => e.v = f[Len(journal)].chat,
           Matches(y)', Follows(y, g, flags.approval)' \/ IsPast(y, g)'
    PROVE  \E F, G : Track(F, G)'
<1> DEFINE n == Len(journal)
           F == Extend(f, n + 1, y)
<1>1. journal \in Seq(EntryType) /\ n \in Nat
  BY DEF TypeOK
<1>2. PICK m \in Nat : m = n
  BY <1>1
<1>3. PICK G : G = Extend(f, m + 1, y)
  OBVIOUS
<1>4. Parses(journal', G, flags'.approval)
  <2>1. Parses(journal, f, flags.approval)
    BY DEF Track
  <2> QED
    BY <1>1, <1>2, <1>3, <2>1, ParsesAppend
<1>5. bounds'.inputs = 0 => Honest(journal', G)
  <2>1. bounds.inputs = 0 => Honest(journal, f)
    BY DEF Track
  <2> QED
    BY <1>1, <1>2, <1>3, <2>1, HonestAppend
<1>6. G[Len(journal')] = y
  <2>1. Len(journal') = n + 1
    BY <1>1
  <2> QED
    BY <1>2, <1>3, <2>1 DEF Extend
<1>7. Track(G, g)'
  BY <1>4, <1>5, <1>6 DEF Track
<1> QED
  BY <1>7

\* The parts of a place.
LEMMA CtlFields ==
    ASSUME NEW x \in Ctl
    PROVE  /\ x.at \in {"turn", "request", "response", "tools", "over"} /\ x.resp \in Response
           /\ x.resp.id \in Nat /\ x.resp.size \in Nat /\ x.resp.parallel \in BOOLEAN
           /\ x.calls \in Nat /\ x.done \in Nat /\ x.chat \in Nat
           /\ x.done <= x.calls /\ x.calls <= x.resp.size /\ (x.at = "tools" <=> x.done < x.resp.size)
           /\ x = [at |-> x.at, resp |-> x.resp, calls |-> x.calls, done |-> x.done, chat |-> x.chat]
BY DEF Ctl, Response

\* An entry leads to one place.
LEMMA StepUnique ==
    ASSUME NEW x \in Ctl, NEW e, NEW y, NEW z, NEW a, Step(x, e, y, a), Step(x, e, z, a)
    PROVE  y = z
<1>1. CASE e.k = "TurnStart"
  <2>1. StepTurn(x, e, y) /\ StepTurn(x, e, z)
    BY <1>1, StepKind
  <2> QED
    BY <2>1 DEF StepTurn
<1>2. CASE e.k = "LlmRequest"
  <2>1. StepRequest(x, e, y) /\ StepRequest(x, e, z)
    BY <1>2, StepKind
  <2> QED
    BY <2>1 DEF StepRequest
<1>3. CASE e.k = "LlmResponse"
  <2>1. StepResponse(x, e, y) /\ StepResponse(x, e, z)
    BY <1>3, StepKind
  <2>2. y.resp \in Response /\ z.resp \in Response /\ LlmResponse(y.resp) = LlmResponse(z.resp)
    BY <2>1 DEF StepResponse
  <2>3. y.resp = z.resp
    BY <2>2, ResponseBack
  <2> QED
    BY <2>1, <2>3 DEF StepResponse
<1>4. CASE e.k = "ToolCall"
  <2>1. StepCall(x, e, y, a) /\ StepCall(x, e, z, a)
    BY <1>4, StepKind
  <2> QED
    BY <2>1 DEF StepCall
<1>5. CASE e.k = "ToolResult"
  <2>1. StepResult(x, e, y) /\ StepResult(x, e, z)
    BY <1>5, StepKind
  <2> QED
    BY <2>1 DEF StepResult
<1>6. CASE e.k = "Effect"
  <2>1. StepEffect(x, e, y) /\ StepEffect(x, e, z)
    BY <1>6, StepKind
  <2> QED
    BY <2>1 DEF StepEffect
<1> QED
  BY <1>1, <1>2, <1>3, <1>4, <1>5, <1>6, StepKind

\* An entry written, and consumed while there are entries left to consume.
LEMMA KeepsPace ==
    ASSUME TypeOK, NEW f, NEW g, Track(f, g), pc # "ended", ~Lagging, ~Lagging',
           NEW e \in EntryType, e.k \in PlainKinds, NEW y, Step(f[Len(journal)], e, y, flags.approval),
           journal' = Append(journal, e), recorded' = recorded, flags'.approval = flags.approval,
           \/ AtFrontier /\ cursor' = cursor
           \/ ~AtFrontier /\ Upcoming = e /\ cursor' = cursor + 1
    PROVE  Follows(y, g, flags.approval)' \/ IsPast(y, g)'
<1>1. f[Len(journal)] \in Ctl /\ g[Len(recorded)] \in Ctl
  BY TrackPlaces
<1>2. y \in Ctl /\ Precedes(f[Len(journal)], y)
  BY <1>1, StepForward
<1>3. CASE AtFrontier
  <2>1. PICK x : x = f[Len(journal)]
    OBVIOUS
  <2>2. IsPast(x, g)
    BY <1>3, <2>1, PastRecord
  <2>3. e.k \in Kinds /\ Writes(Kinds)
    BY DEF PlainKinds, Writes
  <2> QED
    BY <1>1, <1>2, <1>3, <2>1, <2>2, <2>3, PastStays
<1>4. CASE ~AtFrontier
  <2>1. Upcoming = e /\ cursor' = cursor + 1
    BY <1>4
  <2>2. /\ Step(g[cursor], Upcoming, g[cursor + 1], flags.approval)
        /\ Follows(f[Len(journal)], g, flags.approval)
    BY <1>4, UpcomingStep
  <2>3. g[cursor] = f[Len(journal)]
    BY <2>2 DEF Follows
  <2>4. g[cursor + 1] = y
    BY <1>1, <2>1, <2>2, <2>3, StepUnique
  <2>5. PICK x, a : x = f[Len(journal)] /\ a = flags.approval
    OBVIOUS
  <2>6. /\ Plain(journal') = SelectTo(recorded, cursor + 1, PlainKinds)
        /\ Count(journal', Len(journal'), PlainKinds) = Count(recorded, cursor + 1, PlainKinds)
        /\ Count(journal', Len(journal'), PlainKinds) \in Nat
    BY <1>4, <2>1, <2>2, <2>5, WritesRecord
  <2>7. Count(journal', Len(journal'), PlainKinds) + 0 = Count(recorded', cursor', PlainKinds)
    BY <2>1, <2>6
  <2> QED
    BY <2>1, <2>4, <2>6, <2>7 DEF Follows, Written
<1> QED
  BY <1>3, <1>4

\* Nothing written and nothing consumed.
LEMMA PaceSame ==
    ASSUME NEW g, NEW x, Follows(x, g, flags.approval) \/ IsPast(x, g),
           journal' = journal, recorded' = recorded, cursor' = cursor, flags'.approval = flags.approval,
           (~Lagging /\ ~Lagging') \/ (Lagging /\ Lagging' /\ Lag' = Lag)
    PROVE  Follows(x, g, flags.approval)' \/ IsPast(x, g)'
<1>1. CASE Follows(x, g, flags.approval)
  BY <1>1 DEF Follows, Written
<1>2. CASE IsPast(x, g)
  BY <1>2 DEF IsPast, AtFrontier
<1> QED
  BY <1>1, <1>2

\* What a run leaves alone when it ends.
LEMMA EndingKeeps ==
    ASSUME TypeOK, Next, pc' = "ended"
    PROVE  recorded' = recorded /\ flags' = flags /\ bounds'.inputs = bounds.inputs /\ produced' = produced /\ ran' = ran
<1> USE DEF Goto, Ends, turnVars, replayVars, envVars
<1>1. bounds \in [inputs : Nat, faults : Nat, crashes : Nat]
  BY DEF TypeOK
<1>2. CASE StartTurn \/ Request \/ SerialCall
  BY <1>2 DEF StartTurn, Request, SerialCall, JournalAndConsume
<1>3. CASE StopBetweenTurns \/ ReplayResponse \/ CallProvider \/ KilledAtResponse \/ Complete \/ EndTurn
  BY <1>3 DEF StopBetweenTurns, ReplayResponse, CallProvider, KilledAtResponse, Complete, EndTurn
<1>4. CASE HookRefuses \/ ProviderFails \/ TurnFails
  BY <1>1, <1>4 DEF HookRefuses, ProviderFails, TurnFails
<1>5. /\ \A n \in Sizes, p \in Parallel : ProviderAnswers(n, p) => pc' # "ended"
      /\ \A i \in running : BatchToolReturns(i) => pc' # "ended"
      /\ \A e \in EntryType : Nests(e) => pc' # "ended"
      /\ Respond \/ BatchCall \/ BatchRun \/ BatchResult \/ Approve \/ ToolReturns \/ Finish \/ Crash \/ Restart => pc' # "ended"
      /\ Steer => pc' # "ended"
      /\ \A flag \in {"cancelled", "killed"} : Signal(flag) => pc' # "ended"
  BY DEF ProviderAnswers, Nests, BatchToolReturns, Respond, BatchCall, BatchRun, BatchResult, Approve, ToolReturns,
         Finish, Crash, Restart, Steer, Signal
<1> QED
  BY <1>2, <1>3, <1>4, <1>5, NestedEntry DEF Next, TurnStep, ToolStep, FaultStep

-----------------------------------------------------------------------------
(* Every step keeps the loop, its journal and the record together.           *)

\* Starting a turn and its request.
LEMMA TrackStart ==
    ASSUME TypeOK, TypeOK', StageInv, NEW f, NEW g, Track(f, g), StartTurn \/ Request, pc' # "ended"
    PROVE  \E F, G : Track(F, G)'
<1>1. PICK x : x = f[Len(journal)]
  OBVIOUS
<1>2. x \in Ctl /\ Matches(x) /\ pc # "ended"
  <2>1. pc # "ended"
    BY DEF StartTurn, Request
  <2> QED
    BY <1>1, <2>1, TrackPlaces
<1>3. messages \in Seq(EntryType) /\ queue \in Nat
  BY DEF TypeOK
<1>4. CASE StartTurn
  <2>1. /\ pc = "idle" /\ pc' = "started" /\ JournalAndConsume(TurnStart, "started") /\ flags' = flags /\ bounds' = bounds
        /\ produced' = produced /\ resp' = resp /\ queue' = 0 /\ messages' = messages \o [i \in 1 .. queue |-> Input]
    BY <1>4, JournalGoto DEF StartTurn, turnVars
  <2>2. /\ journal' = Append(journal, TurnStart) /\ recorded' = recorded
        /\ \/ AtFrontier /\ cursor' = cursor
           \/ ~AtFrontier /\ Upcoming = TurnStart /\ cursor' = cursor + 1
    BY <2>1, JournalGoto DEF JournalAndConsume
  <2>3. PICK y : y = [x EXCEPT !.at = "request"]
    OBVIOUS
  <2>4. y.at = "request" /\ y.resp = x.resp /\ y.chat = x.chat
    BY <1>2, <2>3, CtlFields
  <2>5. Step(x, TurnStart, y, flags.approval)
    BY <1>2, <2>1, <2>3 DEF Step, StepTurn, Matches
  <2>6. TurnStart \in EntryType /\ TurnStart.k = "TurnStart" /\ TurnStart.k \in PlainKinds
    BY EntryTypes, EntryKinds DEF PlainKinds, Kinds
  <2>7. ~Lagging /\ ~Lagging'
    BY <2>1 DEF Lagging
  <2>8. Follows(y, g, flags.approval)' \/ IsPast(y, g)'
    BY <1>1, <1>2, <2>1, <2>2, <2>5, <2>6, <2>7, KeepsPace
  <2>9. bounds.inputs = 0 => Len(messages') = Len(messages) /\ queue' = 0
    <3>1. bounds.inputs = 0 => queue = 0
      BY <1>2 DEF Matches
    <3>2. Len([i \in 1 .. queue |-> Input]) = queue /\ [i \in 1 .. queue |-> Input] \in Seq(EntryType)
      BY <1>3, EntryTypes
    <3>3. Len(messages') = Len(messages) + queue
      BY <1>3, <2>1, <3>2
    <3> QED
      BY <1>3, <2>1, <3>1, <3>3
  <2>10. Matches(y)'
    BY <1>2, <2>1, <2>4, <2>9 DEF Matches, Done
  <2> QED
    BY <1>1, <1>2, <2>1, <2>2, <2>5, <2>6, <2>8, <2>10, TrackAppend
<1>5. CASE Request
  <2> DEFINE e == LlmRequest(Len(messages))
  <2>1. /\ pc = "started" /\ pc' = "requested" /\ JournalAndConsume(e, "requested") /\ flags' = flags /\ bounds' = bounds
        /\ produced' = produced /\ resp' = resp /\ queue' = queue /\ messages' = messages
    BY <1>5, JournalGoto DEF Request, turnVars, envVars
  <2>2. /\ journal' = Append(journal, e) /\ recorded' = recorded
        /\ \/ AtFrontier /\ cursor' = cursor
           \/ ~AtFrontier /\ Upcoming = e /\ cursor' = cursor + 1
    BY <2>1, JournalGoto DEF JournalAndConsume
  <2>3. PICK y : y = [x EXCEPT !.at = "response"]
    OBVIOUS
  <2>4. y.at = "response" /\ y.resp = x.resp /\ y.chat = x.chat
    BY <1>2, <2>3, CtlFields
  <2>5. e \in EntryType /\ e.k = "LlmRequest" /\ e.v = Len(messages) /\ e.k \in PlainKinds
    BY <1>3, EntryTypes DEF PlainKinds, Kinds, LlmRequest, Entry
  <2>6. Step(x, e, y, flags.approval)
    BY <1>2, <2>1, <2>3, <2>5 DEF Step, StepRequest, Matches
  <2>7. ~Lagging /\ ~Lagging'
    BY <2>1 DEF Lagging
  <2>8. bounds.inputs = 0 => Len(messages) = x.chat
    BY <1>2, <1>3, <2>1 DEF Matches, Done
  <2> HIDE DEF e
  <2>9. Follows(y, g, flags.approval)' \/ IsPast(y, g)'
    BY <1>1, <1>2, <2>1, <2>2, <2>5, <2>6, <2>7, KeepsPace
  <2>10. Matches(y)'
    BY <1>2, <2>1, <2>4 DEF Matches, Done
  <2>11. bounds.inputs = 0 /\ e.k = "LlmRequest" => e.v = f[Len(journal)].chat
    BY <1>1, <2>5, <2>8
  <2> QED
    BY <1>1, <1>2, <2>1, <2>2, <2>5, <2>6, <2>9, <2>10, <2>11, TrackAppend
<1> QED
  BY <1>4, <1>5

\* Calling the provider, and its answer.
LEMMA TrackProvider ==
    ASSUME TypeOK, TypeOK', StageInv, NEW f, NEW g, Track(f, g), pc' # "ended",
           CallProvider \/ \E n \in Sizes : \E p \in Parallel : ProviderAnswers(n, p)
    PROVE  \E F, G : Track(F, G)'
<1>1. PICK x : x = f[Len(journal)]
  OBVIOUS
<1>2. x \in Ctl /\ Matches(x) /\ pc # "ended" /\ (Follows(x, g, flags.approval) \/ IsPast(x, g))
  <2>1. pc # "ended"
    BY DEF CallProvider, ProviderAnswers
  <2> QED
    BY <1>1, <2>1, TrackPlaces
<1>3. /\ journal' = journal /\ recorded' = recorded /\ cursor' = cursor /\ flags' = flags /\ bounds' = bounds
      /\ queue' = queue /\ messages' = messages
  BY DEF CallProvider, ProviderAnswers, replayVars, envVars, Goto
<1>4. CASE CallProvider
  <2>1. pc = "requested" /\ pc' = "calling" /\ resp' = resp /\ produced' = produced
    BY <1>4 DEF CallProvider, Goto, Ends, turnVars
  <2>2. Matches(x)'
    BY <1>2, <1>3, <2>1 DEF Matches, Done
  <2>3. Follows(x, g, flags.approval)' \/ IsPast(x, g)'
    BY <1>2, <1>3, <2>1, PaceSame DEF Lagging
  <2>4. produced' \in Nat /\ produced' >= produced
    BY <2>1 DEF TypeOK
  <2> QED
    BY <1>1, <1>2, <1>3, <2>2, <2>3, <2>4, TrackStays
<1>5. ASSUME NEW n \in Sizes, NEW p \in Parallel, ProviderAnswers(n, p)
      PROVE  \E F, G : Track(F, G)'
  <2>1. pc = "calling" /\ pc' = "responded" /\ resp'.id = produced + 1 /\ produced' = produced + 1
    BY <1>5 DEF ProviderAnswers, Goto
  <2>2. produced \in Nat /\ x.resp.id \in Nat /\ x.resp.id <= produced
    BY <1>2, CtlFields DEF TypeOK, Matches
  <2>3. Matches(x)'
    BY <1>2, <1>3, <2>1, <2>2 DEF Matches, Done
  <2>4. IsPast(x, g)
    BY <1>1, <1>2, <2>1, PastRecord DEF StageInv, Lagging
  <2>5. IsPast(x, g)'
    BY <1>3, <2>4 DEF IsPast, AtFrontier
  <2>6. produced' \in Nat /\ produced' >= produced
    BY <2>1, <2>2
  <2> QED
    BY <1>1, <1>2, <1>3, <2>3, <2>5, <2>6, TrackStays
<1> QED
  BY <1>4, <1>5

\* A recorded response is taken: it is the next thing to be written.
LEMMA TrackReplay ==
    ASSUME TypeOK, TypeOK', StageInv, NEW f, NEW g, Track(f, g), ReplayResponse
    PROVE  /\ Upcoming.k \in {"LlmResponse", "Effect"}
           /\ pc' # "ended" => \E F, G : Track(F, G)'
<1>1. PICK x, a : x = f[Len(journal)] /\ a = flags.approval
  OBVIOUS
<1>2. /\ pc = "requested" /\ ~AtFrontier /\ cursor' = cursor + 1
      /\ journal' = journal /\ recorded' = recorded /\ flags' = flags /\ bounds' = bounds
      /\ queue' = queue /\ messages' = messages /\ produced' = produced /\ next' = next
  BY DEF ReplayResponse, Goto, Ends, envVars
<1>3. x \in Ctl /\ Matches(x)
  BY <1>1, <1>2, TrackPlaces
<1>4. /\ Step(g[cursor], Upcoming, g[cursor + 1], a) /\ Upcoming \in EntryType
      /\ g[cursor + 1] \in Ctl /\ g[cursor + 1].resp.id <= produced
      /\ Follows(x, g, a)
  BY <1>1, <1>2, UpcomingStep
<1>5. PICK z : z = g[cursor + 1]
  OBVIOUS
<1>6. /\ g[cursor] = x
      /\ Plain(journal) = SelectTo(recorded, cursor, PlainKinds)
      /\ Count(journal, Len(journal), PlainKinds) + 0 = Count(recorded, cursor, PlainKinds)
  BY <1>2, <1>4 DEF Follows, Lagging, Written
<1>7. x.at = "response"
  BY <1>2, <1>3 DEF Matches
<1>8. StepResponse(x, Upcoming, z) \/ Upcoming.k = "Effect"
  <2>1. ~StepTurn(x, Upcoming, z) /\ ~StepRequest(x, Upcoming, z) /\ ~StepCall(x, Upcoming, z, a)
        /\ ~StepResult(x, Upcoming, z)
    BY <1>7 DEF StepTurn, StepRequest, StepCall, StepResult
  <2> QED
    BY <1>4, <1>5, <1>6, <2>1 DEF Step, StepEffect
<1>9. StepResponse(x, Upcoming, z) => z.resp \in Response /\ z.resp.id > x.resp.id /\ Upcoming = LlmResponse(z.resp)
  BY DEF StepResponse
<1>10. StepResponse(x, Upcoming, z) => Upcoming.k = "LlmResponse"
  BY <1>9, EntryKinds
<1>11. ASSUME pc' # "ended"
       PROVE  \E F, G : Track(F, G)'
  <2>0. Upcoming.k = "LlmResponse" /\ Upcoming.k \in PlainKinds
    BY <1>11 DEF ReplayResponse, Ends, PlainKinds, Kinds
  <2>r. /\ StepResponse(x, Upcoming, z)
        /\ z.resp \in Response /\ z.resp.id > x.resp.id /\ Upcoming = LlmResponse(z.resp)
    BY <1>8, <1>9, <2>0
  <2>1. pc' = "responded" /\ resp' = z.resp
    BY <1>11, <2>0, <2>r, ResponseBack DEF ReplayResponse, Goto, Ends
  <2>2. Lagging' /\ Lag' = Upcoming
    BY <2>1, <2>r DEF Lagging, Lag
  <2>3. cursor \in Nat
    BY DEF TypeOK
  <2>4. /\ SelectTo(recorded, cursor + 1, PlainKinds)
             = SelectTo(recorded, cursor, PlainKinds) \cup {<<Count(recorded, cursor, PlainKinds) + 1, Upcoming>>}
        /\ Count(recorded, cursor, PlainKinds) \in Nat
        /\ Count(recorded, cursor + 1, PlainKinds) = Count(recorded, cursor, PlainKinds) + 1
    BY <2>0, <2>3, SelectStep, CountStep DEF Upcoming
  <2>5. /\ Count(journal, Len(journal), PlainKinds) = Count(recorded, cursor, PlainKinds)
    <3>1. Len(journal) \in Nat
      BY DEF TypeOK
    <3>2. Count(journal, Len(journal), PlainKinds) \in Nat
      BY <3>1, CountNat
    <3> QED
      BY <1>6, <3>2
  <2>6. Follows(x, g, a)'
    BY <1>2, <1>4, <1>5, <1>6, <2>2, <2>4, <2>5 DEF Follows, Written
  <2>7. Matches(x)'
    BY <1>2, <1>3, <1>4, <1>5, <1>7, <2>1, <2>r DEF Matches, Done
  <2>8. produced' \in Nat /\ produced' >= produced
    BY <1>2 DEF TypeOK
  <2>9. Follows(x, g, flags.approval)'
    BY <1>1, <1>2, <2>6
  <2> QED
    BY <1>1, <1>2, <2>7, <2>8, <2>9, TrackStays
<1> QED
  BY <1>8, <1>10, <1>11

\* Journaling a response.
LEMMA TrackRespond ==
    ASSUME TypeOK, TypeOK', StageInv, NEW f, NEW g, Track(f, g), Respond
    PROVE  \E F, G : Track(F, G)'
<1>1. PICK x : x = f[Len(journal)]
  OBVIOUS
<1> DEFINE e == LlmResponse(resp)
<1>2. /\ pc = "responded" /\ pc' = (IF resp.size = 0 THEN "pushed" ELSE "dispatch") /\ next' = 1
      /\ journal' = Append(journal, e) /\ messages' = Append(messages, e)
      /\ recorded' = recorded /\ cursor' = cursor /\ flags' = flags /\ bounds' = bounds
      /\ queue' = queue /\ produced' = produced /\ resp' = resp
  BY DEF Respond, Goto, replayVars, envVars
<1>3. x \in Ctl /\ Matches(x) /\ g[Len(recorded)] \in Ctl /\ (Follows(x, g, flags.approval) \/ IsPast(x, g))
  BY <1>1, <1>2, TrackPlaces
<1>4. resp \in Response /\ resp.size \in Nat /\ resp.id \in Nat
  BY DEF TypeOK, Response
<1>5. PICK y : y = [at |-> IF resp.size = 0 THEN "over" ELSE "tools", resp |-> resp, calls |-> 0, done |-> 0, chat |-> x.chat + 1]
  OBVIOUS
<1>6. x.at = "response" /\ resp.id > x.resp.id
  BY <1>2, <1>3 DEF Matches
<1>7. Step(x, e, y, flags.approval)
  BY <1>4, <1>5, <1>6 DEF Step, StepResponse
<1>8. e \in EntryType /\ e.k = "LlmResponse" /\ e.k \in PlainKinds /\ e.k \in Kinds
  BY <1>4, EntryTypes, EntryKinds DEF PlainKinds, Kinds
<1>9. Lag = e /\ Lagging /\ ~Lagging'
  BY <1>2 DEF Lag, Lagging
<1> HIDE DEF e
<1>10. Follows(y, g, flags.approval)' \/ IsPast(y, g)'
  <2>1. CASE Follows(x, g, flags.approval)
    <3>1. Step(x, e, g[cursor], flags.approval)
      BY <1>9, <2>1 DEF Follows
    <3>2. y = g[cursor]
      BY <1>3, <1>7, <3>1, StepUnique
    <3>3. PICK a : a = flags.approval
      OBVIOUS
    <3>4. Follows(y, g, a)'
      BY <1>2, <1>8, <1>9, <2>1, <3>2, <3>3, FollowsCatchUp
    <3> QED
      BY <1>2, <3>3, <3>4
  <2>2. CASE IsPast(x, g)
    <3>1. y \in Ctl /\ Precedes(x, y)
      BY <1>3, <1>7, StepForward
    <3>2. Writes(Kinds)
      BY <1>2, <1>8 DEF Writes
    <3> QED
      BY <1>2, <1>3, <2>2, <3>1, <3>2, PastStays
  <2> QED
    BY <1>3, <2>1, <2>2
<1>11. Matches(y)'
  <2>1. /\ y.resp = resp /\ y.calls = 0 /\ y.done = 0 /\ y.chat = x.chat + 1
        /\ (resp.size # 0 => y.at = "tools")
    BY <1>5
  <2>2. resp.id <= produced
    BY <1>3 DEF Matches
  <2>3. bounds.inputs = 0 => queue' = 0 /\ Len(messages') + Done' = y.chat
    <3>1. Done' = 0 /\ Done = 0
      BY <1>2 DEF Done
    <3>2. messages \in Seq(EntryType) /\ Len(messages') = Len(messages) + 1
      BY <1>2, <1>8 DEF TypeOK
    <3>3. bounds.inputs = 0 => queue = 0 /\ Len(messages) + Done = x.chat
      BY <1>3 DEF Matches
    <3> QED
      BY <1>2, <2>1, <3>1, <3>2, <3>3
  <2> QED
    BY <1>2, <2>1, <2>2, <2>3 DEF Matches
<1> QED
  BY <1>1, <1>2, <1>7, <1>8, <1>10, <1>11, TrackAppend

\* The place of a serial call, and the place after it.
LEMMA CallPlace ==
    ASSUME TypeOK, StageInv, NEW f, NEW g, Track(f, g), pc = "dispatch", next <= resp.size,
           NEW x, x = f[Len(journal)], NEW y, y = [x EXCEPT !.calls = @ + 1]
    PROVE  /\ x \in Ctl /\ x.at = "tools" /\ x.resp = resp /\ x.done = next - 1 /\ x.calls = next - 1
           /\ next \in 1 .. resp.size /\ Call(next) = <<x.resp.id, x.calls + 1>>
           /\ y.at = "tools" /\ y.resp = resp /\ y.done = next - 1 /\ y.calls = next /\ y.chat = x.chat
           /\ Step(x, ToolCall(Call(next)), y, flags.approval)
           /\ ToolCall(Call(next)) \in EntryType /\ ToolCall(Call(next)).k = "ToolCall"
           /\ ToolCall(Call(next)).k \in PlainKinds
<1>1. x \in Ctl /\ Matches(x)
  BY TrackPlaces
<1>2. resp.size \in Nat /\ next \in Nat /\ next \in 1 .. (resp.size + 1)
  BY DEF TypeOK, Response, StageInv
<1>3. next \in 1 .. resp.size /\ (next - 1) + 1 = next /\ next - 1 \in Nat
  BY <1>2
<1>4. x.resp = resp /\ x.done = next - 1 /\ x.calls = next - 1
  BY <1>1 DEF Matches
<1>5. x.at = "tools"
  BY <1>1, <1>3, <1>4, CtlFields
<1>6. Call(next) = <<x.resp.id, x.calls + 1>>
  BY <1>3, <1>4 DEF Call
<1>7. y.at = "tools" /\ y.resp = resp /\ y.done = next - 1 /\ y.calls = next /\ y.chat = x.chat
  BY <1>1, <1>3, <1>4, <1>5, CtlFields
<1>8. StepCall(x, ToolCall(Call(next)), y, flags.approval)
  <2>1. x.calls < x.resp.size
    BY <1>2, <1>3, <1>4
  <2> QED
    BY <1>4, <1>5, <1>6, <2>1 DEF StepCall
<1>9. ToolCall(Call(next)) \in EntryType
  BY <1>2, CallType, EntryTypes
<1>10. ToolCall(Call(next)).k = "ToolCall" /\ ToolCall(Call(next)).k \in PlainKinds
  BY EntryKinds DEF PlainKinds, Kinds
<1>11. Step(x, ToolCall(Call(next)), y, flags.approval)
  BY <1>8 DEF Step
<1> QED
  BY <1>1, <1>3, <1>4, <1>5, <1>6, <1>7, <1>9, <1>10, <1>11

\* A recorded result is taken: only nested entries are skipped.
LEMMA FoundPlace ==
    ASSUME TypeOK, StageInv, NEW f, NEW g, Track(f, g), pc = "dispatch", next <= resp.size, ~AtFrontier,
           NEW x, x = f[Len(journal)], NEW y, y = [x EXCEPT !.calls = @ + 1],
           Upcoming = ToolCall(Call(next)), NEW j \in Found(Call(next))
    PROVE  /\ j \in (cursor + 2) .. Len(recorded) /\ j - 1 \in Nat /\ cursor + 1 <= j - 1 /\ recorded[j] \in EntryType
           /\ \A i \in (cursor + 2) .. (j - 1) : recorded[i].k = "Effect"
           /\ recorded[j] = ToolResult(Call(next), recorded[j].v)
           /\ Step(y, recorded[j], g[j], flags.approval)
<1>1. /\ x \in Ctl /\ x.resp = resp /\ next \in 1 .. resp.size /\ Call(next) = <<x.resp.id, x.calls + 1>>
      /\ x.calls = next - 1
      /\ y.resp = resp /\ y.done = next - 1 /\ y.calls = next
      /\ Step(x, ToolCall(Call(next)), y, flags.approval) /\ ToolCall(Call(next)).k = "ToolCall"
  BY CallPlace
<1>2. pc # "ended" /\ ~Lagging
  BY DEF Lagging
<1>3. /\ Step(g[cursor], Upcoming, g[cursor + 1], flags.approval)
      /\ cursor + 1 \in 1 .. Len(recorded) /\ Follows(x, g, flags.approval)
  BY <1>2, UpcomingStep
<1>4. g[cursor] = x
  BY <1>2, <1>3 DEF Follows
<1>5. g[cursor + 1] = y
  BY <1>1, <1>3, <1>4, StepUnique
<1>6. /\ cursor \in Nat /\ Len(recorded) \in Nat /\ recorded \in Seq(EntryType)
      /\ Parses(recorded, g, flags.approval)
  BY DEF TypeOK, Track
<1>7. /\ j \in (cursor + 2) .. Len(recorded) /\ recorded[j].k = "ToolResult" /\ recorded[j].c = Call(next)
      /\ \A h \in (cursor + 2) .. (j - 1) : recorded[h].k \in {"ToolResult", "Effect"}
  BY DEF Found
<1> DEFINE k == cursor + 1
<1>8. k + 1 = cursor + 2 /\ j \in (k + 1) .. Len(recorded) /\ j \in 1 .. Len(recorded) /\ j - 1 \in Nat /\ k <= j - 1
  BY <1>6, <1>7
<1>9. resp.id \in Nat /\ resp.size \in Nat /\ (next - 1) + 1 = next
  BY <1>1 DEF TypeOK, Response
<1>10. recorded[k].k # "Effect" /\ g[k].calls = g[k].done + 1 /\ recorded[j].c = <<g[k].resp.id, g[k].done + 1>>
  BY <1>1, <1>5, <1>7, <1>9 DEF Upcoming, Call
<1>11. (\A i \in (k + 1) .. (j - 1) : recorded[i].k = "Effect") /\ g[j - 1] = g[k]
  <2>1. \/ (\A i \in (k + 1) .. (j - 1) : recorded[i].k = "Effect") /\ g[j - 1] = g[k]
        \/ (\E i \in (k + 1) .. (j - 1) : recorded[i].k = "ToolCall") /\ g[k].resp.parallel /\ ~flags.approval
    <3> HIDE DEF k
    <3> QED
      BY <1>3, <1>6, <1>7, <1>8, <1>10, ResultFollows DEF k
  <2> QED
    BY <1>7, <1>8, <2>1
<1>12. Step(g[j - 1], recorded[j], g[j], flags.approval)
  BY <1>6, <1>8 DEF Parses
<1>13. Step(y, recorded[j], g[j], flags.approval)
  BY <1>5, <1>11, <1>12
<1>14. recorded[j] \in EntryType
  BY <1>6, <1>8
<1>15. recorded[j] = ToolResult(Call(next), recorded[j].v)
  <2>1. StepResult(y, recorded[j], g[j])
    BY <1>7, <1>13, StepKind
  <2> QED
    BY <1>1, <1>9, <2>1 DEF StepResult, Call
<1> QED
  BY <1>7, <1>8, <1>11, <1>13, <1>14, <1>15

\* A call of a serial response.
LEMMA TrackCall ==
    ASSUME TypeOK, TypeOK', StageInv, NEW f, NEW g, Track(f, g), SerialCall, pc' # "ended"
    PROVE  \E F, G : Track(F, G)'
<1>1. PICK x, a : x = f[Len(journal)] /\ a = flags.approval
  OBVIOUS
<1>2. PICK y : y = [x EXCEPT !.calls = @ + 1]
  OBVIOUS
<1>3. PICK e : e = ToolCall(Call(next))
  OBVIOUS
<1>4. /\ pc = "dispatch" /\ next <= resp.size /\ journal' = Append(journal, e) /\ recorded' = recorded
      /\ messages' = messages /\ resp' = resp /\ next' = next /\ produced' = produced /\ queue' = queue
      /\ flags' = flags /\ bounds' = bounds
      /\ \/ pc' = "approve" /\ AtFrontier /\ cursor' = cursor
         \/ pc' = "approve" /\ ~AtFrontier /\ Upcoming = e /\ cursor' = cursor + 1
         \/ /\ pc' = "finish" /\ ~AtFrontier /\ Upcoming = e
            /\ \E j \in Found(Call(next)) : cursor' = j /\ results' = Append(results, recorded[j].v)
  BY <1>3 DEF SerialCall, Goto, Ends, envVars
<1>5. /\ x \in Ctl /\ x.resp = resp /\ x.done = next - 1 /\ x.calls = next - 1
      /\ next \in 1 .. resp.size
      /\ y.at = "tools" /\ y.resp = resp /\ y.done = next - 1 /\ y.calls = next /\ y.chat = x.chat
      /\ Step(x, e, y, a) /\ e \in EntryType /\ e.k = "ToolCall" /\ e.k \in PlainKinds
  BY <1>1, <1>2, <1>3, <1>4, CallPlace
<1>6. Matches(x) /\ Done = next - 1 /\ Done' = next - 1
  BY <1>1, <1>4, TrackPlaces DEF Done
<1>7. Matches(y)'
  <2>1. pc' \in {"approve", "finish"}
    BY <1>4
  <2> QED
    BY <1>4, <1>5, <1>6, <2>1 DEF Matches
<1>8. Follows(y, g, flags.approval)' \/ IsPast(y, g)'
  <2>1. CASE pc' = "approve"
    <3>1. ~Lagging /\ ~Lagging'
      BY <1>4, <2>1 DEF Lagging
    <3>2. Step(f[Len(journal)], e, y, flags.approval)
      BY <1>1, <1>5
    <3>3. \/ AtFrontier /\ cursor' = cursor
          \/ ~AtFrontier /\ Upcoming = e /\ cursor' = cursor + 1
      BY <1>4, <2>1
    <3> QED
      BY <1>4, <1>5, <3>1, <3>2, <3>3, KeepsPace
  <2>2. CASE pc' = "finish"
    <3>1. ~AtFrontier /\ Upcoming = e /\ \E j \in Found(Call(next)) : cursor' = j /\ results' = Append(results, recorded[j].v)
      BY <1>4, <2>2
    <3>2. PICK j \in Found(Call(next)) : cursor' = j /\ results' = Append(results, recorded[j].v)
      BY <3>1
    <3>3. /\ j \in (cursor + 2) .. Len(recorded) /\ j - 1 \in Nat /\ cursor + 1 <= j - 1 /\ recorded[j] \in EntryType
          /\ \A i \in (cursor + 2) .. (j - 1) : recorded[i].k = "Effect"
          /\ recorded[j] = ToolResult(Call(next), recorded[j].v)
          /\ Step(y, recorded[j], g[j], flags.approval)
      BY <1>1, <1>2, <1>3, <1>4, <3>1, FoundPlace
    <3>4. Follows(x, g, a) /\ ~Lagging
      BY <1>1, <1>4, <3>1, UpcomingStep DEF Lagging
    <3>5. /\ Plain(journal') = SelectTo(recorded, cursor + 1, PlainKinds)
          /\ Count(journal', Len(journal'), PlainKinds) = Count(recorded, cursor + 1, PlainKinds)
          /\ Count(journal', Len(journal'), PlainKinds) \in Nat
      BY <1>4, <1>5, <3>1, <3>4, WritesRecord
    <3>6. /\ Count(recorded, j - 1, PlainKinds) = Count(recorded, cursor + 1, PlainKinds)
          /\ SelectTo(recorded, j - 1, PlainKinds) = SelectTo(recorded, cursor + 1, PlainKinds)
      <4>1. cursor + 1 \in Nat /\ (cursor + 1) + 1 = cursor + 2
        BY DEF TypeOK
      <4>2. \A i \in ((cursor + 1) + 1) .. (j - 1) : recorded[i].k \notin PlainKinds
        BY <3>3, <4>1 DEF PlainKinds
      <4> QED
        BY <3>3, <4>1, <4>2, SelectOver
    <3>7. recorded[j].k \in PlainKinds /\ (j - 1) + 1 = j
      BY <3>3, EntryKinds DEF PlainKinds, Kinds
    <3>8. /\ SelectTo(recorded, j, PlainKinds)
               = SelectTo(recorded, j - 1, PlainKinds) \cup {<<Count(recorded, j - 1, PlainKinds) + 1, recorded[j]>>}
          /\ Count(recorded, j, PlainKinds) = Count(recorded, j - 1, PlainKinds) + 1
      <4>1. /\ SelectTo(recorded, (j - 1) + 1, PlainKinds)
                 = SelectTo(recorded, j - 1, PlainKinds) \cup {<<Count(recorded, j - 1, PlainKinds) + 1, recorded[(j - 1) + 1]>>}
            /\ Count(recorded, (j - 1) + 1, PlainKinds)
                 = Count(recorded, j - 1, PlainKinds) + (IF recorded[(j - 1) + 1].k \in PlainKinds THEN 1 ELSE 0)
        BY <3>3, <3>7, SelectStep, CountStep
      <4> QED
        BY <3>7, <4>1
    <3>9. results'[next] = recorded[j].v
      <4>1. Len(results) = next - 1 /\ results \in Seq(Int) /\ recorded[j].v \in Int
        <5>1. Len(results) = next - 1 /\ results \in Seq(Int)
          BY <1>4 DEF StageInv, TypeOK
        <5>2. recorded[j].v \in Nat
          BY <3>3 DEF EntryType
        <5> QED
          BY <5>1, <5>2
      <4> QED
        BY <1>5, <3>2, <4>1
    <3>10. Lagging' /\ Lag' = recorded[j]
      BY <1>4, <2>2, <3>3, <3>9 DEF Lagging, Lag, Call
    <3> QED
      BY <1>4, <3>2, <3>3, <3>5, <3>6, <3>8, <3>10 DEF Follows, Written
  <2> QED
    BY <1>4, <2>1, <2>2
<1> QED
  BY <1>1, <1>4, <1>5, <1>7, <1>8, TrackAppend

\* A result is journaled: a live one, a recorded one, or one of a batch.
LEMMA TrackResult ==
    ASSUME TypeOK, TypeOK', StageInv, NEW f, NEW g, Track(f, g), BatchResult \/ Finish
    PROVE  \E F, G : Track(F, G)'
<1>1. PICK x, a : x = f[Len(journal)] /\ a = flags.approval
  OBVIOUS
<1>2. PICK e : e = ToolResult(Call(next), results[next])
  OBVIOUS
<1>3. PICK y : y = [x EXCEPT !.at = IF x.done + 1 = x.resp.size THEN "turn" ELSE "tools", !.done = @ + 1, !.chat = @ + 1]
  OBVIOUS
<1>4. /\ \/ pc = "batchrun" /\ pc' = "batchrun" /\ running = {} /\ next <= resp.size
         \/ pc = "finish" /\ pc' = "dispatch"
      /\ journal' = Append(journal, e) /\ recorded' = recorded /\ cursor' = cursor
      /\ messages' = messages /\ resp' = resp /\ next' = next + 1 /\ produced' = produced /\ queue' = queue
      /\ flags' = flags /\ bounds' = bounds
  BY <1>2 DEF BatchResult, Finish, Goto, replayVars, envVars
<1>5. resp.size \in Nat /\ next \in Nat /\ next \in 1 .. resp.size
  BY <1>4 DEF TypeOK, Response, StageInv
<1>6. x \in Ctl /\ Matches(x) /\ g[Len(recorded)] \in Ctl /\ (Follows(x, g, a) \/ IsPast(x, g)) /\ pc # "ended"
  BY <1>1, <1>4, TrackPlaces
<1>7. x.resp = resp /\ x.done = next - 1 /\ x.calls = (IF pc = "finish" THEN next ELSE resp.size)
  BY <1>4, <1>6 DEF Matches
<1>8. x.at = "tools" /\ x.done < x.calls /\ (x.calls = x.done + 1 \/ x.calls = x.resp.size) /\ x.done + 1 = next
  BY <1>5, <1>6, <1>7, CtlFields
<1>9. /\ y.at \in {"turn", "tools"} /\ y.resp = resp /\ y.calls = x.calls /\ y.done = next /\ y.chat = x.chat + 1
  <2>1. x.resp.size \in Nat /\ x.done \in Nat
    BY <1>6, CtlFields
  <2> QED
    BY <1>3, <1>6, <1>7, <1>8, CtlFields
<1>10. results[next] \in Nat
  <2>1. results \in Seq(Int)
    BY DEF TypeOK
  <2>2. Len(results) >= next /\ results[next] >= 0
    <3>1. CASE pc = "batchrun"
      BY <1>4, <1>5, <3>1 DEF StageInv
    <3>2. CASE pc = "finish"
      <4>1. Len(results) = next /\ \A i \in DOMAIN results : results[i] >= 0
        BY <3>2 DEF StageInv
      <4> QED
        BY <1>5, <2>1, <4>1
    <3> QED
      BY <1>4, <3>1, <3>2
  <2> QED
    BY <1>5, <2>1, <2>2
<1>11. e \in EntryType /\ e.k = "ToolResult" /\ e.k \in PlainKinds /\ e.k \in Kinds /\ e.v = results[next]
  <2>1. Call(next) \in Nat \X Nat
    BY <1>5, CallType
  <2>2. e \in EntryType
    BY <1>2, <1>10, <2>1, EntryTypes
  <2>3. e.k = "ToolResult" /\ e.v = results[next]
    BY <1>2, EntryKinds
  <2> QED
    BY <2>2, <2>3 DEF PlainKinds, Kinds
<1>12. Step(x, e, y, a)
  <2>1. e = ToolResult(<<x.resp.id, x.done + 1>>, e.v)
    BY <1>2, <1>7, <1>8, <1>11 DEF Call
  <2>2. StepResult(x, e, y)
    BY <1>3, <1>8, <2>1 DEF StepResult
  <2> QED
    BY <2>2 DEF Step
<1>13. Matches(y)'
  <2>1. pc' = "dispatch" => x.calls = next
    BY <1>4, <1>7
  <2>2. pc' = "batchrun" => x.calls = resp.size
    BY <1>4, <1>7
  <2>3. Done = next - 1 /\ Done' = next /\ next' - 1 = next
    BY <1>4, <1>5 DEF Done
  <2>4. bounds.inputs = 0 => queue' = 0 /\ Len(messages') + Done' = y.chat
    <3>1. bounds.inputs = 0 => queue = 0 /\ Len(messages) + Done = x.chat
      BY <1>6 DEF Matches
    <3>2. Len(messages) \in Nat
      BY DEF TypeOK
    <3> QED
      BY <1>4, <1>5, <1>9, <2>3, <3>1, <3>2
  <2>5. resp.id <= produced
    BY <1>6 DEF Matches
  <2>6. pc' \in {"dispatch", "batchrun"}
    BY <1>4
  <2> QED
    BY <1>4, <1>9, <2>1, <2>2, <2>3, <2>4, <2>5, <2>6 DEF Matches
<1>14. Follows(y, g, flags.approval)' \/ IsPast(y, g)'
  <2>1. y \in Ctl /\ Precedes(x, y)
    BY <1>6, <1>12, StepForward
  <2>2. Writes(Kinds)
    BY <1>4, <1>11 DEF Writes
  <2>3. CASE IsPast(x, g)
    BY <1>4, <1>6, <2>1, <2>2, <2>3, PastStays
  <2>4. CASE pc = "batchrun"
    <3>1. AtFrontier /\ ~Lagging
      BY <2>4 DEF StageInv, Lagging
    <3>2. IsPast(x, g)
      BY <1>1, <1>6, <3>1, PastRecord
    <3> QED
      BY <2>3, <3>2
  <2>5. CASE pc = "finish" /\ Follows(x, g, a)
    <3>1. Lagging /\ ~Lagging' /\ Lag = e
      BY <1>2, <1>4, <2>5 DEF Lagging, Lag
    <3>2. Step(x, e, g[cursor], a)
      BY <2>5, <3>1 DEF Follows
    <3>3. y = g[cursor]
      BY <1>6, <1>12, <3>2, StepUnique
    <3>4. Follows(y, g, a)'
      BY <1>4, <1>11, <2>5, <3>1, <3>3, FollowsCatchUp
    <3> QED
      BY <1>1, <1>4, <3>4
  <2> QED
    BY <1>4, <1>6, <2>3, <2>4, <2>5
<1>15. Step(f[Len(journal)], e, y, flags.approval)
  BY <1>1, <1>12
<1> QED
  BY <1>4, <1>6, <1>11, <1>13, <1>14, <1>15, TrackAppend

\* A call of a parallel response.
LEMMA TrackBatchCall ==
    ASSUME TypeOK, TypeOK', StageInv, StageInv', NEW f, NEW g, Track(f, g), BatchCall
    PROVE  \E F, G : Track(F, G)'
<1>1. PICK x, a : x = f[Len(journal)] /\ a = flags.approval
  OBVIOUS
<1>2. PICK e : e = ToolCall(Call(next))
  OBVIOUS
<1>3. PICK y : y = [x EXCEPT !.calls = @ + 1]
  OBVIOUS
<1>4. /\ pc = "batch" \/ (pc = "dispatch" /\ next = 1)
      /\ pc' = "batch" /\ next <= resp.size
      /\ journal' = Append(journal, e) /\ recorded' = recorded /\ cursor' = cursor
      /\ messages' = messages /\ resp' = resp /\ next' = next + 1 /\ produced' = produced /\ queue' = queue
      /\ flags' = flags /\ bounds' = bounds
  BY <1>2 DEF BatchCall, Goto, replayVars, envVars
<1>5. resp.size \in Nat /\ next \in Nat
  BY DEF TypeOK, Response
<1>6. x \in Ctl /\ Matches(x) /\ pc # "ended"
  BY <1>1, <1>4, TrackPlaces
<1>7. resp.parallel /\ ~a /\ AtFrontier
  BY <1>1, <1>4 DEF StageInv, AtFrontier
<1>8. x.resp = resp /\ x.done = 0 /\ x.calls = next - 1
  BY <1>4, <1>5, <1>6 DEF Matches
<1>9. x.at = "tools" /\ x.calls < x.resp.size /\ x.calls + 1 = next
  <2>1. x.calls + 1 = next /\ x.calls < x.resp.size
    BY <1>4, <1>5, <1>8
  <2>2. x.calls \in Nat
    BY <1>6, CtlFields
  <2>3. x.done < x.resp.size
    BY <1>5, <1>8, <2>1, <2>2
  <2> QED
    BY <1>6, <2>1, <2>3, CtlFields
<1>10. y.at = "tools" /\ y.resp = resp /\ y.calls = next /\ y.done = 0 /\ y.chat = x.chat
  BY <1>3, <1>6, <1>8, <1>9, CtlFields
<1>11. e \in EntryType /\ e.k = "ToolCall" /\ e.k \in PlainKinds
  <2>1. e \in EntryType
    BY <1>2, <1>5, CallType, EntryTypes
  <2>2. e.k = "ToolCall"
    BY <1>2, EntryKinds
  <2> QED
    BY <2>1, <2>2 DEF PlainKinds, Kinds
<1>12. Step(x, e, y, a)
  <2>1. e = ToolCall(<<x.resp.id, x.calls + 1>>)
    BY <1>2, <1>8, <1>9 DEF Call
  <2>2. StepCall(x, e, y, a)
    BY <1>3, <1>7, <1>8, <1>9, <2>1 DEF StepCall
  <2> QED
    BY <2>2 DEF Step
<1>13. Matches(y)'
  <2>1. Done = 0 /\ Done' = 0 /\ next' - 1 = next
    BY <1>4, <1>5 DEF Done
  <2> QED
    BY <1>4, <1>6, <1>10, <2>1 DEF Matches
<1>14. Step(f[Len(journal)], e, y, flags.approval)
  BY <1>1, <1>12
<1>15. ~Lagging /\ ~Lagging'
  BY <1>4 DEF Lagging
<1>16. Follows(y, g, flags.approval)' \/ IsPast(y, g)'
  BY <1>4, <1>6, <1>7, <1>11, <1>14, <1>15, KeepsPace
<1> QED
  BY <1>4, <1>6, <1>11, <1>13, <1>14, <1>16, TrackAppend

\* A nested entry leads nowhere, in the journal and past the record.
LEMMA TrackNested ==
    ASSUME TypeOK, TypeOK', StageInv, NEW f, NEW g, Track(f, g), NEW e \in EntryType, Nests(e)
    PROVE  \E F, G : Track(F, G)'
<1>1. PICK x, a : x = f[Len(journal)] /\ a = flags.approval
  OBVIOUS
<1>2. /\ pc # "ended" /\ pc' = pc /\ e.k = "Effect"
      /\ journal' = Append(journal, e) /\ recorded' = recorded /\ cursor' = cursor
      /\ messages' = messages /\ resp' = resp /\ next' = next /\ results' = results
      /\ produced' = produced /\ queue' = queue /\ flags' = flags /\ bounds' = bounds
  BY DEF Nests
<1>3. /\ x \in Ctl /\ Matches(x) /\ g[Len(recorded)] \in Ctl
      /\ Follows(x, g, a) \/ IsPast(x, g)
  BY <1>1, <1>2, TrackPlaces
<1>4. Step(x, e, x, a)
  BY <1>2 DEF Step, StepEffect
<1>5. Matches(x)'
  BY <1>2, <1>3 DEF Matches, Done
<1>6. ASSUME Follows(x, g, a)
      PROVE  Follows(x, g, a)'
  <2>1. journal \in Seq(EntryType) /\ e.k \notin PlainKinds
    BY <1>2 DEF TypeOK, PlainKinds
  <2>2. /\ SelectTo(journal', Len(journal'), PlainKinds) = SelectTo(journal, Len(journal), PlainKinds)
        /\ Count(journal', Len(journal'), PlainKinds) = Count(journal, Len(journal), PlainKinds) + 0
        /\ Count(journal, Len(journal), PlainKinds) \in Nat
    BY <1>2, <2>1, SelectAppend
  <2>3. Count(journal', Len(journal'), PlainKinds) = Count(journal, Len(journal), PlainKinds)
    BY <2>2
  <2>4. Lagging' = Lagging /\ Lag' = Lag
    BY <1>2 DEF Lagging, Lag, Call
  <2>5. Written' = Written
    BY <2>2, <2>3, <2>4 DEF Written, Plain
  <2> QED
    BY <1>2, <1>6, <2>3, <2>4, <2>5 DEF Follows
<1>7. ASSUME IsPast(x, g)
      PROVE  IsPast(x, g)'
  <2>1. Writes(Kinds) /\ Precedes(x, x)
    BY <1>2, <1>3, PrecedesItself DEF Writes, Kinds
  <2> QED
    BY <1>2, <1>3, <1>7, <2>1, PastStays
<1>8. Follows(x, g, flags.approval)' \/ IsPast(x, g)'
  BY <1>1, <1>2, <1>3, <1>6, <1>7
<1> QED
  BY <1>1, <1>2, <1>4, <1>5, <1>8, TrackAppend

\* Tools run and return, and turns end, without an entry.
LEMMA TrackTools ==
    ASSUME TypeOK, TypeOK', StageInv, NEW f, NEW g, Track(f, g), pc' # "ended",
           BatchRun \/ (\E i \in running : BatchToolReturns(i)) \/ Approve \/ ToolReturns \/ EndTurn
    PROVE  \E F, G : Track(F, G)'
<1> USE DEF Goto, Ends, replayVars, turnVars, envVars
<1>1. PICK x : x = f[Len(journal)]
  OBVIOUS
<1>2. /\ journal' = journal /\ recorded' = recorded /\ cursor' = cursor /\ resp' = resp /\ queue' = queue
      /\ flags' = flags /\ bounds' = bounds /\ pc # "ended"
  BY DEF BatchRun, BatchToolReturns, Approve, ToolReturns, EndTurn
<1>3. x \in Ctl /\ Matches(x) /\ (Follows(x, g, flags.approval) \/ IsPast(x, g))
  BY <1>1, <1>2, TrackPlaces
<1>4. resp.size \in Nat /\ next \in Nat /\ produced \in Nat /\ messages \in Seq(EntryType) /\ resp.id \in Nat
  BY DEF TypeOK, Response
<1>5. x.resp.id \in Nat /\ x.resp.id <= produced /\ resp.id <= produced
  BY <1>3, CtlFields DEF Matches
<1>6. CASE BatchRun
  <2>1. pc = "batch" /\ pc' = "batchrun" /\ next > resp.size /\ next' = 1 /\ messages' = messages /\ produced' = produced
    BY <1>6 DEF BatchRun
  <2>2. Done = 0 /\ Done' = 0 /\ next - 1 = resp.size
    BY <1>4, <2>1 DEF Done, StageInv
  <2>3. Matches(x)'
    BY <1>2, <1>3, <2>1, <2>2 DEF Matches
  <2>4. Follows(x, g, flags.approval)' \/ IsPast(x, g)'
    BY <1>2, <1>3, <2>1, PaceSame DEF Lagging
  <2> QED
    BY <1>1, <1>2, <1>4, <2>1, <2>3, <2>4, TrackStays
<1>7. ASSUME NEW i \in running, BatchToolReturns(i)
      PROVE  \E F, G : Track(F, G)'
  <2>1. pc = "batchrun" /\ pc' = "batchrun" /\ next' = next /\ messages' = messages /\ produced' \in {produced, produced + 1}
    BY <1>7 DEF BatchToolReturns
  <2>2. Done' = Done /\ x.resp.id <= produced' /\ resp.id <= produced' /\ produced' \in Nat /\ produced' >= produced
    BY <1>4, <1>5, <2>1 DEF Done
  <2>3. Matches(x)'
    BY <1>2, <1>3, <2>1, <2>2 DEF Matches
  <2>4. Follows(x, g, flags.approval)' \/ IsPast(x, g)'
    BY <1>2, <1>3, <2>1, PaceSame DEF Lagging
  <2> QED
    BY <1>1, <1>2, <2>1, <2>2, <2>3, <2>4, TrackStays
<1>8. CASE Approve \/ ToolReturns
  <2>1. /\ pc \in {"approve", "exec"} /\ pc' \in {"exec", "finish"} /\ next' = next /\ messages' = messages
        /\ produced' \in {produced, produced + 1}
    BY <1>8 DEF Approve, ToolReturns
  <2>2. Done' = Done /\ x.resp.id <= produced' /\ resp.id <= produced' /\ produced' \in Nat /\ produced' >= produced
    BY <1>4, <1>5, <2>1 DEF Done
  <2>3. Matches(x)'
    BY <1>2, <1>3, <2>1, <2>2 DEF Matches
  <2>4. AtFrontier /\ ~Lagging
    BY <2>1 DEF StageInv, Lagging
  <2>5. IsPast(x, g)
    BY <1>1, <1>2, <2>4, PastRecord
  <2>6. IsPast(x, g)'
    BY <1>2, <2>5 DEF IsPast, AtFrontier
  <2> QED
    BY <1>1, <1>2, <2>2, <2>3, <2>6, TrackStays
<1>9. CASE EndTurn
  <2> DEFINE t == [i \in 1 .. resp.size |-> ToolResult(Call(i), results[i])]
  <2>1. /\ pc \in {"dispatch", "batchrun"} /\ pc' = "idle" /\ next > resp.size /\ produced' = produced
        /\ messages' = messages \o t
    BY <1>9 DEF EndTurn
  <2>2. next - 1 = resp.size /\ Done = resp.size /\ Done' = 0
    BY <1>4, <2>1 DEF Done, StageInv
  <2>3. Len(messages') = Len(messages) + resp.size
    <3>2. t \in [1 .. resp.size -> {t[i] : i \in 1 .. resp.size}]
      OBVIOUS
    <3>3. PICK S : S = EntryType \cup {t[i] : i \in 1 .. resp.size}
      OBVIOUS
    <3>4. t \in [1 .. resp.size -> S] /\ messages \in [1 .. Len(messages) -> S]
      BY <1>4, <3>2, <3>3
    <3> HIDE DEF t
    <3>5. t \in Seq(S) /\ Len(t) = resp.size /\ messages \in Seq(S)
      BY <1>4, <3>4
    <3>6. Len(messages \o t) = Len(messages) + Len(t)
      BY <3>5
    <3> QED
      BY <2>1, <3>5, <3>6
  <2>4. x.at = "turn"
    <3>1. x.done = resp.size /\ x.resp = resp /\ x.at \in {"tools", "turn"}
      BY <1>3, <2>1, <2>2 DEF Matches
    <3> QED
      BY <1>3, <1>4, <3>1, CtlFields
  <2>5. bounds.inputs = 0 => queue' = 0 /\ Len(messages') + Done' = x.chat
    <3>1. bounds.inputs = 0 => queue = 0 /\ Len(messages) + Done = x.chat
      BY <1>3 DEF Matches
    <3> QED
      BY <1>2, <1>4, <2>2, <2>3, <3>1
  <2>6. Matches(x)'
    <3>1. x.resp = resp
      BY <1>3, <2>1 DEF Matches
    <3> QED
      BY <1>2, <1>5, <2>1, <2>4, <2>5, <3>1 DEF Matches
  <2>7. Follows(x, g, flags.approval)' \/ IsPast(x, g)'
    BY <1>2, <1>3, <2>1, PaceSame DEF Lagging
  <2> QED
    BY <1>1, <1>2, <1>4, <2>1, <2>6, <2>7, TrackStays
<1> QED
  BY <1>6, <1>7, <1>8, <1>9

\* Inputs, signals and restarts.
LEMMA TrackWorld ==
    ASSUME TypeOK, TypeOK', NEW f, NEW g, Track(f, g),
           Steer \/ Restart \/ \E flag \in {"cancelled", "killed"} : Signal(flag)
    PROVE  \E F, G : Track(F, G)'
<1>1. PICK x : x = f[Len(journal)]
  OBVIOUS
<1>2. /\ journal' = journal /\ recorded' = recorded /\ cursor' = cursor /\ resp' = resp /\ next' = next /\ results' = results
      /\ messages' = messages /\ produced' = produced /\ pc # "ended"
      /\ pc' = pc \/ (pc = "crashed" /\ pc' = "idle")
  BY DEF Steer, Restart, Signal, Goto, replayVars, turnVars
<1>3. x \in Ctl /\ Matches(x) /\ (Follows(x, g, flags.approval) \/ IsPast(x, g))
  BY <1>1, <1>2, TrackPlaces
<1>4. /\ flags'.approval = flags.approval
      /\ bounds'.inputs = 0 => bounds.inputs = 0 /\ queue' = queue
  <2>1. CASE Steer
    <3>1. bounds \in [inputs : Nat, faults : Nat, crashes : Nat]
      BY DEF TypeOK
    <3>2. bounds'.inputs = bounds.inputs + 1 /\ bounds.inputs \in Nat /\ flags' = flags
      BY <2>1, <3>1 DEF Steer
    <3> QED
      BY <3>2
  <2>2. CASE Restart
    BY <2>2 DEF Restart, envVars
  <2>3. ASSUME NEW flag \in {"cancelled", "killed"}, Signal(flag)
        PROVE  <1>4
    <3>1. bounds \in [inputs : Nat, faults : Nat, crashes : Nat] /\ flags \in [cancelled : BOOLEAN, killed : BOOLEAN, approval : BOOLEAN]
      BY DEF TypeOK
    <3> QED
      BY <2>3, <3>1 DEF Signal
  <2> QED
    BY <2>1, <2>2, <2>3
<1>5. Matches(x)'
  BY <1>2, <1>3, <1>4 DEF Matches, Done
<1>6. Follows(x, g, flags.approval)' \/ IsPast(x, g)'
  <2>1. (~Lagging /\ ~Lagging') \/ (Lagging /\ Lagging' /\ Lag' = Lag)
    BY <1>2 DEF Lagging, Lag, Call
  <2> QED
    BY <1>2, <1>3, <1>4, <2>1, PaceSame
<1>7. produced' \in Nat /\ produced' >= produced
  BY <1>2 DEF TypeOK
<1> QED
  BY <1>1, <1>2, <1>4, <1>5, <1>6, <1>7, TrackStays

\* The journal of the dead run is the record of the next, or the old one is.
LEMMA TrackCrash ==
    ASSUME TypeOK, TypeOK', NEW f, NEW g, Track(f, g), Crash
    PROVE  \E F, G : Track(F, G)'
<1>1. PICK G : G = IF AtFrontier THEN f ELSE g
  OBVIOUS
<1>2. PICK F : F = [j \in 0 .. 0 |-> Start]
  OBVIOUS
<1>3. /\ pc # "ended" /\ pc' = "crashed" /\ messages' = <<>> /\ journal' = <<>> /\ cursor' = 0
      /\ recorded' = (IF AtFrontier THEN journal ELSE recorded) /\ resp' = NoResponse /\ queue' = 0 /\ produced' = produced
  BY DEF Crash
<1>4. flags'.approval = flags.approval /\ bounds'.inputs = bounds.inputs
  <2>1. bounds \in [inputs : Nat, faults : Nat, crashes : Nat] /\ flags \in [cancelled : BOOLEAN, killed : BOOLEAN, approval : BOOLEAN]
    BY DEF TypeOK
  <2> QED
    BY <2>1 DEF Crash
<1>5. /\ Parses(recorded', G, flags'.approval) /\ (bounds'.inputs = 0 => Honest(recorded', G))
      /\ G[Len(recorded')].resp.id <= produced'
  <2>1. CASE AtFrontier
    BY <1>1, <1>3, <1>4, <2>1 DEF Track, Matches
  <2>2. CASE ~AtFrontier
    BY <1>1, <1>3, <1>4, <2>2 DEF Track
  <2> QED
    BY <2>1, <2>2
<1>6. Parses(journal', F, flags'.approval) /\ Honest(journal', F) /\ F[Len(journal')] = Start
  BY <1>2, <1>3, ParsesEmpty
<1>7. Matches(Start)'
  <2>1. Start.at = "turn" /\ Start.resp = NoResponse /\ Start.chat = 0 /\ NoResponse.id = 0
    BY DEF Start, NoResponse
  <2>2. produced' \in Nat /\ Len(messages') + 0 = 0
    BY <1>3 DEF TypeOK
  <2>3. Done' = 0
    BY <1>3 DEF Done
  <2> QED
    BY <1>3, <2>1, <2>2, <2>3 DEF Matches
<1>8. Follows(Start, G, flags.approval)'
  <2>1. ~Lagging'
    BY <1>3 DEF Lagging
  <2>2. G[0] = Start
    BY <1>5 DEF Parses
  <2>3. /\ Count(journal', Len(journal'), PlainKinds) = 0 /\ Count(recorded', cursor', PlainKinds) = 0
        /\ Plain(journal') = {} /\ SelectTo(recorded', cursor', PlainKinds) = {}
    <3>1. Len(journal') = 0
      BY <1>3
    <3> QED
      BY <1>3, <3>1, CountNone DEF Plain
  <2>4. Count(journal', Len(journal'), PlainKinds) + 0 = Count(recorded', cursor', PlainKinds) /\ G[cursor'] = Start
    BY <1>3, <2>2, <2>3
  <2> QED
    BY <2>1, <2>3, <2>4 DEF Follows, Written
<1>9. Track(F, G)'
  BY <1>3, <1>5, <1>6, <1>7, <1>8 DEF Track
<1> QED
  BY <1>9

\* Every step keeps the journal a run and the record ahead of it.
LEMMA TrackStep ==
    ASSUME TypeOK, TypeOK', StageInv, StageInv', NEW f, NEW g, Track(f, g), Next
    PROVE  \E F, G : Track(F, G)'
<1>1. CASE pc' = "ended"
  <2>1. recorded' = recorded /\ flags' = flags /\ bounds'.inputs = bounds.inputs /\ produced' = produced
    BY <1>1, EndingKeeps
  <2> QED
    BY <1>1, <2>1, TrackEnds
<1>2. CASE pc' # "ended"
  <2>1. StopBetweenTurns \/ KilledAtResponse \/ Complete \/ HookRefuses \/ ProviderFails \/ TurnFails => pc' = "ended"
    BY DEF StopBetweenTurns, KilledAtResponse, Complete, HookRefuses, ProviderFails, TurnFails, Ends
  <2>2. TurnStep => \E F, G : Track(F, G)'
    BY <1>2, <2>1, TrackStart, TrackProvider, TrackReplay, TrackRespond, TrackTools DEF TurnStep
  <2>3. ToolStep => \E F, G : Track(F, G)'
    BY <1>2, TrackBatchCall, TrackTools, TrackResult, TrackCall DEF ToolStep
  <2>4. FaultStep \/ Restart => \E F, G : Track(F, G)'
    BY <1>2, <2>1, TrackWorld, TrackCrash DEF FaultStep
  <2>5. ChildCompletes \/ (\E i \in running : ToolJournals(i)) => \E F, G : Track(F, G)'
    BY NestedEntry, TrackNested
  <2> QED
    BY <2>2, <2>3, <2>4, <2>5 DEF Next
<1> QED
  BY <1>1, <1>2

-----------------------------------------------------------------------------
(* The properties.                                                           *)

\* A recorded result belongs to a call that is behind the run.
LEMMA RecordedBehind ==
    ASSUME TypeOK, NEW f, NEW g, Track(f, g), pc # "ended", AtFrontier, ~Lagging, NEW x, x = f[Len(journal)],
           NEW j \in DOMAIN recorded, recorded[j].k = "ToolResult", NEW i \in Nat, recorded[j].c = <<x.resp.id, i>>
    PROVE  i <= x.done
<1>1. /\ Parses(recorded, g, flags.approval) /\ Len(recorded) \in Nat /\ g[Len(recorded)] \in Ctl /\ x \in Ctl
  BY TrackPlaces
<1>2. j \in 1 .. Len(recorded) /\ j \in 0 .. Len(recorded) /\ Len(recorded) \in 0 .. Len(recorded) /\ j <= Len(recorded)
  BY DEF TypeOK
<1>3. IsPast(x, g)
  BY PastRecord
<1>4. Precedes(g[j], g[Len(recorded)]) /\ g[j] \in Ctl
  BY <1>1, <1>2 DEF Parses
<1>5. Precedes(g[j], x)
  BY <1>1, <1>3, <1>4, PrecedesTransitive DEF IsPast
<1>6. recorded[j].c = <<g[j].resp.id, g[j].done>>
  BY <1>1, <1>2, ResultPlace
<1>7. g[j].resp.id = x.resp.id /\ g[j].done = i
  BY <1>6
<1> QED
  BY <1>1, <1>4, <1>5, <1>7, CtlFields DEF Precedes

\* No step repeats what the record holds.
LEMMA NotRepeatedStep ==
    ASSUME TypeOK, StageInv, StageInv', RecordedNotRepeated, NEW f, NEW g, Track(f, g), Next
    PROVE  RecordedNotRepeated'
<1> USE DEF Goto, Ends, replayVars, turnVars, envVars
<1>1. pc' = "calling" => AtFrontier'
  BY DEF StageInv
<1>2. PICK x : x = f[Len(journal)]
  OBVIOUS
<1>3. resp.size \in Nat /\ next \in Nat
  BY DEF TypeOK, Response
<1>4. CASE BatchRun
  <2>1. pc = "batch" /\ ran' = ran \cup {Call(i) : i \in 1 .. resp.size} /\ recorded' = recorded
    BY <1>4 DEF BatchRun
  <2>2. AtFrontier /\ ~Lagging /\ x.resp = resp /\ x.done = 0
    BY <1>2, <2>1, TrackPlaces DEF StageInv, Lagging, Matches
  <2>3. \A j \in DOMAIN recorded : recorded[j].k = "ToolResult" => recorded[j].c \notin {Call(i) : i \in 1 .. resp.size}
    <3> SUFFICES ASSUME NEW j \in DOMAIN recorded, recorded[j].k = "ToolResult", NEW i \in 1 .. resp.size, recorded[j].c = Call(i)
                 PROVE  FALSE
      OBVIOUS
    <3>1. recorded[j].c = <<x.resp.id, i>> /\ i \in Nat
      BY <1>3, <2>2 DEF Call
    <3>2. i <= x.done
      BY <1>2, <2>1, <2>2, <3>1, RecordedBehind
    <3> QED
      BY <1>3, <2>2, <3>2
  <2> QED
    BY <1>1, <2>1, <2>3 DEF RecordedNotRepeated
<1>5. CASE Approve
  <2>1. pc = "approve" /\ ran' \subseteq ran \cup {Call(next)} /\ recorded' = recorded
    BY <1>5 DEF Approve
  <2>2. AtFrontier /\ ~Lagging /\ x.resp = resp /\ x.done = next - 1
    BY <1>2, <2>1, TrackPlaces DEF StageInv, Lagging, Matches
  <2>3. \A j \in DOMAIN recorded : recorded[j].k = "ToolResult" => recorded[j].c # Call(next)
    <3> SUFFICES ASSUME NEW j \in DOMAIN recorded, recorded[j].k = "ToolResult", recorded[j].c = Call(next)
                 PROVE  FALSE
      OBVIOUS
    <3>1. recorded[j].c = <<x.resp.id, next>>
      BY <2>2 DEF Call
    <3>2. next <= x.done
      BY <1>2, <1>3, <2>1, <2>2, <3>1, RecordedBehind
    <3> QED
      BY <1>3, <2>2, <3>2
  <2> QED
    BY <1>1, <2>1, <2>3 DEF RecordedNotRepeated
<1>6. CASE Crash
  BY <1>1, <1>6 DEF Crash, RecordedNotRepeated
<1>7. CASE ran' = ran /\ recorded' = recorded
  BY <1>1, <1>7 DEF RecordedNotRepeated
<1>8. TurnStep => ran' = ran /\ recorded' = recorded
  BY DEF TurnStep, StopBetweenTurns, StartTurn, Request, JournalAndConsume, ReplayResponse, CallProvider, ProviderAnswers, Respond,
         KilledAtResponse, Complete, EndTurn
<1>9. ToolStep => BatchRun \/ Approve \/ (ran' = ran /\ recorded' = recorded)
  BY DEF ToolStep, BatchCall, BatchResult, BatchToolReturns, SerialCall, ToolReturns, Finish
<1>10. FaultStep => Crash \/ (ran' = ran /\ recorded' = recorded)
  BY DEF FaultStep, HookRefuses, ProviderFails, TurnFails, Steer, Signal
<1>11. Restart \/ ChildCompletes \/ (\E i \in running : ToolJournals(i)) => ran' = ran /\ recorded' = recorded
  BY DEF Restart, ChildCompletes, ToolJournals
<1> QED
  BY <1>4, <1>5, <1>6, <1>7, <1>8, <1>9, <1>10, <1>11 DEF Next

\* While a run is on, it has written a part of the record or all of it.
LEMMA RewriteHolds ==
    ASSUME TypeOK', NEW f, NEW g, Track(f, g)', pc' # "ended"
    PROVE  ReplayRewritesRecord'
<1>1. PICK x, a : x = f[Len(journal')] /\ a = flags'.approval
  OBVIOUS
<1>2. Follows(x, g, a)' \/ IsPast(x, g)'
  BY <1>1 DEF Track
<1>3. CASE Follows(x, g, a)'
  <2>1. Plain(journal') \subseteq SelectTo(recorded', cursor', PlainKinds)
    BY <1>3 DEF Follows, Written
  <2>2. cursor' \in Nat /\ Len(recorded') \in Nat /\ cursor' <= Len(recorded')
    BY DEF TypeOK
  <2>3. SelectTo(recorded', cursor', PlainKinds) \subseteq SelectTo(recorded', Len(recorded'), PlainKinds)
    BY <2>2, SelectMore
  <2> QED
    BY <2>1, <2>3 DEF ReplayRewritesRecord, Plain
<1>4. CASE IsPast(x, g)'
  BY <1>4 DEF IsPast, ReplayRewritesRecord
<1> QED
  BY <1>2, <1>3, <1>4

\* Every step keeps the journal a copy of the record replayed so far.
LEMMA RewriteStep ==
    ASSUME TypeOK, TypeOK', StageInv, ReplayRewritesRecord, NEW f, NEW g, Track(f, g)', Next
    PROVE  ReplayRewritesRecord'
<1>1. CASE pc' # "ended"
  BY <1>1, RewriteHolds
<1>2. CASE outcome' = "diverged"
  BY <1>2 DEF ReplayRewritesRecord
<1>3. CASE pc' = "ended" /\ outcome' # "diverged"
  <2> USE DEF Goto, Ends, replayVars, turnVars, envVars
  <2>1. pc # "ended" /\ outcome # "diverged"
    BY EndedStays DEF StageInv
  <2>2. recorded' = recorded
    BY <1>3, EndingKeeps
  <2>3. HookRefuses \/ journal' = journal
    <3>1. TurnStep => journal' = journal
      BY <1>3 DEF TurnStep, StopBetweenTurns, StartTurn, Request, JournalAndConsume, ReplayResponse, CallProvider, ProviderAnswers,
                  Respond, KilledAtResponse, Complete, EndTurn
    <3>2. ~ToolStep
      BY <1>3, <2>1 DEF ToolStep, BatchCall, BatchRun, BatchResult, BatchToolReturns, SerialCall, Approve, ToolReturns, Finish
    <3>3. FaultStep => HookRefuses \/ journal' = journal
      BY <1>3 DEF FaultStep, ProviderFails, TurnFails, Steer, Signal, Crash
    <3>4. ~Restart /\ ~ChildCompletes /\ ~\E i \in running : ToolJournals(i)
      BY <1>3, <2>1 DEF Restart, ChildCompletes, ToolJournals
    <3> QED
      BY <3>1, <3>2, <3>3, <3>4 DEF Next
  <2>4. CASE HookRefuses
    <3>1. recorded' = <<>> /\ Len(<<>>) = 0
      BY <2>2, <2>4 DEF HookRefuses
    <3>2. Plain(recorded') = {}
      BY <3>1, CountNone DEF Plain
    <3> QED
      BY <3>2 DEF ReplayRewritesRecord
  <2>5. CASE journal' = journal
    BY <2>1, <2>2, <2>5 DEF ReplayRewritesRecord
  <2> QED
    BY <2>3, <2>4, <2>5
<1> QED
  BY <1>1, <1>2, <1>3

\* A call before place k whose result comes after it is a call that is open there.
LEMMA OpenCall ==
    ASSUME NEW s \in Seq(EntryType), NEW g, NEW a, Parses(s, g, a), NEW k \in 0 .. Len(s),
           NEW i \in 1 .. k, NEW h \in (k + 1) .. Len(s),
           s[i].k = "ToolCall", s[h].k = "ToolResult", s[h].c = s[i].c
    PROVE  g[k] \in Ctl /\ \E m \in (g[k].done + 1) .. g[k].calls : s[h].c = <<g[k].resp.id, m>>
<1>1. /\ Len(s) \in Nat /\ i \in 1 .. Len(s) /\ i \in 0 .. Len(s) /\ i - 1 \in 0 .. Len(s) /\ i <= k
      /\ h \in 1 .. Len(s) /\ h - 1 \in 0 .. Len(s) /\ k <= h - 1
  OBVIOUS
<1>2. /\ g[i - 1] \in Ctl /\ g[i] \in Ctl /\ g[k] \in Ctl /\ g[h - 1] \in Ctl /\ Step(g[i - 1], s[i], g[i], a)
      /\ Precedes(g[i], g[k]) /\ Precedes(g[k], g[h - 1])
  BY <1>1 DEF Parses
<1>3. s[i].c = <<g[i].resp.id, g[i].calls>>
  <2>1. StepCall(g[i - 1], s[i], g[i], a)
    BY <1>2, StepKind
  <2>2. g[i].resp = g[i - 1].resp /\ g[i].calls = g[i - 1].calls + 1
    BY <1>2, <2>1 DEF StepCall, Ctl
  <2> QED
    BY <2>1, <2>2 DEF StepCall, ToolCall, Entry
<1>4. s[h].c = <<g[h - 1].resp.id, g[h - 1].done + 1>>
  BY <1>1, ResultPlace
<1>5. PICK x, y, z : x = g[i] /\ y = g[k] /\ z = g[h - 1]
  OBVIOUS
<1>6. x.resp.id = z.resp.id /\ x.calls = z.done + 1
  BY <1>3, <1>4, <1>5
<1>7. /\ x.resp.id \in Nat /\ y.resp.id \in Nat /\ z.resp.id \in Nat
      /\ x.calls \in Nat /\ y.calls \in Nat /\ y.done \in Nat /\ z.done \in Nat
  BY <1>2, <1>5, CtlFields
<1>8. Precedes(x, y) /\ Precedes(y, z)
  BY <1>2, <1>5
<1>9. x.resp.id = y.resp.id
  BY <1>6, <1>7, <1>8 DEF Precedes
<1>10. x.calls <= y.calls /\ y.done <= z.done
  BY <1>6, <1>7, <1>8, <1>9 DEF Precedes
<1>11. x.calls \in (y.done + 1) .. y.calls /\ s[h].c = <<y.resp.id, x.calls>>
  BY <1>3, <1>5, <1>6, <1>7, <1>9, <1>10
<1> QED
  BY <1>2, <1>5, <1>11

\* The record holds an entry of a tool or child that no call and its result enclose.
Loose == \E j \in DOMAIN recorded : recorded[j].k = "Effect" /\ ~Enclosed(recorded, j)

\* The record has such an entry next where no call is open: nothing encloses it.
LEMMA UpcomingLoose ==
    ASSUME TypeOK, NEW f, NEW g, Track(f, g), ~AtFrontier, Upcoming.k = "Effect", g[cursor].calls = g[cursor].done
    PROVE  Loose
<1>1. /\ recorded \in Seq(EntryType) /\ Len(recorded) \in Nat /\ cursor \in Nat /\ DOMAIN recorded = 1 .. Len(recorded)
      /\ Parses(recorded, g, flags.approval)
  BY DEF TypeOK, Track
<1>2. cursor + 1 \in 1 .. Len(recorded) /\ (cursor + 1) - 1 = cursor /\ cursor \in 0 .. Len(recorded)
  BY <1>1, UpcomingStep
<1>3. ASSUME NEW i \in 1 .. ((cursor + 1) - 1), NEW h \in ((cursor + 1) + 1) .. Len(recorded),
             recorded[i].k = "ToolCall", recorded[h].k = "ToolResult", recorded[h].c = recorded[i].c
      PROVE  FALSE
  <2>1. i \in 1 .. cursor /\ h \in (cursor + 1) .. Len(recorded)
    BY <1>1, <1>2
  <2>2. g[cursor] \in Ctl /\ (g[cursor].done + 1) .. g[cursor].calls # {}
    BY <1>1, <1>2, <1>3, <2>1, OpenCall
  <2>3. g[cursor].done \in Nat
    BY <2>2, CtlFields
  <2> QED
    BY <2>2, <2>3
<1>4. ~Enclosed(recorded, cursor + 1)
  BY <1>3 DEF Enclosed
<1> QED
  BY <1>1, <1>2, <1>4 DEF Loose, Upcoming

\* A turn or a request of the record is met by the same entry, if no input was
\* steered into the recorded run and no child's entry comes first.
LEMMA StartMatches ==
    ASSUME TypeOK, NEW f, NEW g, Track(f, g), ~AtFrontier
    PROVE  /\ pc = "idle" => Upcoming = TurnStart \/ Loose
           /\ pc = "started" /\ bounds.inputs = 0 => Upcoming = LlmRequest(Len(messages)) \/ Loose
<1> SUFFICES ASSUME pc \in {"idle", "started"}, Upcoming.k # "Effect"
             PROVE  /\ pc = "idle" => Upcoming = TurnStart
                    /\ pc = "started" /\ bounds.inputs = 0 => Upcoming = LlmRequest(Len(messages))
  <2> SUFFICES ASSUME pc \in {"idle", "started"}, Upcoming.k = "Effect"
               PROVE  Loose
    OBVIOUS
  <2>1. /\ f[Len(journal)] \in Ctl /\ Matches(f[Len(journal)]) /\ g[cursor] = f[Len(journal)]
    BY TrackPlaces, UpcomingStep DEF Follows, Lagging
  <2>2. f[Len(journal)].at # "tools"
    BY <2>1 DEF Matches
  <2>3. g[cursor].calls = g[cursor].done
    BY <2>1, <2>2, CtlFields
  <2> QED
    BY <2>3, UpcomingLoose
<1>1. PICK x, z, a : x = f[Len(journal)] /\ z = g[cursor + 1] /\ a = flags.approval
  OBVIOUS
<1>2. Step(g[cursor], Upcoming, z, a) /\ cursor + 1 \in 1 .. Len(recorded) /\ Follows(x, g, a)
  BY <1>1, UpcomingStep
<1>3. g[cursor] = x /\ x \in Ctl /\ Matches(x)
  BY <1>1, <1>2, TrackPlaces DEF Follows, Lagging
<1>4. CASE pc = "idle"
  <2>1. x.at = "turn"
    BY <1>3, <1>4 DEF Matches
  <2>2. StepTurn(x, Upcoming, z)
    BY <1>2, <1>3, <2>1 DEF Step, StepRequest, StepResponse, StepCall, StepResult, StepEffect
  <2> QED
    BY <1>4, <2>2 DEF StepTurn
<1>5. CASE pc = "started"
  <2>1. x.at = "request"
    BY <1>3, <1>5 DEF Matches
  <2>2. StepRequest(x, Upcoming, z)
    BY <1>2, <1>3, <2>1 DEF Step, StepTurn, StepResponse, StepCall, StepResult, StepEffect
  <2>3. Upcoming = LlmRequest(Upcoming.v) /\ Upcoming.k = "LlmRequest"
    BY <2>2, EntryKinds DEF StepRequest
  <2>4. ASSUME bounds.inputs = 0
        PROVE  Upcoming.v = Len(messages)
    <3>1. Honest(recorded, g)
      BY <2>4 DEF Track
    <3>2. (cursor + 1) - 1 = cursor
      BY DEF TypeOK
    <3>3. Upcoming.v = g[(cursor + 1) - 1].chat
      BY <1>2, <2>3, <3>1 DEF Honest, Upcoming
    <3>4. Len(messages) + 0 = x.chat /\ Len(messages) \in Nat
      BY <1>3, <1>5, <2>4 DEF Matches, Done, TypeOK
    <3> QED
      BY <1>3, <3>2, <3>3, <3>4
  <2> QED
    BY <1>5, <2>3, <2>4
<1> QED
  BY <1>4, <1>5

\* A serial call meets the recorded call, or an entry of a child; and when it
\* then finds no result, the record holds a batch, or entries that nothing encloses.
LEMMA CallMatches ==
    ASSUME TypeOK, StageInv, NEW f, NEW g, Track(f, g), ~AtFrontier, pc = "dispatch", next <= resp.size
    PROVE  /\ Upcoming = ToolCall(Call(next)) \/ Loose
           /\ Upcoming = ToolCall(Call(next)) /\ cursor + 1 < Len(recorded) /\ Found(Call(next)) = {} =>
                \/ ~flags.approval /\ \E j \in DOMAIN recorded : recorded[j].k = "LlmResponse" /\ AsResponse(recorded[j]).parallel
                \/ Loose
<1>1. PICK x, z, a : x = f[Len(journal)] /\ z = g[cursor + 1] /\ a = flags.approval
  OBVIOUS
<1>2. PICK y : y = [x EXCEPT !.calls = @ + 1]
  OBVIOUS
<1>3. /\ x \in Ctl /\ x.at = "tools" /\ x.resp = resp /\ x.done = next - 1 /\ x.calls = next - 1
      /\ next \in 1 .. resp.size /\ Call(next) = <<x.resp.id, x.calls + 1>>
      /\ y.at = "tools" /\ y.resp = resp /\ y.done = next - 1 /\ y.calls = next
      /\ Step(x, ToolCall(Call(next)), y, a) /\ ToolCall(Call(next)).k = "ToolCall"
  BY <1>1, <1>2, CallPlace
<1>4. Step(g[cursor], Upcoming, z, a) /\ cursor + 1 \in 1 .. Len(recorded) /\ Follows(x, g, a)
  BY <1>1, UpcomingStep
<1>5. g[cursor] = x
  BY <1>4 DEF Follows, Lagging
<1>6. resp.size \in Nat /\ next \in Nat /\ resp.id \in Nat /\ (next - 1) + 1 = next
  BY DEF TypeOK, Response
<1>7. Upcoming = ToolCall(Call(next)) \/ Loose
  <2>1. ~StepTurn(x, Upcoming, z) /\ ~StepRequest(x, Upcoming, z) /\ ~StepResponse(x, Upcoming, z)
    BY <1>3 DEF StepTurn, StepRequest, StepResponse
  <2>2. ~StepResult(x, Upcoming, z)
    BY <1>3, <1>6 DEF StepResult
  <2>3. StepCall(x, Upcoming, z, a) => Upcoming = ToolCall(Call(next))
    BY <1>3 DEF StepCall
  <2>4. StepEffect(x, Upcoming, z) => Loose
    BY <1>3, <1>5, UpcomingLoose DEF StepEffect
  <2> QED
    BY <1>4, <1>5, <2>1, <2>2, <2>3, <2>4 DEF Step
<1>8. Upcoming = ToolCall(Call(next)) => z = y
  BY <1>3, <1>4, <1>5, StepUnique
<1>9. ASSUME Upcoming = ToolCall(Call(next)), cursor + 1 < Len(recorded), Found(Call(next)) = {},
             ~(~flags.approval /\ \E j \in DOMAIN recorded : recorded[j].k = "LlmResponse" /\ AsResponse(recorded[j]).parallel)
      PROVE  Loose
  <2> DEFINE k == cursor + 1
             n == cursor + 2
  <2>1. /\ recorded \in Seq(EntryType) /\ Len(recorded) \in Nat /\ cursor \in Nat /\ Parses(recorded, g, a)
        /\ DOMAIN recorded = 1 .. Len(recorded)
    BY <1>1 DEF TypeOK, Track
  <2>2. n \in 1 .. Len(recorded) /\ n - 1 = k /\ k \in 1 .. Len(recorded) /\ k \in 0 .. Len(recorded) /\ k + 1 = n
    BY <1>9, <2>1
  <2>3. g[k] = y /\ recorded[k] = Upcoming
    BY <1>1, <1>8, <1>9 DEF Upcoming
  <2>4. ~(y.resp.parallel /\ ~a)
    <3> SUFFICES ASSUME y.resp.parallel, ~a
                 PROVE  FALSE
      OBVIOUS
    <3>1. \E j \in 1 .. k : recorded[j].k = "LlmResponse" /\ AsResponse(recorded[j]).parallel
      <4> HIDE DEF k
      <4> QED
        BY <2>1, <2>2, <2>3, ParallelRecorded
    <3>2. 1 .. k \subseteq DOMAIN recorded
      BY <2>1, <2>2
    <3> QED
      BY <1>1, <1>9, <3>1, <3>2
  <2>5. Step(y, recorded[n], g[n], a)
    <3>1. Step(g[n - 1], recorded[n], g[n], a)
      <4> HIDE DEF n
      <4> QED
        BY <2>1, <2>2 DEF Parses
    <3> QED
      BY <2>2, <2>3, <3>1
  <2>6. recorded[n].k = "Effect"
    <3>1. ~StepTurn(y, recorded[n], g[n]) /\ ~StepRequest(y, recorded[n], g[n]) /\ ~StepResponse(y, recorded[n], g[n])
      BY <1>3 DEF StepTurn, StepRequest, StepResponse
    <3>2. ~StepCall(y, recorded[n], g[n], a)
      BY <1>3, <1>6, <2>4 DEF StepCall
    <3>3. ~StepResult(y, recorded[n], g[n])
      <4> SUFFICES ASSUME StepResult(y, recorded[n], g[n])
                   PROVE  FALSE
        OBVIOUS
      <4>1. recorded[n].k = "ToolResult" /\ recorded[n].c = Call(next)
        BY <1>3, <1>6, EntryKinds DEF StepResult, Call
      <4>2. n \in (cursor + 2) .. Len(recorded) /\ (cursor + 2) .. (n - 1) = {}
        BY <2>1, <2>2
      <4>3. n \in Found(Call(next))
        BY <4>1, <4>2 DEF Found
      <4> QED
        BY <1>9, <4>3
    <3>4. StepEffect(y, recorded[n], g[n])
      BY <2>5, <3>1, <3>2, <3>3 DEF Step
    <3> QED
      BY <3>4 DEF StepEffect
  <2>8. \A h \in DOMAIN recorded : ~(recorded[h].k = "ToolResult" /\ recorded[h].c = Call(next))
    <3> SUFFICES ASSUME NEW h \in 1 .. Len(recorded), recorded[h].k = "ToolResult", recorded[h].c = Call(next)
                 PROVE  FALSE
      BY <2>1
    <3>1. /\ recorded[h].c = <<g[h].resp.id, g[h].done>>
      BY <2>1, ResultPlace
    <3>2. g[h].resp.id = y.resp.id /\ g[h].done = next
      BY <1>3, <3>1 DEF Call
    <3>3. h > k
      <4> SUFFICES ASSUME h <= k
                   PROVE  FALSE
        BY <2>1, <2>2
      <4>1. h \in 0 .. Len(recorded)
        BY <2>1
      <4>2. Precedes(g[h], g[k])
        <5> HIDE DEF k
        <5> QED
          BY <2>1, <2>2, <4>1 DEF Parses
      <4>3. g[h] \in Ctl /\ y \in Ctl
        BY <2>1, <2>2, <2>3, <4>1 DEF Parses
      <4>4. Precedes(g[h], y)
        BY <2>3, <4>2
      <4>5. ~(g[h].resp.id < y.resp.id) /\ g[h].done > y.done
        BY <1>3, <1>6, <3>2, <4>3, CtlFields
      <4> QED
        BY <1>3, <1>6, <3>2, <4>4, <4>5 DEF Precedes
    <3>4. h \in (k + 1) .. Len(recorded)
      BY <2>1, <2>2, <3>3
    <3>5. recorded[k].k # "Effect" /\ g[k].calls = g[k].done + 1 /\ recorded[h].c = <<g[k].resp.id, g[k].done + 1>>
      BY <1>3, <1>6, <1>9, <2>3 DEF Call
    <3>6. \/ (\A i \in (k + 1) .. (h - 1) : recorded[i].k = "Effect") /\ g[h - 1] = g[k]
          \/ (\E i \in (k + 1) .. (h - 1) : recorded[i].k = "ToolCall") /\ g[k].resp.parallel /\ ~a
      <4>1. /\ recorded \in Seq(EntryType) /\ Parses(recorded, g, a) /\ k \in 1 .. Len(recorded)
            /\ recorded[h].k = "ToolResult"
        BY <2>1, <2>2
      <4> HIDE DEF k
      <4> QED
        BY <3>4, <3>5, <4>1, ResultFollows
    <3>7. \A i \in (k + 1) .. (h - 1) : recorded[i].k = "Effect"
      BY <2>3, <2>4, <3>6
    <3>8. h \in Found(Call(next))
      <4>1. h \in (cursor + 2) .. Len(recorded)
        BY <2>2, <3>4
      <4>2. \A i \in (cursor + 2) .. (h - 1) : recorded[i].k = "Effect"
        BY <2>2, <3>7
      <4> QED
        BY <4>1, <4>2 DEF Found
    <3> QED
      BY <1>9, <3>8
  <2>9. ASSUME NEW i \in 1 .. (n - 1), NEW h \in (n + 1) .. Len(recorded),
               recorded[i].k = "ToolCall", recorded[h].k = "ToolResult", recorded[h].c = recorded[i].c
        PROVE  FALSE
    <3>1. i \in 1 .. k /\ h \in (k + 1) .. Len(recorded) /\ h \in DOMAIN recorded
      BY <2>1, <2>2
    <3>2. PICK m \in (g[k].done + 1) .. g[k].calls : recorded[h].c = <<g[k].resp.id, m>>
      <4> HIDE DEF k, n
      <4> QED
        BY <2>1, <2>2, <2>9, <3>1, OpenCall
    <3>3. m = next
      BY <1>3, <1>6, <2>3, <3>2
    <3>4. recorded[h].c = Call(next)
      BY <1>3, <2>3, <3>2, <3>3 DEF Call
    <3> QED
      BY <2>8, <2>9, <3>1, <3>4
  <2>10. ~Enclosed(recorded, n)
    BY <2>9 DEF Enclosed
  <2> QED
    BY <2>1, <2>2, <2>6, <2>10 DEF Loose
<1> QED
  BY <1>7, <1>9

\* A step that diverges does so where the property says.
LEMMA DivergeStep ==
    ASSUME TypeOK, TypeOK', StageInv, NEW f, NEW g, Track(f, g), Next
    PROVE  DivergesOnlyWhere'
<1> SUFFICES ASSUME outcome' = "diverged"
             PROVE  DivergesOnlyWhere'
  BY DEF DivergesOnlyWhere
<1> USE DEF Goto, Ends, replayVars, turnVars, envVars
<1>1. pc # "ended" /\ outcome # "diverged"
  BY EndedStays DEF StageInv
<1>2. StartTurn \/ Request \/ ReplayResponse \/ SerialCall
  <2>1. TurnStep => StartTurn \/ Request \/ ReplayResponse
    BY <1>1 DEF TurnStep, StopBetweenTurns, CallProvider, ProviderAnswers, Respond, KilledAtResponse, Complete, EndTurn
  <2>2. ToolStep => SerialCall
    BY <1>1 DEF ToolStep, BatchCall, BatchRun, BatchResult, BatchToolReturns, Approve, ToolReturns, Finish
  <2>3. ~FaultStep
    BY <1>1 DEF FaultStep, HookRefuses, ProviderFails, TurnFails, Steer, Signal, Crash
  <2>4. ~Restart /\ ~ChildCompletes /\ ~\E i \in running : ToolJournals(i)
    BY <1>1 DEF Restart, ChildCompletes, ToolJournals
  <2> QED
    BY <2>1, <2>2, <2>3, <2>4 DEF Next
<1>3. recorded' = recorded /\ flags' = flags /\ bounds' = bounds
  BY <1>2 DEF StartTurn, Request, ReplayResponse, SerialCall, JournalAndConsume
<1>4. bounds.inputs \in Nat
  BY DEF TypeOK
<1>5. CASE StartTurn
  <2>1. pc = "idle" /\ ~AtFrontier /\ Upcoming # TurnStart
    BY <1>1, <1>5 DEF StartTurn, JournalAndConsume
  <2>2. Loose
    BY <2>1, StartMatches
  <2> QED
    BY <1>3, <2>2 DEF DivergesOnlyWhere, Loose
<1>6. CASE Request
  <2>1. pc = "started" /\ ~AtFrontier /\ Upcoming # LlmRequest(Len(messages))
    BY <1>1, <1>6 DEF Request, JournalAndConsume
  <2>2. bounds.inputs # 0 \/ Loose
    BY <2>1, StartMatches
  <2>3. bounds'.inputs > 0 \/ Loose
    BY <1>3, <1>4, <2>2
  <2> QED
    BY <1>3, <2>3 DEF DivergesOnlyWhere, Loose
<1>7. CASE ReplayResponse
  <2>1. Upcoming.k # "LlmResponse"
    BY <1>1, <1>7 DEF ReplayResponse
  <2>2. pc = "requested" /\ ~AtFrontier
    BY <1>7 DEF ReplayResponse
  <2>3. Upcoming.k = "Effect"
    BY <1>7, <2>1, TrackReplay
  <2>4. /\ f[Len(journal)] \in Ctl /\ Matches(f[Len(journal)]) /\ g[cursor] = f[Len(journal)]
    BY <2>2, TrackPlaces, UpcomingStep DEF Follows, Lagging
  <2>5. f[Len(journal)].at # "tools"
    BY <2>2, <2>4 DEF Matches
  <2>6. g[cursor].calls = g[cursor].done
    BY <2>4, <2>5, CtlFields
  <2>7. Loose
    BY <2>2, <2>3, <2>6, UpcomingLoose
  <2> QED
    BY <1>3, <2>7 DEF DivergesOnlyWhere, Loose
<1>8. CASE SerialCall
  <2>1. /\ pc = "dispatch" /\ next <= resp.size /\ ~AtFrontier
        /\ \/ Upcoming # ToolCall(Call(next))
           \/ cursor + 1 < Len(recorded) /\ Found(Call(next)) = {}
    BY <1>1, <1>8 DEF SerialCall
  <2>2. \/ ~flags.approval /\ \E j \in DOMAIN recorded : recorded[j].k = "LlmResponse" /\ AsResponse(recorded[j]).parallel
        \/ Loose
    BY <2>1, CallMatches
  <2> QED
    BY <1>3, <2>2 DEF DivergesOnlyWhere, Loose
<1> QED
  BY <1>2, <1>5, <1>6, <1>7, <1>8

-----------------------------------------------------------------------------
(* The theorems.                                                             *)

\* The invariant: a journal and a record that parse, and a loop that is where
\* its journal says.
IInv ==
    /\ TypeOK /\ StageInv /\ ChatInv
    /\ RecordedNotRepeated /\ ReplayRewritesRecord /\ DivergesOnlyWhere
    /\ \E f, g : Track(f, g)

\* The invariant holds at first.
LEMMA InitInvariant ==
    ASSUME Init, AgentTurnAssumption
    PROVE  IInv
<1>1. TypeOK
  <2>1. flags \in [cancelled : BOOLEAN, killed : BOOLEAN, approval : BOOLEAN]
    <3>1. PICK a \in Approvals : flags = [cancelled |-> FALSE, killed |-> FALSE, approval |-> a]
      BY DEF Init
    <3>2. a \in BOOLEAN
      BY <3>1, AgentTurnAssumption DEF AgentTurnAssumption
    <3> QED
      BY <3>1, <3>2
  <2>2. resp \in Response /\ running \subseteq 1 .. resp.size
    BY DEF Init, NoResponse, Response
  <2>3. messages \in Seq(EntryType) /\ journal \in Seq(EntryType) /\ recorded \in Seq(EntryType) /\ results \in Seq(Int)
    BY DEF Init
  <2>4. cursor \in 0 .. Len(recorded) /\ bounds \in [inputs : Nat, faults : Nat, crashes : Nat]
    BY DEF Init
  <2> QED
    BY <2>1, <2>2, <2>3, <2>4 DEF Init, TypeOK
<1>2. StageInv
  BY DEF Init, StageInv
<1>3. /\ Len(<<>>) = 0 /\ messages = <<>> /\ journal = <<>> /\ recorded = <<>> /\ cursor = 0 /\ pc = "idle" /\ outcome = "none"
      /\ resp = NoResponse /\ ran = {} /\ produced = 0 /\ queue = 0
  BY DEF Init
<1>4. \A K : Count(<<>>, 0, K) = 0 /\ SelectTo(<<>>, 0, K) = {}
  BY CountNone
<1>5. Done = 0 /\ ~Lagging
  BY <1>3 DEF Done, Lagging
<1>6. ChatInv
  BY <1>3, <1>4, <1>5, AheadNone DEF ChatInv, Chat
<1>7. RecordedNotRepeated /\ DivergesOnlyWhere
  BY <1>3 DEF RecordedNotRepeated, DivergesOnlyWhere
<1>8. ReplayRewritesRecord
  BY <1>3, <1>4 DEF ReplayRewritesRecord, Plain
<1>9. \E f, g : Track(f, g)
  <2>1. PICK f : f = [j \in 0 .. 0 |-> Start]
    OBVIOUS
  <2>2. Parses(<<>>, f, flags.approval) /\ Honest(<<>>, f) /\ f[0] = Start
    BY <1>3, <2>1, ParsesEmpty
  <2>3. Start.at = "turn" /\ Start.resp = NoResponse /\ Start.chat = 0 /\ NoResponse.id = 0
    BY DEF Start, NoResponse
  <2>4. Matches(Start)
    BY <1>3, <1>5, <2>3 DEF Matches
  <2>5. Follows(Start, f, flags.approval)
    BY <1>3, <1>4, <1>5, <2>2 DEF Follows, Written, Plain
  <2>6. Track(f, f)
    BY <1>3, <2>2, <2>3, <2>4, <2>5 DEF Track
  <2> QED
    BY <2>6
<1> QED
  BY <1>1, <1>2, <1>6, <1>7, <1>8, <1>9 DEF IInv

\* Every step keeps the invariant.
LEMMA NextInvariant ==
    ASSUME IInv, Next, AgentTurnAssumption
    PROVE  IInv'
<1>1. /\ TypeOK /\ StageInv /\ ChatInv /\ RecordedNotRepeated /\ ReplayRewritesRecord /\ DivergesOnlyWhere
      /\ \E f, g : Track(f, g)
  BY DEF IInv
<1>2. PICK f, g : Track(f, g)
  BY <1>1
<1>3. TypeOK'
  BY <1>1, TypeStep
<1>4. StageInv'
  BY <1>1, StageStep
<1>5. ChatInv'
  BY <1>1, <1>4, ChatStep
<1>6. \E F, G : Track(F, G)'
  BY <1>1, <1>2, <1>3, <1>4, TrackStep
<1>7. RecordedNotRepeated'
  BY <1>1, <1>2, <1>4, NotRepeatedStep
<1>8. PICK F, G : Track(F, G)'
  BY <1>6
<1>9. ReplayRewritesRecord'
  BY <1>1, <1>3, <1>8, RewriteStep
<1>10. DivergesOnlyWhere'
  BY <1>1, <1>2, <1>3, DivergeStep
<1> QED
  BY <1>3, <1>4, <1>5, <1>7, <1>8, <1>9, <1>10 DEF IInv

\* So does a step that changes nothing.
LEMMA StutterInvariant ==
    ASSUME IInv, UNCHANGED vars
    PROVE  IInv'
<1>1. /\ pc' = pc /\ outcome' = outcome /\ turn' = turn /\ messages' = messages /\ journal' = journal /\ recorded' = recorded
      /\ cursor' = cursor /\ resp' = resp /\ next' = next /\ results' = results /\ running' = running /\ ran' = ran
      /\ produced' = produced /\ queue' = queue /\ flags' = flags /\ bounds' = bounds
  BY DEF vars
<1>2. TypeOK' /\ StageInv'
  BY <1>1 DEF IInv, TypeOK, StageInv, AtFrontier
<1>3. ChatInv'
  BY <1>1 DEF IInv, ChatInv, Done
<1>4. RecordedNotRepeated' /\ ReplayRewritesRecord' /\ DivergesOnlyWhere'
  BY <1>1 DEF IInv, RecordedNotRepeated, ReplayRewritesRecord, DivergesOnlyWhere, AtFrontier
<1>5. \E f, g : Track(f, g)'
  <2>1. PICK f, g : Track(f, g)
    BY DEF IInv
  <2>2. Track(f, g)'
    BY <1>1, <2>1 DEF Track, Matches, Done, Follows, Written, Lagging, Lag, Call, IsPast, AtFrontier
  <2> QED
    BY <2>2
<1> QED
  BY <1>2, <1>3, <1>4, <1>5 DEF IInv

\* Every reachable state satisfies the invariant, whatever the sizes of the
\* responses and the bounds on turns, inputs, faults and crashes.
THEOREM Invariant == Spec => []IInv
<1>1. Init => IInv
  BY InitInvariant, AgentTurnAssumption
<1>2. IInv /\ [Next]_vars => IInv'
  BY NextInvariant, StutterInvariant, AgentTurnAssumption
<1> QED
  BY <1>1, <1>2, PTL DEF Spec

\* Type correctness of the turns of the agent loop.
THEOREM TypeCorrect == Spec => []TypeOK
<1>1. IInv => TypeOK
  BY DEF IInv
<1> QED
  BY <1>1, Invariant, PTL

\* Journal before return: the conversation never shows a response or a result
\* that the journal of this run does not hold at the same place
\* (execute_turn, finish_tool_call, dispatch_tool_calls).
THEOREM JournalFirst == Spec => []JournalBeforeReturn
<1>1. IInv => JournalBeforeReturn
  <2> SUFFICES ASSUME IInv
               PROVE  JournalBeforeReturn
    OBVIOUS
  <2>1. ChatInv
    BY DEF IInv
  <2>2. CASE pc = "ended"
    BY <2>1, <2>2 DEF ChatInv, JournalBeforeReturn
  <2>3. CASE pc = "idle"
    <3>1. Done = 0
      BY <2>3 DEF Done
    <3> QED
      BY <2>1, <2>3, <3>1, AheadNone DEF ChatInv, JournalBeforeReturn
  <2>4. CASE pc \notin {"ended", "idle"}
    BY <2>1, <2>4 DEF ChatInv, JournalBeforeReturn
  <2> QED
    BY <2>2, <2>3, <2>4
<1> QED
  BY <1>1, Invariant, PTL

\* Crash and replay: no tool whose result is recorded runs again and the
\* provider is not asked again, after any number of crashes
\* (take_replay_tool_result, consume_replay_entry).
THEOREM NothingRepeated == Spec => []RecordedNotRepeated
<1>1. IInv => RecordedNotRepeated
  BY DEF IInv
<1> QED
  BY <1>1, Invariant, PTL

\* Until it diverges, a replaying run writes its record again, entry by entry.
THEOREM RecordRewritten == Spec => []ReplayRewritesRecord
<1>1. IInv => ReplayRewritesRecord
  BY DEF IInv
<1> QED
  BY <1>1, Invariant, PTL

\* A replay diverges only on a recorded batch, on an entry of a tool or of a
\* background child that no call and its result enclose, or where input had
\* been steered into the run.
THEOREM DivergenceExplained == Spec => []DivergesOnlyWhere
<1>1. IInv => DivergesOnlyWhere
  BY DEF IInv
<1> QED
  BY <1>1, Invariant, PTL
=============================================================================
