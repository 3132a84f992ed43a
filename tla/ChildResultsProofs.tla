-------------------------- MODULE ChildResultsProofs -------------------------
(***************************************************************************)
(* Safety of the result cache for every set of children and requests and   *)
(* every retry limit, and the proof that it implements ChildBoard.         *)
(***************************************************************************)
EXTENDS ChildResults, TLAPS

\* Every step keeps the types; that a recorded outcome is a status needs Stages.
LEMMA TypeStep == ASSUME TypeOK, Stages, [Next]_vars PROVE TypeOK'
<1> USE DEF TypeOK, Statuses
<1>1. CASE UNCHANGED vars
  BY <1>1 DEF vars, lifecycle, cache, handles, requests
<1>2. ASSUME NEW q \in Requests, NEW c \in Children, JoinChild(q, c) PROVE TypeOK'
  BY <1>2 DEF JoinChild, Ask, Refuse, Answer, Publish, Deliver, CloneResult, lifecycle, handles
<1>3. ASSUME NEW q \in Requests, NEW C \in SUBSET Children, NEW poll \in BOOLEAN,
             WaitChildren(q, C, poll)
      PROVE  TypeOK'
  BY <1>3 DEF WaitChildren, TerminalAmong, Ask, Refuse, Answer, Publish, Deliver, lifecycle, handles
<1>4. ASSUME NEW q \in Requests, NEW c \in Children, ChildStatus(q, c) PROVE TypeOK'
  BY <1>4 DEF ChildStatus, Ask, Refuse, Answer, Publish, Deliver, lifecycle, handles
<1>5. ASSUME NEW q \in Requests, ListChildren(q) PROVE TypeOK'
  BY <1>5 DEF ListChildren, Ask, Answer, Publish, Deliver, lifecycle, handles
<1>6. ASSUME NEW q \in Requests, DropReceiver(q) PROVE TypeOK'
  BY <1>6 DEF DropReceiver, lifecycle, handles, cache
<1>7. ASSUME NEW q \in Requests, TimerFires(q) PROVE TypeOK'
  BY <1>7 DEF TimerFires, Forget, TakesSender, lifecycle, handles
<1>8. ASSUME NEW q \in Requests, TimerAnswers(q) PROVE TypeOK'
  BY <1>8 DEF TimerAnswers, Answer, lifecycle, handles, cache
<1>9. ASSUME NEW c \in Children, Start(c) PROVE TypeOK'
  BY <1>9 DEF Start, requests
<1>10. ASSUME NEW c \in Children, CancelChild(c) PROVE TypeOK'
  BY <1>10 DEF CancelChild, lifecycle, cache, requests
<1>11. ASSUME NEW c \in Children, Fail(c) PROVE TypeOK'
  BY <1>11, RetryAssumption DEF Fail, cache, handles, requests
<1>12. ASSUME NEW c \in Children, NEW o \in {"completed", "failed", "cancelled", "awaiting"},
              Exit(c, o)
       PROVE  TypeOK'
  BY <1>12 DEF Exit, AfterExit, cache, handles, requests
<1>13. ASSUME NEW c \in Children, AwaitApprovalTerminal(c) PROVE TypeOK'
  BY <1>13 DEF AwaitApprovalTerminal, cache, handles, requests
<1>14. ASSUME NEW c \in Children, NEW appended \in BOOLEAN, JournalCompletion(c, appended)
       PROVE  TypeOK'
  BY <1>14 DEF JournalCompletion, ProcessedOutcome, cache, handles, requests
<1>15. ASSUME NEW c \in Children, RecordTerminalResult(c) PROVE TypeOK'
  <2>1. c \in cached /\ outcome[c] \in Statuses
    BY <1>15 DEF RecordTerminalResult, Stages
  <2>2. /\ result' = [result EXCEPT ![c] = outcome[c]]
        /\ joinW' = [joinW EXCEPT ![c] = {}]
        /\ waitW' = [k \in Children |-> waitW[k] \ waitW[c]]
        /\ Publish({c}, Woken(c), c)
    BY <1>15, <2>1 DEF RecordTerminalResult, DropAnswered
  <2>3. /\ result' \in [Children -> Statuses \cup {"none"}]
        /\ joinW' \in [Children -> SUBSET Requests]
        /\ waitW' \in [Children -> SUBSET Requests]
    BY <2>1, <2>2
  <2>4. /\ ask' \in [Requests -> {"idle", "waiting", "timing", "answered", "lost"}]
        /\ reply' \in [Requests -> {"none", "running", "roster", "error"} \cup Children]
        /\ delivered' \subseteq cached /\ told' \subseteq Children
    BY <2>1, <2>2 DEF Publish, Answer, Deliver
  <2>5. /\ pc' = [pc EXCEPT ![c] = "recorded"]
        /\ UNCHANGED <<attempt, outcome, completed, cached, handles, kids, gone, timers, toldAtAsk>>
    BY <1>15 DEF RecordTerminalResult
  <2> QED
    BY <2>3, <2>4, <2>5 DEF handles
<1>16. ASSUME NEW c \in Children, RemoveToken(c) \/ RemoveInput(c) PROVE TypeOK'
  BY <1>16 DEF RemoveToken, RemoveInput, cache, requests
<1>17. ASSUME NEW c \in Children, CloseChild(c) PROVE TypeOK'
  BY <1>17 DEF CloseChild, lifecycle, requests
<1> HIDE DEF TypeOK, Statuses
<1> QED
  BY <1>1, <1>2, <1>3, <1>4, <1>5, <1>6, <1>7, <1>8, <1>9, <1>10, <1>11, <1>12, <1>13,
     <1>14, <1>15, <1>16, <1>17
     DEF Next, OwnerStep, TimerStep, TaskStep, EpilogueStep

-----------------------------------------------------------------------------
\* The owner's calls and the timers leave the lifecycles and the handles alone.
LEMMA CallsKeepStages ==
  ASSUME TypeOK, NEW q \in Requests,
         \/ \E c \in Children : JoinChild(q, c) \/ ChildStatus(q, c)
         \/ \E C \in SUBSET Children, poll \in BOOLEAN : WaitChildren(q, C, poll)
         \/ ListChildren(q) \/ DropReceiver(q) \/ TimerStep(q)
  PROVE  UNCHANGED <<pc, outcome, completed, cached, result, tokens, inputs>>
<1>1. ASSUME NEW c \in Children, JoinChild(q, c) \/ ChildStatus(q, c)
      PROVE  UNCHANGED <<pc, outcome, completed, cached, result, tokens, inputs>>
  BY <1>1 DEF JoinChild, CloneResult, ChildStatus, lifecycle, handles
<1>2. ASSUME NEW C \in SUBSET Children, NEW poll \in BOOLEAN, WaitChildren(q, C, poll)
      PROVE  UNCHANGED <<pc, outcome, completed, cached, result, tokens, inputs>>
  BY <1>2 DEF WaitChildren, lifecycle, handles
<1>3. ASSUME ListChildren(q) \/ DropReceiver(q) \/ TimerStep(q)
      PROVE  UNCHANGED <<pc, outcome, completed, cached, result, tokens, inputs>>
  BY <1>3 DEF ListChildren, DropReceiver, TimerStep, TimerFires, TimerAnswers, lifecycle, handles, cache
<1> QED
  BY <1>1, <1>2, <1>3

\* Every step keeps the correspondence between a lifecycle's stage and its
\* entries, and what is published is journaled.
LEMMA StagesStep ==
  ASSUME TypeOK, Stages, ResultIsJournaled, [Next]_vars
  PROVE  Stages' /\ ResultIsJournaled'
<1> USE DEF TypeOK, Stages, Statuses, Terminal, ResultIsJournaled
<1>1. ASSUME UNCHANGED <<pc, outcome, completed, cached, result, tokens, inputs>>
      PROVE  Stages' /\ ResultIsJournaled'
  BY <1>1
<1>2. ASSUME NEW c \in Children, Start(c) PROVE Stages' /\ ResultIsJournaled'
  BY <1>2 DEF Start
<1>3. ASSUME NEW c \in Children, CancelChild(c) PROVE Stages' /\ ResultIsJournaled'
  BY <1>1, <1>3 DEF CancelChild, lifecycle, cache
<1>4. ASSUME NEW c \in Children, Fail(c) PROVE Stages' /\ ResultIsJournaled'
  BY <1>4 DEF Fail, cache, handles
<1>5. ASSUME NEW c \in Children, NEW o \in {"completed", "failed", "cancelled", "awaiting"},
             Exit(c, o)
      PROVE  Stages' /\ ResultIsJournaled'
  BY <1>5 DEF Exit, AfterExit, cache, handles
<1>6. ASSUME NEW c \in Children, AwaitApprovalTerminal(c) PROVE Stages' /\ ResultIsJournaled'
  BY <1>6 DEF AwaitApprovalTerminal, ApprovalEnds, cache, handles
<1>7. ASSUME NEW c \in Children, NEW appended \in BOOLEAN, JournalCompletion(c, appended)
      PROVE  Stages' /\ ResultIsJournaled'
  BY <1>7 DEF JournalCompletion, ProcessedOutcome, cache, handles
<1>8. ASSUME NEW c \in Children, RecordTerminalResult(c) PROVE Stages' /\ ResultIsJournaled'
  <2>1. c \in cached
    BY <1>8 DEF RecordTerminalResult
  <2>2. /\ pc[c] = "journaled" /\ pc' = [pc EXCEPT ![c] = "recorded"]
        /\ result' = [result EXCEPT ![c] = outcome[c]]
        /\ UNCHANGED <<outcome, completed, cached, tokens, inputs>>
    BY <1>8, <2>1 DEF RecordTerminalResult, handles
  <2> QED
    BY <2>1, <2>2
<1>9. ASSUME NEW c \in Children, RemoveToken(c) \/ RemoveInput(c)
      PROVE  Stages' /\ ResultIsJournaled'
  BY <1>9 DEF RemoveToken, RemoveInput, cache
<1>10. ASSUME NEW c \in Children, CloseChild(c) PROVE Stages' /\ ResultIsJournaled'
  BY <1>10 DEF CloseChild, MayClose, lifecycle
<1>11. CASE UNCHANGED vars
  BY <1>1, <1>11 DEF vars, lifecycle, cache, handles
<1> HIDE DEF TypeOK, Stages, Statuses, ResultIsJournaled
<1> QED
  BY <1>1, <1>2, <1>3, <1>4, <1>5, <1>6, <1>7, <1>8, <1>9, <1>10, <1>11, CallsKeepStages
     DEF Next, OwnerStep, TaskStep, EpilogueStep

-----------------------------------------------------------------------------
\* One sender is used: its request is answered or lost, the others are as before.
LEMMA AnswerOne ==
  ASSUME TypeOK, NEW q \in Requests, NEW v, Answer({q}, v)
  PROVE  ask' = [ask EXCEPT ![q] = "answered"] \/ ask' = [ask EXCEPT ![q] = "lost"]
<1>1. ask \in [Requests -> {"idle", "waiting", "timing", "answered", "lost"}]
  BY DEF TypeOK
<1> QED
  BY <1>1 DEF Answer

\* A join knows its only child by the request's set of children.
LEMMA SingletonsEqual == ASSUME NEW a, NEW b, {a} = {b} PROVE a = b
<1>1. a \in {b}
  OBVIOUS
<1> QED
  BY <1>1

\* Every step keeps each request registered exactly where it waits.
LEMMA RegistrationsStep ==
  ASSUME TypeOK, Stages, Registrations, [Next]_vars
  PROVE  Registrations'
<1> USE DEF TypeOK, Registrations, Registered, Terminal
<1>1. ASSUME UNCHANGED <<cached, result, joinW, waitW, ask, kids, timers>> PROVE Registrations'
  BY <1>1
<1>2. ASSUME NEW q \in Requests, NEW c \in Children, JoinChild(q, c) PROVE Registrations'
  BY <1>2 DEF JoinChild, Ask, Refuse, Answer, Publish, CloneResult
<1>3. ASSUME NEW q \in Requests, NEW C \in SUBSET Children, NEW poll \in BOOLEAN,
             WaitChildren(q, C, poll)
      PROVE  Registrations'
  <2> USE DEF Ask
  <2>1. ask[q] = "idle" /\ kids' = [kids EXCEPT ![q] = C] /\ UNCHANGED <<cached, result, joinW>>
    BY <1>3 DEF WaitChildren
  <2>2. ASSUME NEW v, Answer({q}, v), UNCHANGED <<waitW, timers>> PROVE Registrations'
    <3>1. CASE ask' = [ask EXCEPT ![q] = "answered"]
      BY <2>1, <2>2, <3>1
    <3>2. CASE ask' = [ask EXCEPT ![q] = "lost"]
      BY <2>1, <2>2, <3>2
    <3> QED
      BY <2>2, <3>1, <3>2, AnswerOne
  <2>3. CASE /\ C \subseteq cached /\ TerminalAmong(C, poll) = {}
             /\ waitW' = [c \in Children |-> IF c \in C THEN waitW[c] \cup {q} ELSE waitW[c]]
             /\ timers' = timers \cup {q}
             /\ ask' = [ask EXCEPT ![q] = "waiting"]
    <3>1. \A c \in Children : Terminal(c)' => joinW'[c] = {} /\ waitW'[c] = {}
      BY <2>1, <2>3 DEF TerminalAmong
    <3>2. Registered(q)'
      BY <2>1, <2>3
    <3>3. ASSUME NEW r \in Requests, r # q PROVE Registered(r)'
      BY <2>1, <2>3, <3>3
    <3> QED
      BY <3>1, <3>2, <3>3
  <2>4. \/ \E v : Answer({q}, v) /\ UNCHANGED <<waitW, timers>>
        \/ /\ C \subseteq cached /\ TerminalAmong(C, poll) = {}
           /\ waitW' = [c \in Children |-> IF c \in C THEN waitW[c] \cup {q} ELSE waitW[c]]
           /\ timers' = timers \cup {q}
           /\ ask' = [ask EXCEPT ![q] = "waiting"]
    <3> HIDE DEF TypeOK, Registrations, Registered, Terminal, Ask
    <3> QED
      BY <1>3 DEF WaitChildren, Refuse, Publish
  <2> QED
    BY <2>2, <2>3, <2>4
<1>4. ASSUME NEW q \in Requests, NEW c \in Children, ChildStatus(q, c) PROVE Registrations'
  BY <1>4 DEF ChildStatus, Ask, Refuse, Answer, Publish
<1>5. ASSUME NEW q \in Requests, ListChildren(q) PROVE Registrations'
  BY <1>5 DEF ListChildren, Ask, Answer, Publish
<1>6. ASSUME NEW q \in Requests, DropReceiver(q) PROVE Registrations'
  BY <1>6 DEF DropReceiver, cache
<1>7. ASSUME NEW q \in Requests, TimerFires(q) PROVE Registrations'
  BY <1>7 DEF TimerFires, Forget, TakesSender
<1>8. ASSUME NEW q \in Requests, TimerAnswers(q) PROVE Registrations'
  BY <1>8 DEF TimerAnswers, Answer, cache
<1>9. ASSUME NEW c \in Children, Start(c) PROVE Registrations'
  BY <1>9 DEF Start, requests
<1>10. ASSUME NEW c \in Children, RecordTerminalResult(c) PROVE Registrations'
  <2>1. c \in cached
    BY <1>10 DEF RecordTerminalResult, Stages
  <2>2. /\ result' = [result EXCEPT ![c] = outcome[c]]
        /\ joinW' = [joinW EXCEPT ![c] = {}]
        /\ waitW' = [k \in Children |-> waitW[k] \ waitW[c]]
        /\ ask' = [q \in Requests |->
                     IF q \notin Woken(c) THEN ask[q]
                     ELSE IF q \in gone THEN "lost" ELSE "answered"]
        /\ UNCHANGED <<cached, kids, timers>>
    BY <1>10, <2>1 DEF RecordTerminalResult, DropAnswered, Publish, Answer
  <2>3. \A q \in Requests : q \in Woken(c) <=> q \in joinW[c] \/ q \in waitW[c]
    BY DEF Woken
  <2>4. \A k \in Children : Terminal(k)' => joinW'[k] = {} /\ waitW'[k] = {}
    BY <2>2
  <2>5. ASSUME NEW q \in Requests, q \in Woken(c) PROVE Registered(q)'
    <3>1. ask[q] = "waiting" /\ ask'[q] \in {"lost", "answered"}
      BY <2>2, <2>3, <2>5
    <3>2. ASSUME NEW k \in Children PROVE q \notin joinW'[k] /\ q \notin waitW'[k]
      <4>1. CASE q \in joinW[c]
        <5>1. Registered(q)
          OBVIOUS
        <5>2. q \notin waitW[k] /\ kids[q] = {c}
          BY <4>1, <5>1
        <5>3. k # c => q \notin joinW[k]
          <6>1. q \in joinW[k] => kids[q] = {k}
            BY <5>1
          <6>2. {k} = {c} => k = c
            BY SingletonsEqual
          <6> QED
            BY <5>2, <6>1, <6>2
        <5>4. joinW'[k] = (IF k = c THEN {} ELSE joinW[k]) /\ waitW'[k] = waitW[k] \ waitW[c]
          BY <2>2
        <5> QED
          BY <5>2, <5>3, <5>4
      <4>2. CASE q \in waitW[c]
        BY <2>2, <4>2
      <4> QED
        BY <2>3, <2>5, <4>1, <4>2
    <3> QED
      BY <3>1, <3>2
  <2>6. ASSUME NEW q \in Requests, q \notin Woken(c) PROVE Registered(q)'
    BY <2>2, <2>3, <2>6
  <2> QED
    BY <2>4, <2>5, <2>6
<1>11. ASSUME NEW c \in Children, CloseChild(c) PROVE Registrations'
  BY <1>11 DEF CloseChild, MayClose, requests
<1>12. CASE UNCHANGED vars
  BY <1>1, <1>12 DEF vars, cache, requests
<1>13. ASSUME NEW c \in Children,
              \/ CancelChild(c) \/ Fail(c) \/ AwaitApprovalTerminal(c)
              \/ \E o \in {"completed", "failed", "cancelled", "awaiting"} : Exit(c, o)
              \/ \E appended \in BOOLEAN : JournalCompletion(c, appended)
              \/ RemoveToken(c) \/ RemoveInput(c)
       PROVE  Registrations'
  BY <1>1, <1>13 DEF CancelChild, Fail, AwaitApprovalTerminal, Exit, JournalCompletion,
                     RemoveToken, RemoveInput, cache, requests
<1> HIDE DEF TypeOK, Registrations, Registered
<1> QED
  BY <1>2, <1>3, <1>4, <1>5, <1>6, <1>7, <1>8, <1>9, <1>10, <1>11, <1>12, <1>13
     DEF Next, OwnerStep, TimerStep, TaskStep, EpilogueStep

-----------------------------------------------------------------------------
\* Sending results of cached children keeps result_delivered equal to "told".
LEMMA PublishKeepsDelivered ==
  ASSUME DeliveredIffTold, NEW C, C \subseteq cached, NEW Q, NEW v, Publish(C, Q, v), cached' = cached
  PROVE  DeliveredIffTold' /\ told' \subseteq told \cup C
BY DEF DeliveredIffTold, Publish, Deliver

\* A call about a child whose result was told finds that result or no child.
LEMMA ToldIsTerminal ==
  ASSUME TypeOK, Stages, Histories, NEW c \in told, c \in cached
  PROVE  Terminal(c)
BY DEF TypeOK, Stages, Histories, Terminal

\* A reply with a child's result is not the reply "running".
LEMMA ChildIsNoStatus == \A c \in Children : c # "running"
BY DistinctAssumption

\* Every call keeps what was told consistent: the new call is answered at once
\* when it is about a told child, and not with "running".
LEMMA CallsKeepHistories ==
  ASSUME TypeOK, Stages, Histories, NeverRunningAgain, NEW q \in Requests, NEW C \in SUBSET Children,
         Ask(q, C), pc' = pc, told' \subseteq told \cup {c \in cached : Terminal(c)},
         \/ /\ C \cap told = {}
            /\ \/ ask' = [ask EXCEPT ![q] = "waiting"] /\ reply' = reply
               \/ \E v : Answer({q}, v)
         \/ \E v : v # "running" /\ Answer({q}, v)
  PROVE  Histories' /\ NeverRunningAgain'
<1>1. q \notin toldAtAsk
  BY DEF Histories, Ask
<1>2. \A c \in told' : pc'[c] \in {"recorded", "untokened", "done"}
  <2>1. \A c \in cached : Terminal(c) => pc[c] \in {"recorded", "untokened", "done"}
    BY DEF TypeOK, Stages, Terminal
  <2> QED
    BY <2>1 DEF Histories
<1>3. \A r \in Requests : r # q => ask'[r] = ask[r] /\ reply'[r] = reply[r]
  BY DEF TypeOK, Answer
<1>4. \A r \in toldAtAsk : r \in Requests /\ ask'[r] \in {"answered", "lost"} /\ reply'[r] # "running"
  BY <1>1, <1>3 DEF TypeOK, Histories, NeverRunningAgain
<1>5. ASSUME q \in toldAtAsk' PROVE ask'[q] \in {"answered", "lost"} /\ reply'[q] # "running"
  <2>1. C \cap told # {}
    BY <1>1, <1>5 DEF Ask
  <2>2. PICK v : v # "running" /\ Answer({q}, v)
    BY <2>1
  <2>3. reply[q] # "running"
    BY DEF Histories, Ask
  <2> QED
    BY <2>2, <2>3 DEF Answer
<1>6. toldAtAsk' \subseteq toldAtAsk \cup {q}
  BY DEF Ask
<1>7. \A r \in Requests : ask'[r] # "answered" => reply'[r] = "none"
  <2>1. reply[q] = "none"
    BY DEF Histories, Ask
  <2>2. ask'[q] # "answered" => reply'[q] = "none"
    BY <2>1 DEF TypeOK, Answer
  <2> QED
    BY <1>3, <2>2 DEF Histories
<1> QED
  BY <1>2, <1>4, <1>5, <1>6, <1>7 DEF Histories, NeverRunningAgain

\* What was told, apart from who holds it.
HistoryInv == Histories /\ DeliveredIffTold /\ NeverRunningAgain

\* Every step keeps what was told consistent with the cache.
LEMMA HistoriesStep ==
  ASSUME TypeOK, Stages, Registrations, HistoryInv, [Next]_vars
  PROVE  HistoryInv'
<1> USE DEF HistoryInv
<1>0. TypeOK /\ Stages /\ Registrations /\ HistoryInv
  OBVIOUS
<1>1. ASSUME UNCHANGED <<pc, cached, delivered, told, toldAtAsk, ask, reply>> PROVE HistoryInv'
  BY <1>0, <1>1 DEF Histories, DeliveredIffTold, NeverRunningAgain
<1>2. ASSUME NEW q \in Requests, NEW c \in Children, JoinChild(q, c) PROVE HistoryInv'
  <2>1. Ask(q, {c}) /\ pc' = pc /\ cached' = cached
    BY <1>2 DEF JoinChild, lifecycle
  <2>2. CASE c \notin cached /\ Refuse(q)
    BY <1>0, <2>1, <2>2, CallsKeepHistories DEF Refuse, DeliveredIffTold
  <2>3. CASE c \in cached /\ Terminal(c) /\ Publish({c}, {q}, c)
    BY <1>0, <2>1, <2>3, PublishKeepsDelivered, CallsKeepHistories, ChildIsNoStatus DEF Publish
  <2>4. CASE /\ c \in cached /\ ~Terminal(c) /\ UNCHANGED <<reply, delivered, told>>
             /\ ask' = [ask EXCEPT ![q] = "waiting"]
    BY <1>0, <2>1, <2>4, ToldIsTerminal, CallsKeepHistories DEF DeliveredIffTold
  <2> QED
    BY <1>2, <2>2, <2>3, <2>4 DEF JoinChild
<1>3. ASSUME NEW q \in Requests, NEW C \in SUBSET Children, NEW poll \in BOOLEAN,
             WaitChildren(q, C, poll)
      PROVE  HistoryInv'
  <2>1. Ask(q, C) /\ pc' = pc /\ cached' = cached
    BY <1>3 DEF WaitChildren, lifecycle
  <2>2. CASE Refuse(q)
    BY <1>0, <2>1, <2>2, CallsKeepHistories DEF Refuse, DeliveredIffTold
  <2>3. CASE C \subseteq cached /\ \E c \in TerminalAmong(C, poll) : Publish({c}, {q}, c)
    <3>1. PICK c \in C : c \in cached /\ Terminal(c) /\ Publish({c}, {q}, c)
      BY <2>3 DEF TerminalAmong
    <3> QED
      BY <1>0, <2>1, <3>1, PublishKeepsDelivered, CallsKeepHistories, ChildIsNoStatus DEF Publish
  <2>4. CASE /\ C \subseteq cached /\ TerminalAmong(C, poll) = {} /\ UNCHANGED <<delivered, told>>
             /\ \/ Answer({q}, "running")
                \/ ask' = [ask EXCEPT ![q] = "waiting"] /\ reply' = reply
    <3>1. C \cap told = {}
      BY <1>0, <2>4, ToldIsTerminal DEF TerminalAmong
    <3> QED
      BY <1>0, <2>1, <2>4, <3>1, CallsKeepHistories DEF DeliveredIffTold
  <2> QED
    BY <1>3, <2>2, <2>3, <2>4 DEF WaitChildren
<1>4. ASSUME NEW q \in Requests, NEW c \in Children, ChildStatus(q, c) PROVE HistoryInv'
  <2>1. Ask(q, {c}) /\ pc' = pc /\ cached' = cached
    BY <1>4 DEF ChildStatus, lifecycle
  <2>2. CASE c \notin cached /\ Refuse(q)
    BY <1>0, <2>1, <2>2, CallsKeepHistories DEF Refuse, DeliveredIffTold
  <2>3. CASE c \in cached /\ Terminal(c) /\ Publish({c}, {q}, c)
    BY <1>0, <2>1, <2>3, PublishKeepsDelivered, CallsKeepHistories, ChildIsNoStatus DEF Publish
  <2>4. CASE c \in cached /\ ~Terminal(c) /\ Answer({q}, "running") /\ UNCHANGED <<delivered, told>>
    BY <1>0, <2>1, <2>4, ToldIsTerminal, CallsKeepHistories DEF DeliveredIffTold
  <2> QED
    BY <1>4, <2>2, <2>3, <2>4 DEF ChildStatus
<1>5. ASSUME NEW q \in Requests, ListChildren(q) PROVE HistoryInv'
  <2> DEFINE ended == {c \in cached : Terminal(c)}
  <2>1. /\ Ask(q, cached) /\ cached \in SUBSET Children /\ pc' = pc /\ cached' = cached
        /\ Publish(ended, {q}, "roster")
    BY <1>0, <1>5 DEF ListChildren, lifecycle, TypeOK
  <2>2. DeliveredIffTold' /\ told' \subseteq told \cup ended
    <3>1. ended \subseteq cached
      OBVIOUS
    <3> HIDE DEF ended
    <3> QED
      BY <1>0, <2>1, <3>1, PublishKeepsDelivered
  <2> QED
    BY <1>0, <2>1, <2>2, CallsKeepHistories DEF Publish
<1>6. ASSUME NEW q \in Requests, DropReceiver(q) PROVE HistoryInv'
  BY <1>1, <1>6 DEF DropReceiver, lifecycle, cache
<1>7. ASSUME NEW q \in Requests, TimerFires(q) PROVE HistoryInv'
  BY <1>0, <1>7 DEF TimerFires, TakesSender, lifecycle, TypeOK, Histories, DeliveredIffTold,
                    NeverRunningAgain
<1>8. ASSUME NEW q \in Requests, TimerAnswers(q) PROVE HistoryInv'
  BY <1>0, <1>8 DEF TimerAnswers, Answer, lifecycle, cache, TypeOK, Histories, DeliveredIffTold,
                    NeverRunningAgain
<1>9. ASSUME NEW c \in Children,
             \/ Start(c) \/ Fail(c) \/ AwaitApprovalTerminal(c)
             \/ \E o \in {"completed", "failed", "cancelled", "awaiting"} : Exit(c, o)
             \/ \E appended \in BOOLEAN : JournalCompletion(c, appended)
      PROVE  HistoryInv'
  <2>1. c \notin told
    BY <1>0, <1>9 DEF Histories, Start, Fail, AwaitApprovalTerminal, ApprovalEnds, Exit, JournalCompletion
  <2>2. /\ \A k \in Children : k # c => pc'[k] = pc[k]
        /\ cached' = cached \/ cached' = cached \cup {c}
        /\ UNCHANGED <<delivered, told, toldAtAsk, ask, reply>>
    BY <1>0, <1>9 DEF TypeOK, Start, Fail, AwaitApprovalTerminal, Exit, JournalCompletion, cache, requests
  <2> QED
    BY <1>0, <2>1, <2>2 DEF TypeOK, Histories, DeliveredIffTold, NeverRunningAgain
<1>10. ASSUME NEW c \in Children, CancelChild(c) PROVE HistoryInv'
  BY <1>1, <1>10 DEF CancelChild, lifecycle, cache, requests
<1>11. ASSUME NEW c \in Children, RecordTerminalResult(c) PROVE HistoryInv'
  <2>1. c \in cached /\ pc' = [pc EXCEPT ![c] = "recorded"]
    BY <1>0, <1>11 DEF RecordTerminalResult, Stages
  <2>2. Publish({c}, Woken(c), c) /\ UNCHANGED <<cached, toldAtAsk>>
    BY <1>11, <2>1 DEF RecordTerminalResult
  <2>3. DeliveredIffTold' /\ told' \subseteq told \cup {c}
    BY <1>0, <2>1, <2>2, PublishKeepsDelivered
  <2>4. \A q \in Woken(c) : q \in Requests /\ ask[q] = "waiting"
    BY <1>0 DEF TypeOK, Woken, Registrations, Registered
  <2>5. Histories'
    <3>1. \A k \in told' : pc'[k] \in {"recorded", "untokened", "done"}
      BY <1>0, <2>1, <2>3 DEF TypeOK, Histories
    <3>2. \A q \in toldAtAsk' : ask'[q] \in {"answered", "lost"}
      BY <1>0, <2>2, <2>4 DEF TypeOK, Histories, Publish, Answer
    <3>3. \A q \in Requests : ask'[q] # "answered" => reply'[q] = "none"
      BY <1>0, <2>2, <2>4 DEF TypeOK, Histories, Publish, Answer
    <3> QED
      BY <3>1, <3>2, <3>3 DEF Histories
  <2>6. NeverRunningAgain'
    BY <1>0, <2>2, <2>4 DEF TypeOK, Histories, Publish, Answer, NeverRunningAgain
  <2> QED
    BY <2>3, <2>5, <2>6
<1>12. ASSUME NEW c \in Children, RemoveToken(c) \/ RemoveInput(c) PROVE HistoryInv'
  BY <1>0, <1>12 DEF RemoveToken, RemoveInput, cache, requests, TypeOK, Histories, DeliveredIffTold,
                     NeverRunningAgain
<1>13. ASSUME NEW c \in Children, CloseChild(c) PROVE HistoryInv'
  BY <1>0, <1>13 DEF CloseChild, lifecycle, requests, Histories, DeliveredIffTold, NeverRunningAgain
<1>14. CASE UNCHANGED vars
  BY <1>1, <1>14 DEF vars, lifecycle, cache, requests
<1> HIDE DEF HistoryInv
<1> QED
  BY <1>2, <1>3, <1>4, <1>5, <1>6, <1>7, <1>8, <1>9, <1>10, <1>11, <1>12, <1>13, <1>14
     DEF Next, OwnerStep, TimerStep, TaskStep, EpilogueStep

\* Using senders that were not used before for a child's result, or for a list,
\* leaves every result told in somebody's hands.
LEMMA PublishReceived ==
  ASSUME TypeOK, Histories, Received, NEW C \in SUBSET Children, NEW v, NEW Q \in SUBSET Requests,
         \A q \in Q : ask[q] # "answered",
         \/ \E c \in Children : C = {c} /\ v = c
         \/ v = "roster" /\ \A q \in Q : C \subseteq kids'[q],
         \A q \in Requests \ Q : kids'[q] = kids[q],
         Publish(C, Q, v)
  PROVE  Received'
<1>1. \A q \in Requests : q \notin Q \ gone => reply'[q] = reply[q]
  BY DEF Publish, Answer
<1>2. \A q \in Q \ gone : reply'[q] = v
  BY DEF Publish, Answer
<1>3. \A q \in Q : reply[q] = "none"
  BY DEF Histories
<1>4. "none" \notin Children /\ "roster" \notin Children
  BY DistinctAssumption
<1>5. ASSUME NEW q \in Requests, NEW c \in Children, reply'[q] = c
      PROVE  c \in told'
  <2>1. CASE q \in Q \ gone
    <3>1. C = {c} /\ told' = told \cup C
      BY <1>2, <1>4, <1>5, <2>1 DEF Publish
    <3> QED
      BY <3>1
  <2>2. CASE q \notin Q \ gone
    BY <1>1, <1>5, <2>2 DEF Received, Publish
  <2> QED
    BY <2>1, <2>2
<1>6. ASSUME NEW c \in told'
      PROVE  \E q \in Requests : reply'[q] = c \/ (reply'[q] = "roster" /\ c \in kids'[q])
  <2>1. CASE c \in told
    <3>1. PICK q \in Requests : reply[q] = c \/ (reply[q] = "roster" /\ c \in kids[q])
      BY <2>1 DEF Received
    <3>2. c \in Children
      BY <2>1 DEF TypeOK
    <3>3. q \notin Q
      BY <1>3, <1>4, <3>1, <3>2
    <3> QED
      BY <1>1, <3>1, <3>3
  <2>2. CASE c \notin told
    <3>1. c \in C /\ ~(Q \subseteq gone)
      BY <1>6, <2>2 DEF Publish
    <3>2. PICK q \in Q : q \notin gone
      BY <3>1
    <3> QED
      BY <1>2, <3>1, <3>2
  <2> QED
    BY <2>1, <2>2
<1> QED
  BY <1>5, <1>6 DEF Received

\* Any other answer, to calls that had none, puts nothing into anybody's hands.
LEMMA AnswerReceived ==
  ASSUME TypeOK, Histories, Received, NEW v \in {"running", "error"}, NEW q \in Requests, ask[q] # "answered",
         \A r \in Requests \ {q} : kids'[r] = kids[r], Answer({q}, v), told' = told
  PROVE  Received'
<1>1. \A r \in Requests : r # q => reply'[r] = reply[r] /\ kids'[r] = kids[r]
  BY DEF Answer
<1>2. reply[q] = "none" /\ reply'[q] \in {"none", "running", "error"}
  BY DEF Histories, Answer
<1>3. Children \cap {"none", "running", "error"} = {}
  BY DistinctAssumption
<1>4. told \subseteq Children
  BY DEF TypeOK
<1> QED
  BY <1>1, <1>2, <1>3, <1>4 DEF Received

\* Every step leaves every result told in somebody's hands.
LEMMA ReceivedStep ==
  ASSUME TypeOK, Registrations, Histories, Received, [Next]_vars
  PROVE  Received'
<1>1. ASSUME UNCHANGED <<told, reply, kids>> PROVE Received'
  BY <1>1 DEF Received
<1>2. ASSUME NEW q \in Requests, NEW C \in SUBSET Children, Ask(q, C), told' = told,
             \/ Refuse(q) \/ Answer({q}, "running") \/ reply' = reply
      PROVE  Received'
  <2>1. ask[q] # "answered" /\ \A r \in Requests \ {q} : kids'[r] = kids[r]
    BY <1>2 DEF Ask, TypeOK
  <2>2. CASE reply' = reply
    <3>1. reply[q] = "none" /\ "none" \notin Children
      BY <2>1, DistinctAssumption DEF Histories
    <3> QED
      BY <1>2, <2>1, <2>2, <3>1 DEF Received, TypeOK
  <2>3. CASE Refuse(q) \/ Answer({q}, "running")
    BY <1>2, <2>1, <2>3, AnswerReceived DEF Refuse
  <2> QED
    BY <1>2, <2>2, <2>3
<1>3. ASSUME NEW q \in Requests, NEW C \in SUBSET Children, NEW c \in Children, Ask(q, C), Publish({c}, {q}, c)
      PROVE  Received'
  <2>1. ask[q] # "answered" /\ \A r \in Requests \ {q} : kids'[r] = kids[r]
    BY <1>3 DEF Ask, TypeOK
  <2> QED
    BY <1>3, <2>1, PublishReceived
<1>4. ASSUME NEW q \in Requests, NEW c \in Children, JoinChild(q, c) \/ ChildStatus(q, c) PROVE Received'
  BY <1>2, <1>3, <1>4 DEF JoinChild, ChildStatus, Refuse
<1>5. ASSUME NEW q \in Requests, NEW C \in SUBSET Children, NEW poll \in BOOLEAN, WaitChildren(q, C, poll)
      PROVE  Received'
  <2>1. CASE \E c \in TerminalAmong(C, poll) : Publish({c}, {q}, c)
    BY <1>3, <1>5, <2>1 DEF WaitChildren, TerminalAmong
  <2> QED
    BY <1>2, <1>5, <2>1 DEF WaitChildren, Refuse
<1>6. ASSUME NEW q \in Requests, ListChildren(q) PROVE Received'
  <2> DEFINE ended == {c \in cached : Terminal(c)}
  <2>1. /\ ask[q] # "answered" /\ (\A r \in Requests \ {q} : kids'[r] = kids[r]) /\ kids'[q] = cached
        /\ Publish(ended, {q}, "roster")
    BY <1>6 DEF ListChildren, Ask, TypeOK
  <2>2. ended \in SUBSET Children /\ ended \subseteq cached
    BY DEF TypeOK
  <2> HIDE DEF ended
  <2> QED
    BY <2>1, <2>2, PublishReceived
<1>7. ASSUME NEW q \in Requests, TimerAnswers(q) PROVE Received'
  BY <1>7, AnswerReceived DEF TimerAnswers
<1>8. ASSUME NEW c \in Children, RecordTerminalResult(c) PROVE Received'
  <2>1. Woken(c) \in SUBSET Requests /\ \A q \in Woken(c) : ask[q] = "waiting"
    BY DEF TypeOK, Woken, Registrations, Registered
  <2>2. CASE c \in cached
    <3>1. Publish({c}, Woken(c), c) /\ kids' = kids
      BY <1>8, <2>2 DEF RecordTerminalResult
    <3> QED
      BY <2>1, <3>1, PublishReceived
  <2>3. CASE c \notin cached
    BY <1>1, <1>8, <2>3 DEF RecordTerminalResult
  <2> QED
    BY <2>2, <2>3
<1>9. ASSUME NEW q \in Requests, DropReceiver(q) \/ TimerFires(q) PROVE Received'
  BY <1>1, <1>9 DEF DropReceiver, TimerFires
<1>10. ASSUME NEW c \in Children,
              \/ Start(c) \/ Fail(c) \/ AwaitApprovalTerminal(c) \/ CancelChild(c) \/ CloseChild(c)
              \/ RemoveToken(c) \/ RemoveInput(c)
              \/ \E o \in {"completed", "failed", "cancelled", "awaiting"} : Exit(c, o)
              \/ \E appended \in BOOLEAN : JournalCompletion(c, appended)
       PROVE  Received'
  BY <1>1, <1>10 DEF Start, Fail, AwaitApprovalTerminal, CancelChild, CloseChild, RemoveToken, RemoveInput, Exit,
                     JournalCompletion, requests
<1>11. CASE UNCHANGED vars
  BY <1>1, <1>11 DEF vars, requests
<1> QED
  BY <1>4, <1>5, <1>6, <1>7, <1>8, <1>9, <1>10, <1>11 DEF Next, OwnerStep, TimerStep, TaskStep, EpilogueStep

-----------------------------------------------------------------------------
\* No lifecycle becomes absent again, and a request expires only while it waits.
LEMMA LaunchedStep ==
  ASSUME TypeOK, Stages, Registrations, Launched, [Next]_vars
  PROVE  Launched'
<1> DEFINE Later == {"running", "awaiting", "resolved", "journaled", "recorded", "untokened", "done"}
<1>1. ASSUME UNCHANGED pc,
             \A q \in Requests : ask'[q] = "timing" => ask[q] = "timing" /\ kids'[q] = kids[q]
      PROVE  Launched'
  BY <1>1 DEF Launched
<1>2. ASSUME NEW c \in Children, NEW s \in Later, pc' = [pc EXCEPT ![c] = s],
             \A q \in Requests : ask'[q] = "timing" => ask[q] = "timing" /\ kids'[q] = kids[q]
      PROVE  Launched'
  BY <1>2 DEF Launched, TypeOK
<1>3. ASSUME NEW q \in Requests, NEW c \in Children, JoinChild(q, c) \/ ChildStatus(q, c)
      PROVE  Launched'
  BY <1>1, <1>3 DEF JoinChild, ChildStatus, Ask, Refuse, Answer, Publish, lifecycle, TypeOK
<1>4. ASSUME NEW q \in Requests, NEW C \in SUBSET Children, NEW poll \in BOOLEAN,
             WaitChildren(q, C, poll)
      PROVE  Launched'
  BY <1>1, <1>4 DEF WaitChildren, Ask, Refuse, Answer, Publish, lifecycle, TypeOK
<1>5. ASSUME NEW q \in Requests, ListChildren(q) \/ DropReceiver(q) \/ TimerAnswers(q)
      PROVE  Launched'
  BY <1>1, <1>5 DEF ListChildren, DropReceiver, TimerAnswers, Ask, Answer, Publish, lifecycle, TypeOK
<1>6. ASSUME NEW q \in Requests, TimerFires(q) PROVE Launched'
  <2>1. ask[q] = "waiting" => \A c \in kids[q] : pc[c] # "absent"
    BY DEF TypeOK, Stages, Registrations, Registered
  <2> QED
    BY <1>6, <2>1 DEF TimerFires, TakesSender, lifecycle, TypeOK, Launched
<1>7. ASSUME NEW c \in Children, CancelChild(c) \/ CloseChild(c) PROVE Launched'
  BY <1>1, <1>7 DEF CancelChild, CloseChild, lifecycle, requests
<1>8. ASSUME NEW c \in Children, Start(c) PROVE Launched'
  BY <1>2, <1>8 DEF Start, requests
<1>9. ASSUME NEW c \in Children, Fail(c) PROVE Launched'
  BY <1>1, <1>2, <1>9 DEF Fail, requests
<1>10. ASSUME NEW c \in Children, NEW o \in {"completed", "failed", "cancelled", "awaiting"}, Exit(c, o)
       PROVE  Launched'
  BY <1>2, <1>10 DEF Exit, AfterExit, requests
<1>11. ASSUME NEW c \in Children, AwaitApprovalTerminal(c) PROVE Launched'
  BY <1>2, <1>11 DEF AwaitApprovalTerminal, requests
<1>12. ASSUME NEW c \in Children, NEW appended \in BOOLEAN, JournalCompletion(c, appended)
       PROVE  Launched'
  BY <1>2, <1>12 DEF JournalCompletion, requests
<1>13. ASSUME NEW c \in Children, RecordTerminalResult(c) PROVE Launched'
  BY <1>2, <1>13 DEF RecordTerminalResult, Publish, Answer
<1>14. ASSUME NEW c \in Children, RemoveToken(c) \/ RemoveInput(c) PROVE Launched'
  BY <1>2, <1>14 DEF RemoveToken, RemoveInput, requests
<1>15. CASE UNCHANGED vars
  BY <1>1, <1>15 DEF vars, lifecycle, requests
<1> QED
  BY <1>3, <1>4, <1>5, <1>6, <1>7, <1>8, <1>9, <1>10, <1>11, <1>12, <1>13, <1>14, <1>15
     DEF Next, OwnerStep, TimerStep, TaskStep, EpilogueStep

-----------------------------------------------------------------------------
\* The inductive invariant holds when AgentSupervisor::new has just run.
LEMMA InitInv == Init => IInv
<1> SUFFICES ASSUME Init PROVE IInv
  OBVIOUS
<1>1. TypeOK
  BY RetryAssumption DEF Init, TypeOK, Statuses
<1>2. Stages /\ Registrations /\ ResultIsJournaled /\ ToldInv /\ Launched
  BY DistinctAssumption DEF Init, Stages, Registrations, Registered, Terminal, ResultIsJournaled, ToldInv, Histories,
         Received, DeliveredIffTold, NeverRunningAgain, Launched
<1> QED
  BY <1>1, <1>2 DEF IInv

\* Every message handler, timeout task and child lifecycle step preserves the
\* inductive invariant.
LEMMA StepInv == IInv /\ [Next]_vars => IInv'
BY TypeStep, StagesStep, RegistrationsStep, HistoriesStep, ReceivedStep, LaunchedStep DEF IInv, ToldInv, HistoryInv

\* The inductive invariant of the cache, its waiters and the lifecycles.
THEOREM Invariant == Spec => []IInv
<1>1. Init => IInv
  BY InitInv
<1>2. IInv /\ [Next]_vars => IInv'
  BY StepInv
<1> QED
  BY <1>1, <1>2, PTL DEF Spec

\* The types hold in every reachable state, for any children and requests.
THEOREM TypeCorrect == Spec => []TypeOK
<1>1. IInv => TypeOK
  BY DEF IInv
<1> QED
  BY <1>1, Invariant, PTL

\* No caller is left behind (child_queries.rs): each waiting request is
\* registered with exactly the children it asked about, all of them running.
THEOREM WaitersCorrect == Spec => []WaitersMatch
<1>1. IInv => WaitersMatch
  <2> SUFFICES ASSUME IInv PROVE WaitersMatch
    OBVIOUS
  <2>1. TypeOK /\ Registrations
    BY DEF IInv
  <2>2. ASSUME NEW q \in Requests
        PROVE  {c \in Children : q \in joinW[c] \cup waitW[c]}
                 = IF ask[q] = "waiting" THEN kids[q] ELSE {}
    <3>1. kids[q] \subseteq Children
      BY <2>1 DEF TypeOK
    <3>2. \A c \in Children : q \in joinW[c] \cup waitW[c] <=> ask[q] = "waiting" /\ c \in kids[q]
      BY <2>1 DEF Registrations, Registered
    <3> QED
      BY <3>1, <3>2
  <2>3. ASSUME NEW c \in Children, joinW[c] \cup waitW[c] # {} PROVE c \in cached /\ ~Terminal(c)
    <3>1. PICK q : q \in joinW[c] \cup waitW[c]
      BY <2>3
    <3>2. q \in Requests
      BY <2>1, <3>1 DEF TypeOK
    <3> QED
      BY <2>1, <3>1, <3>2 DEF Registrations, Registered
  <2> QED
    BY <2>2, <2>3 DEF WaitersMatch
<1> QED
  BY <1>1, Invariant, PTL

\* Journal before return (spawn.rs, actor.rs): no result is published whose
\* SubAgentCompleted entry is missing or says otherwise.
THEOREM JournaledCorrect == Spec => []ResultIsJournaled
<1>1. IInv => ResultIsJournaled
  BY DEF IInv
<1> QED
  BY <1>1, Invariant, PTL

\* A result marked delivered is in some caller's hands, and one that is in a
\* caller's hands is marked, for any number of callers that drop their
\* receivers at any time (record_child_terminal_result, JoinChild, WaitChildren).
THEOREM DeliveredCorrect == Spec => []DeliveredMeansReceived
<1>1. IInv => DeliveredMeansReceived
  BY DEF IInv, TypeOK, ToldInv, Received, DeliveredIffTold, DeliveredMeansReceived
<1> QED
  BY <1>1, Invariant, PTL

\* No call made after a result was returned reports that child as running.
THEOREM ReadsAreMonotonic == Spec => []NeverRunningAgain
<1>1. IInv => NeverRunningAgain
  BY DEF IInv, ToldInv
<1> QED
  BY <1>1, Invariant, PTL

\* The cancellation and steering handles live exactly as long as the lifecycle.
THEOREM HandlesCorrect == Spec => []HandlesTrackLife
<1>1. IInv => HandlesTrackLife
  BY DEF IInv, TypeOK, Stages, HandlesTrackLife, Terminal
<1> QED
  BY <1>1, Invariant, PTL

\* A published result never changes, and a closed child never comes back.
THEOREM ResultsAreFinal == Spec => ResultIsFinal
<1> DEFINE Keeps(c) ==
      /\ Terminal(c) => result'[c] = result[c] \/ c \notin cached'
      /\ pc[c] # "absent" /\ c \notin cached => c \notin cached'
<1>1. ASSUME IInv, [Next]_vars PROVE \A c \in Children : Keeps(c)
  <2> USE DEF Terminal
  <2>0. TypeOK /\ Stages
    BY <1>1 DEF IInv
  <2>1. ASSUME UNCHANGED <<cached, result>> PROVE \A c \in Children : Keeps(c)
    BY <2>1
  <2>2. ASSUME NEW k \in Children, Start(k) PROVE \A c \in Children : Keeps(c)
    BY <2>2 DEF Start
  <2>3. ASSUME NEW k \in Children, RecordTerminalResult(k) PROVE \A c \in Children : Keeps(c)
    BY <2>0, <2>3 DEF RecordTerminalResult, TypeOK, Stages
  <2>4. ASSUME NEW k \in Children, CloseChild(k) PROVE \A c \in Children : Keeps(c)
    BY <2>0, <2>4 DEF CloseChild, TypeOK
  <2>5. ASSUME NEW k \in Children,
               \/ CancelChild(k) \/ Fail(k) \/ AwaitApprovalTerminal(k)
               \/ \E o \in {"completed", "failed", "cancelled", "awaiting"} : Exit(k, o)
               \/ \E appended \in BOOLEAN : JournalCompletion(k, appended)
               \/ RemoveToken(k) \/ RemoveInput(k)
        PROVE  \A c \in Children : Keeps(c)
    BY <2>1, <2>5 DEF CancelChild, Fail, AwaitApprovalTerminal, Exit, JournalCompletion,
                      RemoveToken, RemoveInput, cache
  <2>6. CASE UNCHANGED vars
    BY <2>1, <2>6 DEF vars, cache
  <2> QED
    BY <1>1, <2>0, <2>1, <2>2, <2>3, <2>4, <2>5, <2>6, CallsKeepStages
       DEF Next, OwnerStep, TaskStep, EpilogueStep
<1> QED
  BY <1>1, Invariant, PTL DEF Spec, ResultIsFinal

-----------------------------------------------------------------------------
(* The cache implements ChildBoard.                                        *)

\* A step that changes no entry and no call is a stutter of the board.
LEMMA BoardStutter ==
  ASSUME TypeOK, Stages, UNCHANGED <<cached, result, kids, ask, reply>>,
         \A c \in Children : pc[c] = "absent" <=> pc'[c] = "absent"
  PROVE  UNCHANGED Board!vars
<1>1. [c \in Children |-> Entry(c)]' = [c \in Children |-> Entry(c)]
  BY DEF Entry, Terminal
<1>2. [q \in Requests |-> CallState(q)]' = [q \in Requests |-> CallState(q)]
  BY DEF CallState
<1> QED
  BY <1>1, <1>2 DEF Board!vars

\* A new call that is answered at once, or stays open, is an Ask of the board.
LEMMA BoardAsk ==
  ASSUME IInv, NEW q \in Requests, NEW C \in SUBSET Children, Ask(q, C),
         UNCHANGED <<pc, cached, result>>,
         \/ ask' = [ask EXCEPT ![q] = "waiting"] /\ UNCHANGED reply
         \/ \E v \in Children \cup {"roster", "error", "running"} :
              Answer({q}, v) /\ Board!True(C, v)
  PROVE  Board!Next
<1> DEFINE v == CallState(q)'
<1>1. TypeOK
  BY DEF IInv
<1>2. [c \in Children |-> Entry(c)]' = [c \in Children |-> Entry(c)]
  BY DEF Entry, Terminal
<1>3. v = "open" \/ (v \in Board!Values /\ Board!True(C, v))
  <2>1. CASE ask' = [ask EXCEPT ![q] = "waiting"]
    BY <1>1, <2>1 DEF TypeOK, CallState
  <2>2. ASSUME NEW w \in Children \cup {"roster", "error", "running"},
               Answer({q}, w), Board!True(C, w)
        PROVE  v \in Board!Values /\ Board!True(C, v)
    <3>1. v = "lost" \/ v = w
      BY <2>2 DEF CallState, Answer
    <3>2. CASE v = "lost"
      BY <3>2 DEF Board!Values, Board!True
    <3>3. CASE v = w
      <4> HIDE DEF v
      <4> QED
        BY <2>2, <3>3 DEF Board!Values
    <3> QED
      BY <3>1, <3>2, <3>3
  <2> QED
    BY <2>1, <2>2
<1>4. [r \in Requests |-> CallState(r)]' = [[r \in Requests |-> CallState(r)] EXCEPT ![q] = v]
  BY <1>1 DEF TypeOK, CallState, Answer
<1>5. CallState(q) = "idle" /\ kids' = [kids EXCEPT ![q] = C]
  BY DEF Ask, CallState
<1> HIDE DEF v
<1>6. Board!Ask(q, C, v)
  BY <1>2, <1>3, <1>4, <1>5 DEF Board!Ask
<1>7. v \in Board!Values
  BY <1>3 DEF Board!Values
<1> QED
  BY <1>6, <1>7 DEF Board!Next

\* Recording a result finishes the child on the board: it goes to every open
\* call about the child, because those are the registered ones.
LEMMA BoardFinish ==
  ASSUME IInv, NEW c \in Children, RecordTerminalResult(c)
  PROVE  Board!Next
<1> DEFINE s == outcome[c]
<1>0. TypeOK /\ Stages /\ Registrations
  BY DEF IInv
<1>1. c \in cached /\ pc[c] = "journaled" /\ s \in Statuses /\ result[c] = "none"
  BY <1>0 DEF RecordTerminalResult, Stages
<1>2. /\ pc' = [pc EXCEPT ![c] = "recorded"] /\ result' = [result EXCEPT ![c] = s]
      /\ UNCHANGED <<cached, kids>> /\ Answer(Woken(c), c)
  BY <1>1 DEF RecordTerminalResult, Publish
<1>3. \A q \in Requests : CallState(q) = "open" /\ c \in kids[q] <=> q \in Woken(c)
  <2>1. ASSUME NEW q \in Requests PROVE CallState(q) = "open" <=> ask[q] = "waiting"
    BY <1>0, DistinctAssumption DEF TypeOK, CallState
  <2> QED
    BY <1>0, <2>1 DEF Registrations, Registered, Woken
<1>4. Entry(c) = "running"
  BY <1>1 DEF Entry, Terminal
<1>5. [k \in Children |-> Entry(k)]' = [[k \in Children |-> Entry(k)] EXCEPT ![c] = s]
  BY <1>0, <1>1, <1>2 DEF TypeOK, Entry, Terminal, Statuses
<1> DEFINE answer == [q \in Requests |-> IF q \in gone THEN "lost" ELSE c]
<1>6. answer \in [Requests -> {c, "lost"}]
  OBVIOUS
<1>7. [q \in Requests |-> CallState(q)]' =
        [q \in Requests |-> IF CallState(q) = "open" /\ c \in kids[q] THEN answer[q] ELSE CallState(q)]
  <2> SUFFICES ASSUME NEW q \in Requests
               PROVE  CallState(q)' = IF q \in Woken(c) THEN answer[q] ELSE CallState(q)
    BY <1>3
  <2> QED
    BY <1>2 DEF Answer, CallState
<1> HIDE DEF answer, s
<1>8. Board!Finish(c, s)
  BY <1>2, <1>4, <1>5, <1>6, <1>7 DEF Board!Finish
<1>9. s \in Board!Final
  BY <1>1 DEF Board!Final, Statuses
<1> QED
  BY <1>8, <1>9 DEF Board!Next

\* How an entry of the board reflects the cache.
LEMMA EntryOf ==
  ASSUME IInv, NEW c \in Children
  PROVE  /\ c \notin cached => Entry(c) \in {"absent", "closed"}
         /\ c \in cached => Entry(c) # "absent"
         /\ c \in cached /\ Terminal(c) => Entry(c) \in Board!Final
BY DEF IInv, TypeOK, Stages, Statuses, Entry, Terminal, Board!Final

\* What each kind of reply says is true on the board.
LEMMA RepliesTrue ==
  ASSUME IInv, NEW C \in SUBSET Children
  PROVE  /\ C = {} \/ ~(C \subseteq cached) => Board!True(C, "error")
         /\ \A c \in C : c \in cached /\ Terminal(c) => Board!True(C, c)
         /\ C \subseteq cached => Board!True(C, "running")
         /\ Board!True(C, "roster")
BY EntryOf DEF Board!True

\* Every step of the cache is a step of the board or changes nothing on it.
LEMMA BoardStep == IInv /\ [Next]_vars => [Board!Next]_(Board!vars)
<1> SUFFICES ASSUME IInv, [Next]_vars PROVE Board!Next \/ UNCHANGED Board!vars
  OBVIOUS
<1>0. TypeOK /\ Stages /\ Registrations /\ Launched
  BY DEF IInv
<1>1. ASSUME NEW q \in Requests, NEW c \in Children, JoinChild(q, c) \/ ChildStatus(q, c)
      PROVE  Board!Next
  <2>1. Ask(q, {c}) /\ UNCHANGED <<pc, cached, result>>
    BY <1>1 DEF JoinChild, ChildStatus, CloneResult, lifecycle
  <2>2. \/ ask' = [ask EXCEPT ![q] = "waiting"] /\ UNCHANGED reply
        \/ c \notin cached /\ Answer({q}, "error")
        \/ c \in cached /\ Terminal(c) /\ Answer({q}, c)
        \/ c \in cached /\ Answer({q}, "running")
    BY <1>1 DEF JoinChild, ChildStatus, Refuse, Publish
  <2>3. /\ c \notin cached => Board!True({c}, "error")
        /\ c \in cached /\ Terminal(c) => Board!True({c}, c)
        /\ c \in cached => Board!True({c}, "running")
    BY RepliesTrue
  <2> QED
    BY <2>1, <2>2, <2>3, BoardAsk
<1>2. ASSUME NEW q \in Requests, NEW C \in SUBSET Children, NEW poll \in BOOLEAN,
             WaitChildren(q, C, poll)
      PROVE  Board!Next
  <2>1. Ask(q, C) /\ UNCHANGED <<pc, cached, result>>
    BY <1>2 DEF WaitChildren, lifecycle
  <2>2. \/ ask' = [ask EXCEPT ![q] = "waiting"] /\ UNCHANGED reply
        \/ (C = {} \/ ~(C \subseteq cached)) /\ Answer({q}, "error")
        \/ \E c \in C : c \in cached /\ Terminal(c) /\ Answer({q}, c)
        \/ C \subseteq cached /\ Answer({q}, "running")
    BY <1>2 DEF WaitChildren, TerminalAmong, Refuse, Publish
  <2> QED
    BY <2>1, <2>2, RepliesTrue, BoardAsk
<1>3. ASSUME NEW q \in Requests, ListChildren(q) PROVE Board!Next
  <2>1. /\ cached \in SUBSET Children
        /\ Ask(q, cached) /\ UNCHANGED <<pc, cached, result>> /\ Answer({q}, "roster")
    BY <1>0, <1>3 DEF TypeOK, ListChildren, lifecycle, Publish
  <2> QED
    BY <2>1, RepliesTrue, BoardAsk
<1>4. ASSUME NEW q \in Requests, DropReceiver(q) PROVE UNCHANGED Board!vars
  BY <1>0, <1>4, BoardStutter DEF DropReceiver, lifecycle, cache
<1> DEFINE calls == [q \in Requests |-> CallState(q)]
           entries == [c \in Children |-> Entry(c)]
<1>5. ASSUME NEW q \in Requests, TimerFires(q) PROVE Board!Next \/ UNCHANGED Board!vars
  <2>1. UNCHANGED <<pc, cached, result, kids, reply>>
    BY <1>5 DEF TimerFires, lifecycle
  <2>2. CASE ask' = ask
    BY <1>0, <2>1, <2>2, BoardStutter
  <2>3. CASE ask[q] = "waiting" /\ ask' = [ask EXCEPT ![q] = "timing"]
    <3>1. UNCHANGED entries
      BY <2>1 DEF Entry, Terminal
    <3>2. calls' = [calls EXCEPT ![q] = "expired"]
      BY <1>0, <2>1, <2>3 DEF TypeOK, CallState
    <3>3. calls[q] = "open"
      BY <2>3 DEF CallState
    <3>4. Board!Expire(q)
      BY <2>1, <3>1, <3>2, <3>3 DEF Board!Expire
    <3> QED
      BY <3>4 DEF Board!Next, Board!Values
  <2> QED
    BY <1>5, <2>2, <2>3 DEF TimerFires, TakesSender
<1>6. ASSUME NEW q \in Requests, TimerAnswers(q) PROVE Board!Next
  <2>1. /\ UNCHANGED <<pc, cached, result, kids>> /\ ask[q] = "timing"
        /\ Answer({q}, "running")
    BY <1>6 DEF TimerAnswers, lifecycle, cache
  <2> DEFINE v == CallState(q)'
  <2>2. UNCHANGED entries
    BY <2>1 DEF Entry, Terminal
  <2>3. v \in {"running", "lost"}
    BY <2>1 DEF CallState, Answer
  <2>4. calls' = [calls EXCEPT ![q] = v] /\ calls[q] = "expired"
    BY <1>0, <2>1 DEF TypeOK, CallState, Answer
  <2>5. kids[q] \subseteq Children /\ \A c \in kids[q] : entries[c] # "absent"
    BY <1>0, <2>1 DEF TypeOK, Launched, Stages, Statuses, Entry, Terminal
  <2> HIDE DEF v
  <2>6. Board!Reply(q, v)
    BY <2>1, <2>2, <2>3, <2>4, <2>5 DEF Board!Reply, Board!True
  <2> QED
    BY <2>3, <2>6 DEF Board!Next, Board!Values
<1>7. ASSUME NEW c \in Children, Start(c) PROVE Board!Next
  <2>1. entries[c] = "absent"
    BY <1>7 DEF Start, Entry
  <2>2. entries' = [entries EXCEPT ![c] = "running"]
    BY <1>0, <1>7 DEF TypeOK, Stages, Start, Entry, Terminal
  <2>3. UNCHANGED <<kids, calls>>
    BY <1>7 DEF Start, requests, CallState
  <2>4. Board!Launch(c)
    BY <2>1, <2>2, <2>3 DEF Board!Launch
  <2> QED
    BY <2>4 DEF Board!Next
<1>8. ASSUME NEW c \in Children, CloseChild(c) PROVE Board!Next
  <2>1. c \in cached /\ Terminal(c) /\ entries[c] \in Board!Final
    BY <1>8, EntryOf DEF CloseChild, MayClose
  <2>2. entries' = [entries EXCEPT ![c] = "closed"]
    BY <1>0, <1>8, <2>1 DEF TypeOK, Stages, CloseChild, lifecycle, Entry, Terminal
  <2>3. UNCHANGED <<kids, calls>>
    BY <1>8 DEF CloseChild, requests, CallState
  <2>4. Board!Close(c)
    BY <2>1, <2>2, <2>3 DEF Board!Close
  <2> QED
    BY <2>4 DEF Board!Next
<1>9. ASSUME NEW c \in Children,
             \/ CancelChild(c) \/ Fail(c) \/ AwaitApprovalTerminal(c)
             \/ \E o \in {"completed", "failed", "cancelled", "awaiting"} : Exit(c, o)
             \/ \E appended \in BOOLEAN : JournalCompletion(c, appended)
             \/ RemoveToken(c) \/ RemoveInput(c)
      PROVE  UNCHANGED Board!vars
  <2>1. UNCHANGED <<cached, result, kids, ask, reply>>
    BY <1>9 DEF CancelChild, Fail, AwaitApprovalTerminal, Exit, JournalCompletion, RemoveToken,
                RemoveInput, cache, requests
  <2>2. \A k \in Children : pc[k] = "absent" <=> pc'[k] = "absent"
    BY <1>0, <1>9 DEF TypeOK, CancelChild, Fail, AwaitApprovalTerminal, ApprovalEnds, Exit, AfterExit,
                      JournalCompletion, RemoveToken, RemoveInput, lifecycle
  <2> QED
    BY <1>0, <2>1, <2>2, BoardStutter
<1>10. ASSUME NEW c \in Children, RecordTerminalResult(c) PROVE Board!Next
  BY <1>10, BoardFinish
<1>11. CASE UNCHANGED vars
  BY <1>0, <1>11, BoardStutter DEF vars, lifecycle, cache, requests
<1> QED
  BY <1>1, <1>2, <1>3, <1>4, <1>5, <1>6, <1>7, <1>8, <1>9, <1>10, <1>11
     DEF Next, OwnerStep, TimerStep, TaskStep, EpilogueStep

\* The empty supervisor maps to the empty board.
LEMMA BoardInit == Init => Board!Init
BY DEF Init, Board!Init, Entry, CallState

\* The result cache with its waiters, timers and lifecycles (child_queries.rs,
\* actor.rs) implements the board, for any children and any callers.
THEOREM Refinement == Spec => ImplementsBoard
<1>1. Init => Board!Init
  BY BoardInit
<1>2. IInv /\ [Next]_vars => [Board!Next]_(Board!vars)
  BY BoardStep
<1> QED
  BY <1>1, <1>2, Invariant, PTL DEF Spec, ImplementsBoard, Board!Spec

-----------------------------------------------------------------------------
(* The message loop the handlers run in (ActorLoop), for every set of        *)
(* senders, children and messages, every channel capacity and either kind of *)
(* task factory: its parameters and its state are told apart from those of   *)
(* the cache.                                                                *)

CONSTANTS Clients, Tasks, Messages, From, Priority, Spawning, HoldsSender, FactorySender, Capacity
VARIABLES loopPc, channel, heap, clients, task, fresh

Loop == INSTANCE ActorLoop WITH pc <- loopPc

\* A sender that may send keeps the channel open.
LEMMA LoopSendersKeepOpen ==
    ASSUME NEW s, Loop!MaySend(s), HoldsSender \subseteq Tasks
    PROVE  Loop!Open
    BY DEF Loop!MaySend, Loop!Open

\* Once every sender is gone and no child is running, ending children, dropped
\* senders and joins never bring one back.
LEMMA LoopStaysClosed ==
    ASSUME Loop!LoopParameters, Loop!TypeOK, ~Loop!Open, clients' \subseteq clients,
           \A t \in Tasks : task'[t] = "running" => task[t] = "running"
    PROVE  ~Loop!Open'
    BY DEF Loop!LoopParameters, Loop!Open

\* TypeOK is preserved by every step.
LEMMA LoopTypeStep ==
    ASSUME Loop!LoopParameters, Loop!TypeOK, [Loop!Next]_Loop!vars
    PROVE  Loop!TypeOK'
    <1> USE DEF Loop!LoopParameters, Loop!TypeOK
    <1>1. ASSUME NEW m \in Messages, Loop!Send(m) PROVE Loop!TypeOK'
        BY <1>1 DEF Loop!Send
    <1>2. ASSUME NEW c \in Clients, Loop!DropClient(c) PROVE Loop!TypeOK'
        BY <1>2 DEF Loop!DropClient
    <1>3. ASSUME NEW t \in Tasks, Loop!TaskEnds(t) \/ Loop!Reap(t) \/ Loop!Drain(t) PROVE Loop!TypeOK'
        BY <1>3 DEF Loop!TaskEnds, Loop!Reap, Loop!Drain
    <1>4. CASE Loop!Receive
        BY <1>4 DEF Loop!Receive, Loop!TakeAll
    <1>5. ASSUME NEW m \in Messages, Loop!Dispatch(m) PROVE Loop!TypeOK'
        <2>1. task' \in [Tasks -> {"none", "running", "ended", "joined"}]
            BY <1>5 DEF Loop!Dispatch
        <2> QED BY <1>5, <2>1 DEF Loop!Dispatch, Loop!Pop, Loop!AfterDispatch
    <1>6. CASE Loop!Reaped \/ Loop!Closed
        BY <1>6 DEF Loop!Reaped, Loop!Closed, Loop!AfterReap
    <1>7. CASE UNCHANGED Loop!vars
        BY <1>7 DEF Loop!vars
    <1> HIDE DEF Loop!TypeOK
    <1> QED BY <1>1, <1>2, <1>3, <1>4, <1>5, <1>6, <1>7 DEF Loop!Next, Loop!LoopStep

\* Every step preserves Ending: only a dispatch starts a child, and the loop
\* dispatches nothing once it drains or has found its last task joined.
LEMMA LoopEndingStep ==
    ASSUME Loop!LoopParameters, Loop!TypeOK, Loop!Ending, [Loop!Next]_Loop!vars
    PROVE  Loop!Ending'
    <1>0. HoldsSender \subseteq Tasks
        BY DEF Loop!LoopParameters
    <1>1. ASSUME NEW m \in Messages, Loop!Send(m) PROVE Loop!Ending'
        <2>1. Loop!Open
            BY <1>0, <1>1, LoopSendersKeepOpen DEF Loop!Send
        <2>2. UNCHANGED <<loopPc, Loop!JoinSet>> /\ loopPc # "drain" /\ loopPc # "exited"
            BY <1>1, <2>1 DEF Loop!Send, Loop!Ending, Loop!JoinSet
        <2> QED BY <2>2 DEF Loop!Ending
    <1>2. ASSUME NEW c \in Clients, Loop!DropClient(c) PROVE Loop!Ending'
        <2>1. UNCHANGED <<loopPc, channel, Loop!JoinSet, task>> /\ clients' \subseteq clients
            BY <1>2 DEF Loop!DropClient, Loop!JoinSet
        <2> QED BY <2>1, LoopStaysClosed DEF Loop!Ending
    <1>3. ASSUME NEW t \in Tasks, Loop!TaskEnds(t) PROVE Loop!Ending'
        <2>1. UNCHANGED <<loopPc, channel, Loop!JoinSet, clients>>
            BY <1>3 DEF Loop!TaskEnds, Loop!JoinSet, Loop!TypeOK
        <2>2. \A k \in Tasks : task'[k] = "running" => task[k] = "running"
            BY <1>3 DEF Loop!TaskEnds, Loop!TypeOK
        <2> QED BY <2>1, <2>2, LoopStaysClosed DEF Loop!Ending
    <1>4. ASSUME NEW t \in Tasks, Loop!Reap(t) \/ Loop!Drain(t) PROVE Loop!Ending'
        <2>1. Loop!JoinSet' = Loop!JoinSet \ {t} /\ UNCHANGED <<channel, clients>>
            BY <1>4 DEF Loop!Reap, Loop!Drain, Loop!JoinSet, Loop!TypeOK
        <2>2. \A k \in Tasks : task'[k] = "running" => task[k] = "running"
            BY <1>4 DEF Loop!Reap, Loop!Drain, Loop!TypeOK
        <2>3. \/ loopPc = "select" /\ loopPc' = IF Loop!JoinSet = {t} THEN "reaped" ELSE loopPc
              \/ loopPc = "drain" /\ loopPc' = IF Loop!JoinSet = {t} THEN "exited" ELSE loopPc
            BY <1>4 DEF Loop!Reap, Loop!Drain
        <2> QED BY <2>1, <2>2, <2>3, LoopStaysClosed DEF Loop!Ending
    <1>5. CASE Loop!Receive \/ \E m \in Messages : Loop!Dispatch(m)
        <2>1. loopPc' \in {"dispatch", "select"}
            BY <1>5 DEF Loop!Receive, Loop!Dispatch, Loop!AfterDispatch
        <2> QED BY <2>1 DEF Loop!Ending
    <1>6. CASE Loop!Reaped \/ Loop!Closed
        <2>1. UNCHANGED <<channel, Loop!Open, Loop!JoinSet>>
            BY <1>6 DEF Loop!Reaped, Loop!Closed, Loop!Open, Loop!JoinSet
        <2>2. \/ loopPc' = "select"
              \/ loopPc' = "exited" /\ ~Loop!Open /\ channel = {} /\ Loop!JoinSet = {}
              \/ loopPc' = "drain" /\ ~Loop!Open /\ channel = {}
            BY <1>6 DEF Loop!Reaped, Loop!Closed, Loop!AfterReap, Loop!Ending
        <2> QED BY <2>1, <2>2 DEF Loop!Ending
    <1>7. CASE UNCHANGED Loop!vars
        BY <1>7 DEF Loop!vars, Loop!Ending, Loop!Open, Loop!JoinSet
    <1> QED BY <1>1, <1>2, <1>3, <1>4, <1>5, <1>6, <1>7 DEF Loop!Next, Loop!LoopStep

\* Every step preserves the inductive invariant.
LEMMA LoopStepInv ==
    ASSUME Loop!LoopParameters, Loop!IInv, [Loop!Next]_Loop!vars
    PROVE  Loop!IInv'
    <1>1. Loop!TypeOK' /\ Loop!Ending'
        BY LoopTypeStep, LoopEndingStep DEF Loop!IInv
    <1>2. (loopPc = "dispatch" => channel \subseteq fresh)'
        <2> USE DEF Loop!IInv
        <2>1. CASE Loop!Receive
            BY <2>1 DEF Loop!Receive, Loop!TakeAll
        <2>2. CASE \E m \in Messages : Loop!Send(m)
            BY <2>2 DEF Loop!Send
        <2>3. CASE \E m \in Messages : Loop!Dispatch(m)
            BY <2>3 DEF Loop!Dispatch
        <2>4. CASE Loop!Reaped \/ Loop!Closed \/ \E t \in Tasks : Loop!Reap(t) \/ Loop!Drain(t)
            BY <2>4 DEF Loop!Reaped, Loop!Closed, Loop!Reap, Loop!Drain, Loop!AfterReap
        <2>5. CASE (\E c \in Clients : Loop!DropClient(c)) \/ \E t \in Tasks : Loop!TaskEnds(t)
            BY <2>5 DEF Loop!DropClient, Loop!TaskEnds
        <2>6. CASE UNCHANGED Loop!vars
            BY <2>6 DEF Loop!vars
        <2> QED BY <2>1, <2>2, <2>3, <2>4, <2>5, <2>6 DEF Loop!Next, Loop!LoopStep
    <1> QED BY <1>1, <1>2 DEF Loop!IInv

\* The inductive invariant holds in every reachable state.
THEOREM LoopInvariant ==
    ASSUME Loop!LoopParameters
    PROVE  Loop!Spec => []Loop!IInv
    <1>1. Loop!Init => Loop!IInv
        BY DEF Loop!Init, Loop!IInv, Loop!TypeOK, Loop!Ending
    <1>2. Loop!IInv /\ [Loop!Next]_Loop!vars => Loop!IInv'
        BY LoopStepInv
    <1> QED BY <1>1, <1>2, PTL DEF Loop!Spec

\* Every reachable state is well typed; in particular the heap is empty between
\* two batches.
THEOREM LoopTypeCorrect ==
    ASSUME Loop!LoopParameters
    PROVE  Loop!Spec => []Loop!TypeOK
    <1>1. Loop!IInv => Loop!TypeOK
        BY DEF Loop!IInv
    <1> QED BY <1>1, LoopInvariant, PTL

\* The loop never ends before its senders, its messages and its children.
THEOREM ExitsLastCorrect ==
    ASSUME Loop!LoopParameters
    PROVE  Loop!Spec => []Loop!ExitsLast
    <1>1. Loop!IInv => Loop!ExitsLast
        BY DEF Loop!IInv, Loop!TypeOK, Loop!Ending, Loop!ExitsLast
    <1> QED BY <1>1, LoopInvariant, PTL

\* A message that leaves the heap has the highest priority of its batch.
LoopInOrder ==
    \A m \in Messages :
        m \in heap \cup channel /\ m \notin heap' \cup channel' =>
            \A n \in (heap \cup channel) \ fresh : Priority[n] <= Priority[m]

\* Messages leave only by Dispatch, which pops the highest priority.
LEMMA LoopStepInOrder == ASSUME Loop!IInv, [Loop!Next]_Loop!vars PROVE LoopInOrder
    <1>1. ASSUME NEW m \in Messages, Loop!Dispatch(m) PROVE LoopInOrder
        <2>1. /\ heap' = heap \ {m} /\ channel' = channel /\ channel \subseteq fresh
              /\ \A n \in heap : Priority[n] <= Priority[m]
            BY <1>1 DEF Loop!IInv, Loop!Dispatch, Loop!Pop
        <2> QED BY <2>1 DEF LoopInOrder
    <1>2. CASE ~\E m \in Messages : Loop!Dispatch(m)
        <2> USE DEF LoopInOrder
        <2>1. CASE Loop!Receive
            <3>1. heap = {} /\ heap' = channel
                BY <2>1 DEF Loop!Receive, Loop!TakeAll, Loop!IInv, Loop!TypeOK
            <3> QED BY <3>1
        <2>2. CASE \E m \in Messages : Loop!Send(m)
            BY <2>2 DEF Loop!Send
        <2>3. CASE UNCHANGED <<heap, channel>>
            BY <2>3
        <2>4. Loop!Receive \/ (\E m \in Messages : Loop!Send(m)) \/ UNCHANGED <<heap, channel>>
            <3>1. ASSUME NEW t \in Tasks, Loop!TaskEnds(t) \/ Loop!Reap(t) \/ Loop!Drain(t)
                  PROVE  UNCHANGED <<heap, channel>>
                BY <3>1 DEF Loop!TaskEnds, Loop!Reap, Loop!Drain
            <3>2. ASSUME NEW c \in Clients, Loop!DropClient(c) PROVE UNCHANGED <<heap, channel>>
                BY <3>2 DEF Loop!DropClient
            <3>3. CASE Loop!Reaped \/ Loop!Closed \/ UNCHANGED Loop!vars
                BY <3>3 DEF Loop!Reaped, Loop!Closed, Loop!vars
            <3> QED BY <1>2, <3>1, <3>2, <3>3 DEF Loop!Next, Loop!LoopStep
        <2> QED BY <2>1, <2>2, <2>3, <2>4
    <1> QED BY <1>1, <1>2

\* Signals go before supervision, commands and work within every batch.
THEOREM PriorityCorrect ==
    ASSUME Loop!LoopParameters
    PROVE  Loop!Spec => Loop!PriorityOrder
    <1>1. Loop!IInv /\ [Loop!Next]_Loop!vars => [LoopInOrder]_Loop!vars
        BY LoopStepInOrder
    <1> QED BY <1>1, LoopInvariant, PTL DEF Loop!Spec, Loop!PriorityOrder, LoopInOrder
=============================================================================
