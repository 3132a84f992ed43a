------------------------------ MODULE Scheduler ------------------------------
(* The cron scheduler of the API server (scheduler.rs): missed runs handled   *)
(* at startup, the main loop, and the last fire time kept on disk across      *)
(* crashes.  A cron expression is the set of its occurrences; creating a task *)
(* (TaskService) either succeeds or fails.  Names a specification always has  *)
(* carry the module's, so that it may be extended together with TaskService.  *)
EXTENDS Integers, FiniteSets, Sequences

CONSTANTS N,            \* number of active schedules, evaluated in order 1 .. N
          Due,          \* occurrences of each cron expression
          Policy,       \* missed_policy of each schedule
          BackfillCap,  \* most missed runs backfilled at one startup (10)
          MaxTime,      \* bound: the clock
          MaxFaults     \* bound: crashes, refused tasks and failed writes

Entries == 1 .. N

ASSUME SchedulerAssumption ==
    /\ N \in Nat /\ BackfillCap \in Nat /\ MaxTime \in Nat /\ MaxFaults \in Nat
    /\ Due \in [Entries -> SUBSET (1 .. MaxTime)]
    /\ Policy \in [Entries -> {"skip", "run-once", "backfill"}]

(* A last fire time that was never written. *)
NoFire == -1

VARIABLES clock,      \* Utc::now()
          disk,       \* the .last_fire file of each schedule
          created,    \* the tasks created, with their fire_time and whether the
                      \* file named the previous one when they were created
          pc,         \* "down", "missed", "loop"
          now,        \* `now` of handle_missed_runs, `fire_time` of run
          last_tick,  \* last_tick of run
          entry,      \* the schedule handle_missed_runs looks at
          todo,       \* the calls of fire_schedule still to make: <<entry, time>>
          firing,     \* the task is created and its fire time not yet written
          faults      \* bound

volatile == <<pc, now, last_tick, entry, todo, firing>>
schedulerVars == <<clock, disk, created, volatile, faults>>

-----------------------------------------------------------------------------

(* Mutant: the anchor itself counts as an occurrence after it. *)
AtOrAfter(e, t) == {d \in Due[e] : d >= t}

(* Schedule::after(&t): the occurrences strictly after t. *)
After(e, t) == {d \in Due[e] : d > t}

(* Mutant: the next fire time is computed from the current time. *)
ElapsedNow(e, t) == \E d \in Due[e] : d > t /\ d = clock

(* next_after(last_tick) has elapsed. *)
Elapsed(e, t) == \E d \in After(e, t) : d <= clock

(* The i-th element of a finite set of integers, and its first n as a sequence *)
(* in order (an occurrence has fewer than i occurrences before it).            *)
InOrder(S, n) ==
    [i \in 1 .. (IF Cardinality(S) < n THEN Cardinality(S) ELSE n) |->
        CHOOSE x \in S : Cardinality({y \in S : y < x}) = i - 1]

Missed(e) == {d \in After(e, disk[e]) : d < now}

Calls(e, times) == [i \in DOMAIN times |-> <<e, times[i]>>]

-----------------------------------------------------------------------------

SchedulerInit ==
    /\ clock = 0
    /\ disk = [e \in Entries |-> NoFire]
    /\ created = [e \in Entries |-> <<>>]
    /\ pc = "down" /\ now = 0 /\ last_tick = 0 /\ entry = 1 /\ todo = <<>> /\ firing = FALSE
    /\ faults = 0

Tick ==
    /\ clock < MaxTime
    /\ clock' = clock + 1
    /\ UNCHANGED <<disk, created, volatile, faults>>

(* Startup: handle_missed_runs reads the clock once. *)
Start ==
    /\ pc = "down"
    /\ pc' = "missed" /\ now' = clock /\ entry' = 1 /\ todo' = <<>> /\ firing' = FALSE
    /\ UNCHANGED <<clock, disk, created, last_tick, faults>>

(* A write of the .last_fire file; a failure is only logged.  It fails before *)
(* the file is opened, or with the file truncated, which then reads as none   *)
(* (a crash within the write is such a failure and a crash).                  *)
WriteLastFire(e, t) ==
    \/ disk' = [disk EXCEPT ![e] = t] /\ faults' = faults
    \/ /\ faults < MaxFaults /\ faults' = faults + 1
       /\ disk' \in {disk, [disk EXCEPT ![e] = NoFire]}

(* One schedule of handle_missed_runs, before its tasks are created. *)
HandleMissed ==
    /\ pc = "missed" /\ entry \in Entries /\ todo = <<>> /\ ~firing
    /\ entry' = entry + 1
    /\ LET missed == Missed(entry) IN
       IF disk[entry] = NoFire \/ missed = {}
       THEN UNCHANGED <<disk, todo, faults>>
       ELSE \/ Policy[entry] = "skip" /\ WriteLastFire(entry, now) /\ todo' = <<>>
            \/ Policy[entry] = "run-once" /\ todo' = <<<<entry, now>>>> /\ UNCHANGED <<disk, faults>>
            \/ Policy[entry] = "backfill" /\ todo' = Calls(entry, InOrder(missed, BackfillCap))
               /\ UNCHANGED <<disk, faults>>
    /\ UNCHANGED <<clock, created, pc, now, last_tick, firing>>

(* run starts: it anchors at the time it starts. *)
EnterLoop ==
    /\ pc = "missed" /\ entry = N + 1 /\ todo = <<>> /\ ~firing
    /\ pc' = "loop" /\ last_tick' = clock
    /\ UNCHANGED <<clock, disk, created, now, entry, todo, firing, faults>>

(* The sleep ends at or after the next fire time; every schedule with an     *)
(* occurrence since last_tick fires once, all with the same fire_time.       *)
Wake ==
    /\ pc = "loop" /\ todo = <<>> /\ ~firing
    /\ \E e \in Entries : Elapsed(e, last_tick)
    /\ now' = clock
    /\ LET due == InOrder({e \in Entries : Elapsed(e, last_tick)}, N)
       IN  todo' = [i \in DOMAIN due |-> <<due[i], clock>>]
    /\ last_tick' = clock
    /\ UNCHANGED <<clock, disk, created, pc, entry, firing, faults>>

(* Mutant: the fire time is recorded before the task exists. *)
RecordFirst ==
    /\ todo # <<>> /\ ~firing
    /\ disk' = [disk EXCEPT ![Head(todo)[1]] = Head(todo)[2]]
    /\ firing' = TRUE
    /\ UNCHANGED <<clock, created, pc, now, last_tick, entry, todo, faults>>

(* fire_schedule: the task is created ... *)
CreateTask ==
    /\ todo # <<>> /\ ~firing
    /\ LET e == Head(todo)[1]
           stale == created[e] # <<>> /\ disk[e] # created[e][Len(created[e])].at
       IN  created' = [created EXCEPT ![e] = Append(@, [at |-> Head(todo)[2], stale |-> stale])]
    /\ firing' = TRUE
    /\ UNCHANGED <<clock, disk, pc, now, last_tick, entry, todo, faults>>

(* ... or refused (tenant gone, pool exhausted), and only logged; ... *)
CreateFails ==
    /\ todo # <<>> /\ ~firing
    /\ faults < MaxFaults /\ faults' = faults + 1
    /\ todo' = Tail(todo)
    /\ UNCHANGED <<clock, disk, created, pc, now, last_tick, entry, firing>>

(* ... and its fire time is persisted afterwards. *)
Persist ==
    /\ firing
    /\ WriteLastFire(Head(todo)[1], Head(todo)[2])
    /\ todo' = Tail(todo) /\ firing' = FALSE
    /\ UNCHANGED <<clock, created, pc, now, last_tick, entry>>

(* The process dies, or is stopped, anywhere. *)
Crash ==
    /\ pc # "down" /\ faults < MaxFaults
    /\ faults' = faults + 1
    /\ pc' = "down" /\ now' = 0 /\ last_tick' = 0 /\ entry' = 1 /\ todo' = <<>> /\ firing' = FALSE
    /\ UNCHANGED <<clock, disk, created>>

Step == HandleMissed \/ EnterLoop \/ Wake \/ CreateTask \/ Persist

SchedulerNext == Tick \/ Start \/ Step \/ CreateFails \/ Crash

SchedulerSpec == SchedulerInit /\ [][SchedulerNext]_schedulerVars

(* The scheduler's tokio task is polled and its timers fire. *)
FairSchedulerSpec == SchedulerSpec /\ WF_schedulerVars(Step)

-----------------------------------------------------------------------------
(* Properties *)

Fire == [at : Nat, stale : BOOLEAN]

(* Every variable holds a value of the type of what it models. *)
SchedulerTypeOK ==
    /\ clock \in Nat /\ now \in Nat /\ last_tick \in Nat /\ faults \in Nat
    /\ disk \in [Entries -> Nat \cup {NoFire}]
    /\ created \in [Entries -> Seq(Fire)]
    /\ pc \in {"down", "missed", "loop"}
    /\ entry \in 1 .. (N + 1)
    /\ todo \in Seq(Entries \X Nat)
    /\ firing \in BOOLEAN

(* Crash or failed write between the task and its record: the file may lag   *)
(* behind the tasks, never lead them.  A schedule's file names a fire whose  *)
(* task exists, except that "skip" may move it to a startup time.            *)
FileNeverLeads ==
    \A e \in Entries : disk[e] # NoFire =>
        /\ disk[e] <= clock
        /\ Policy[e] # "skip" => \E i \in DOMAIN created[e] : created[e][i].at = disk[e]

(* No occurrence yields two tasks, across loop, backfill, run-once and any   *)
(* number of restarts, unless the first one's record was lost: two tasks in  *)
(* a row have an occurrence between them, or the file was stale.             *)
OneTaskPerOccurrence ==
    \A e \in Entries : \A i \in DOMAIN created[e] :
        i > 1 => \/ \E d \in Due[e] : created[e][i - 1].at < d /\ d <= created[e][i].at
                 \/ created[e][i].stale

(* An occurrence after last_tick is never skipped by a slow tick or a late   *)
(* wake-up: it gets a task at or after its time, unless a task is refused,   *)
(* a write fails or the process dies meanwhile.                              *)
LateTicksStillFire ==
    \A e \in Entries : \A d \in Due[e] : \A n \in 0 .. MaxFaults :
        (pc = "loop" /\ last_tick < d /\ d <= clock /\ faults = n)
            ~> (faults > n \/ \E i \in DOMAIN created[e] : created[e][i].at >= d)

-----------------------------------------------------------------------------
(* The inductive invariant of the proofs.                                    *)

(* No time the scheduler works with is ahead of the clock. *)
InThePast ==
    /\ now <= clock /\ last_tick <= clock
    /\ \A i \in DOMAIN todo : todo[i][2] <= clock

(* A fire time about to be written is that of the schedule's last task. *)
PersistsLastTask ==
    firing => LET e == Head(todo)[1]
              IN  /\ todo # <<>> /\ created[e] # <<>>
                  /\ created[e][Len(created[e])].at = Head(todo)[2]

(* In the main loop nothing on disk or about to be is after the last tick. *)
TickCoversDisk ==
    pc = "loop" => /\ \A e \in Entries : disk[e] <= last_tick
                   /\ \A i \in DOMAIN todo : todo[i][2] <= last_tick

(* Every call of fire_schedule still to make has an occurrence after the fire *)
(* time on disk, and after the calls for the same schedule before it.         *)
CallsAreDue ==
    /\ \A i \in DOMAIN todo : (firing => i > 1) =>
          \E d \in Due[todo[i][1]] : disk[todo[i][1]] < d /\ d <= todo[i][2]
    /\ \A i, j \in DOMAIN todo : i < j /\ todo[i][1] = todo[j][1] =>
          \E d \in Due[todo[i][1]] : todo[i][2] < d /\ d <= todo[j][2]

SchedulerInv ==
    /\ SchedulerTypeOK /\ InThePast /\ PersistsLastTask /\ TickCoversDisk /\ CallsAreDue
    /\ FileNeverLeads /\ OneTaskPerOccurrence

=============================================================================
