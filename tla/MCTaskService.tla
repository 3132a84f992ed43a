---------------------------- MODULE MCTaskService ----------------------------
(* Two tasks, one of them over the WebSocket connection, share one worker    *)
(* behind a queue of one: the second waits in the queue or is refused.       *)
EXTENDS TaskService

CONSTANTS ws, http, w1, call, none

(* The connection's task asks (twice) and is paused, the other one emits. *)
ChatterBound == [t \in {ws, http} |-> IF t = ws THEN 0 ELSE 2]
LogBound == [t \in {ws, http} |-> IF t = ws THEN 5 ELSE 0]
=============================================================================
