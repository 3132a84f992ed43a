----------------------------- MODULE ChildBoard ------------------------------
(***************************************************************************)
(* What the owner of child agents may rely on, whatever the supervisor     *)
(* does inside: a board with one entry per child, and calls that are       *)
(* answered at most once and only with what the board shows.               *)
(*                                                                         *)
(* An entry goes from absent to running to one final status to closed.  A  *)
(* call asks about a set of children; it may return a child of the set     *)
(* that has a final status, an error if one of them has no entry or the    *)
(* set is empty, a roster, or "running".  A call that has expired misses a *)
(* result that is recorded before it is answered, so "running" may be out  *)
(* of date when it arrives: it promises only that every child of the set   *)
(* was launched.                                                           *)
(***************************************************************************)
CONSTANTS Children, Requests

VARIABLES
    board,  \* status of each child
    asked,  \* children a call asks about
    call    \* "idle", "open", "expired", "lost" (nobody listens), or the answer

vars == <<board, asked, call>>

Final == {"completed", "failed", "cancelled"}

Init ==
    /\ board = [c \in Children |-> "absent"]
    /\ asked = [q \in Requests |-> {}]
    /\ call = [q \in Requests |-> "idle"]

\* v is a true answer to a call about C.
True(C, v) ==
    \/ v \in {"lost", "roster"}
    \/ v \in C /\ board[v] \in Final
    \/ v = "error" /\ (C = {} \/ \E c \in C : board[c] \in {"absent", "closed"})
    \/ v = "running" /\ \A c \in C : board[c] # "absent"

Launch(c) ==
    /\ board[c] = "absent"
    /\ board' = [board EXCEPT ![c] = "running"]
    /\ UNCHANGED <<asked, call>>

\* The final status of c goes to every open call about c.
Finish(c, s) ==
    /\ board[c] = "running"
    /\ board' = [board EXCEPT ![c] = s]
    /\ \E answer \in [Requests -> {c, "lost"}] :
        call' = [q \in Requests |-> IF call[q] = "open" /\ c \in asked[q]
                                    THEN answer[q] ELSE call[q]]
    /\ UNCHANGED asked

Close(c) ==
    /\ board[c] \in Final
    /\ board' = [board EXCEPT ![c] = "closed"]
    /\ UNCHANGED <<asked, call>>

Ask(q, C, v) ==
    /\ call[q] = "idle"
    /\ v = "open" \/ True(C, v)
    /\ asked' = [asked EXCEPT ![q] = C]
    /\ call' = [call EXCEPT ![q] = v]
    /\ UNCHANGED board

\* A call may time out: from then on no result reaches it.
Expire(q) ==
    /\ call[q] = "open"
    /\ call' = [call EXCEPT ![q] = "expired"]
    /\ UNCHANGED <<board, asked>>

Reply(q, v) ==
    /\ call[q] = "expired" /\ v \in {"running", "lost"} /\ True(asked[q], v)
    /\ call' = [call EXCEPT ![q] = v]
    /\ UNCHANGED <<board, asked>>

Values == Children \cup {"open", "lost", "roster", "error", "running"}

Next ==
    \/ \E c \in Children : Launch(c) \/ Close(c) \/ (\E s \in Final : Finish(c, s))
    \/ \E q \in Requests, v \in Values :
        Expire(q) \/ Reply(q, v) \/ (\E C \in SUBSET Children : Ask(q, C, v))

Spec == Init /\ [][Next]_vars
=============================================================================
