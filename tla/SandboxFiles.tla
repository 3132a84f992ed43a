---------------------------- MODULE SandboxFiles ----------------------------
(* Files changed through the sandbox (simulacra-sandbox): batches of the      *)
(* apply_patch tool, and the writes, appends, removes and renames of scripts  *)
(* (fs_proxy*.rs), with their byte budgets, over a file system that applies   *)
(* batches atomically (MemoryFs) or one that refuses them and asks a hook     *)
(* before each write (HookedVfsLayer).  A file's bytes are the set of calls   *)
(* that contributed to them, one byte each; directories are left out.         *)
EXTENDS Integers, FiniteSets, Sequences

CONSTANTS Calls,      \* concurrent calls
          Cells,      \* AgentCells: one budget and one mutation lock each
          Cell,       \* the cell of each call
          Ops,        \* the operations a call may be
          Paths,      \* files
          Seed,       \* the byte files have at first
          Seeded,     \* the files that exist at first
          Backends,   \* subset of {"atomic", "hooked"}
          MaxBytes,   \* max_vfs_bytes of each cell, 0 for unlimited
          MaxFaults,  \* bound: hook denials, failed appends, lost answers
          None

(* The items of a patch (VfsMutation) and the calls of scripts.  An item that *)
(* does not move a file has to = p.                                           *)
PatchKinds == {"update", "add", "delete", "move", "rewrite"}
CallKinds == {"append", "write", "remove", "rename"}
Moving == {"move", "rewrite", "rename"}
Item == [k : PatchKinds \cup CallKinds, p : Paths, to : Paths]
NoOperation == [kind |-> "none", items |-> <<>>]
Operation == [kind : CallKinds \cup {"batch"}, items : Seq(Item)]

(* A call is one item; a patch has items on distinct paths.  A rename of a    *)
(* path to itself and a patch without items are left out: they change no file *)
(* and reserve nothing.                                                       *)
WellFormed(o) ==
    /\ Len(o.items) > 0
    /\ \A i \in DOMAIN o.items : o.items[i].k \in Moving <=> o.items[i].p # o.items[i].to
    /\ o.kind \in CallKinds => Len(o.items) = 1 /\ o.items[1].k = o.kind
    /\ o.kind = "batch" =>
          /\ \A i \in DOMAIN o.items : o.items[i].k \in PatchKinds
          /\ \A i, j \in DOMAIN o.items :
                i # j => {o.items[i].p, o.items[i].to} \cap {o.items[j].p, o.items[j].to} = {}

ASSUME SandboxAssumption ==
    /\ Ops \in [Calls -> SUBSET Operation] /\ \A c \in Calls : \A o \in Ops[c] : WellFormed(o)
    /\ IsFiniteSet(Calls) /\ IsFiniteSet(Cells) /\ IsFiniteSet(Paths)
    /\ Cell \in [Calls -> Cells] /\ MaxBytes \in [Cells -> Nat] /\ MaxFaults \in Nat
    /\ Seeded \subseteq Paths /\ Backends \subseteq {"atomic", "hooked"}
    /\ Seed \notin Calls /\ None \notin Calls

VARIABLES backend,   \* which file system the cells have
          files,     \* MemoryFs.map: bytes and revision of each path
          revision,  \* State.next_revision
          used,      \* used_vfs_bytes of each cell
          lock,      \* vfs_mutation_lock of each cell
          pc,        \* where each call is, or how it ended
          op,        \* the operation it performs
          item,      \* the item, half or rollback entry it is at
          tries,     \* attempts of an append
          saw,       \* bytes it read, per path
          pin,       \* revisions it read, per path
          before,    \* VfsRollbackEntry.before, per path
          bytes,     \* bytes it reserved
          disturbed, \* history: its paths are not captured, or were changed by another call
          faults     \* bound

fs == <<files, revision, disturbed>>
local == <<op, item, tries, saw, pin, before>>
vars == <<backend, files, revision, used, lock, pc, op, item, tries, saw, pin, before,
          bytes, disturbed, faults>>

-----------------------------------------------------------------------------
(* Operations: a sequence of items.                                           *)

Bytes == SUBSET (Calls \cup {Seed})

Missing == [data |-> {}, rev |-> 0]
Exists(p) == files[p].rev > 0

Items(c) == op[c].items
Here(c) == Items(c)[item[c]]
PathsOf(c) == UNION {{Items(c)[i].p, Items(c)[i].to} : i \in DOMAIN Items(c)}

(* An item writes to, removes p, or both.  A rename moves what is there; every *)
(* other item writes bytes it composed before.                                *)
Writes(it) == it.k \notin {"delete", "remove"}
Removes(it) == it.k \in {"delete", "remove"} \cup Moving
Composed(c, it) ==
    CASE it.k \in {"add", "write"} -> {c}
      [] it.k \in {"move", "rename"} -> saw[c][it.p]
      [] OTHER -> saw[c][it.p] \cup {c}

-----------------------------------------------------------------------------
(* The file system.                                                           *)

(* check and apply_one (memory_atomic.rs): the preconditions of the items.    *)
Holds(c, it) ==
    CASE it.k \in {"update", "delete"} -> Exists(it.p) /\ files[it.p].rev = pin[c][it.p]
      [] it.k = "append" -> files[it.p].rev = pin[c][it.p]
      [] it.k = "add" -> ~Exists(it.p)
      [] it.k \in {"move", "rewrite"} -> files[it.p].rev = pin[c][it.p] /\ Exists(it.p) /\ ~Exists(it.to)
      [] it.k = "rename" -> Exists(it.p) /\ IF pin[c][it.to] = 0 THEN ~Exists(it.to)
                                            ELSE /\ files[it.p].rev = pin[c][it.p]
                                                 /\ files[it.to].rev = pin[c][it.to]
      [] it.k = "remove" -> Exists(it.p)
      [] it.k = "write" -> TRUE

BatchHolds(c) == \A i \in DOMAIN Items(c) : Holds(c, Items(c)[i])

(* Move the map to f; others whose paths change are disturbed. *)
Change(c, f) ==
    /\ files' = f
    /\ disturbed' = [d \in Calls |-> disturbed[d] \/ (d # c /\ \E p \in PathsOf(d) : f[p] # files[p])]

(* apply: every item against one scratch copy, swapped in at the end.  Only   *)
(* the order of revisions matters, so an item that takes none skips one.      *)
ApplyBatch(c) ==
    LET its == Items(c)
        Writer(p) == {i \in DOMAIN its : Writes(its[i]) /\ its[i].to = p}
        Moved(it) == IF it.k \in {"move", "rename"} THEN files[it.p].data ELSE Composed(c, it)
    IN /\ Change(c, [p \in Paths |->
             IF Writer(p) # {} THEN LET i == CHOOSE i \in Writer(p) : TRUE
                                    IN [data |-> Moved(its[i]), rev |-> revision + i]
             ELSE IF \E i \in DOMAIN its : Removes(its[i]) /\ its[i].p = p THEN Missing
             ELSE files[p]])
       /\ revision' = revision + Len(its)

(* vfs.write and vfs.remove of one path; no bytes stand for a removal. *)
PutOne(c, p, data) ==
    /\ Change(c, [files EXCEPT ![p] = IF data = {} THEN Missing ELSE [data |-> data, rev |-> revision + 1]])
    /\ revision' = revision + 1

-----------------------------------------------------------------------------
(* Budget (guards.rs) and ends of calls.                                      *)

Fits(c, n) ==
    LET max == MaxBytes[Cell[c]] IN max = 0 \/ (used[Cell[c]] < max /\ used[Cell[c]] + n <= max)

reserve_vfs_bytes(c, n) ==
    /\ used' = [used EXCEPT ![Cell[c]] = @ + n]
    /\ bytes' = [bytes EXCEPT ![c] = n]

(* Mutant: a failure is returned without giving the bytes back. *)
ReleaseNothing(c) == used' = used

release_vfs_bytes(c) == used' = [used EXCEPT ![Cell[c]] = @ - bytes[c]]

Goto(c, to) == pc' = [pc EXCEPT ![c] = to]

(* Return: the guard of the mutation lock is dropped. *)
End(c, how) ==
    /\ Goto(c, how)
    /\ lock' = [lock EXCEPT ![Cell[c]] = IF @ = c THEN None ELSE @]

(* Unsupported leads to the fallback, which writes and then removes. *)
FirstHalf(it) == IF Writes(it) THEN "writes" ELSE "removes"
Chosen(o) == IF backend = "atomic" THEN "commit" ELSE FirstHalf(o.items[1])

Fault == faults < MaxFaults /\ faults' = faults + 1

(* An error after the reservation: it is given back. *)
FailReleasing(c) ==
    /\ release_vfs_bytes(c)
    /\ End(c, "failed")
    /\ UNCHANGED <<bytes, local, fs>>

Init ==
    /\ backend \in Backends
    /\ files = [p \in Paths |-> IF p \in Seeded THEN [data |-> {Seed}, rev |-> 1] ELSE Missing]
    /\ revision = 1
    /\ used = [k \in Cells |-> 0]
    /\ lock = [k \in Cells |-> None]
    /\ pc = [c \in Calls |-> "idle"]
    /\ op = [c \in Calls |-> NoOperation]
    /\ item = [c \in Calls |-> 1]
    /\ tries = [c \in Calls |-> 1]
    /\ saw = [c \in Calls |-> [p \in Paths |-> {}]]
    /\ pin = [c \in Calls |-> [p \in Paths |-> 0]]
    /\ before = [c \in Calls |-> [p \in Paths |-> {}]]
    /\ bytes = [c \in Calls |-> 0]
    /\ disturbed = [c \in Calls |-> TRUE]
    /\ faults = 0
-----------------------------------------------------------------------------
(* Batches: plan_patch, then apply_vfs_mutations under the cell's lock.       *)

StartBatch(c, o) ==
    /\ pc[c] = "idle" /\ o.kind = "batch"
    /\ op' = [op EXCEPT ![c] = o]
    /\ Goto(c, "plan")
    /\ UNCHANGED <<backend, tries, used, lock, item, saw, pin, before, bytes, fs, faults>>

(* plan_patch, one operation of the patch: it reads what it will build on. *)
PlanItem(c) ==
    LET it == Here(c)
        possible == /\ it.k = "add" \/ Exists(it.p)
                    /\ it.k \in {"update", "delete"} \/ ~Exists(it.to)
        last == item[c] = Len(Items(c))
    IN /\ pc[c] = "plan"
       /\ IF possible
          THEN /\ saw' = IF it.k \in {"update", "rewrite"} THEN [saw EXCEPT ![c][it.p] = files[it.p].data] ELSE saw
               /\ item' = [item EXCEPT ![c] = IF last THEN 1 ELSE @ + 1]
               /\ pc' = [pc EXCEPT ![c] = IF last THEN "lock" ELSE "plan"]
          ELSE Goto(c, "failed") /\ UNCHANGED <<tries, saw, item>>
       /\ UNCHANGED <<backend, tries, used, lock, op, pin, before, bytes, fs, faults>>

(* write_bytes: the bytes of every item; a move is charged the size its       *)
(* source has now.                                                            *)
Charged(c, it) ==
    CASE it.k = "delete" -> {}
      [] it.k = "move" -> files[it.p].data
      [] OTHER -> Composed(c, it)
WriteBytes(c) == Cardinality(UNION {{i} \X Charged(c, Items(c)[i]) : i \in DOMAIN Items(c)})

(* The lock, the preflight, the sizes and the reservation. *)
Lock(c) ==
    LET n == WriteBytes(c)
        measured == \A i \in DOMAIN Items(c) : Items(c)[i].k = "move" => Exists(Items(c)[i].p)
    IN /\ pc[c] = "lock" /\ lock[Cell[c]] = None
       /\ IF measured /\ Fits(c, 0) /\ (n > 0 => Fits(c, n))
          THEN reserve_vfs_bytes(c, n) /\ lock' = [lock EXCEPT ![Cell[c]] = c] /\ Goto(c, "pin")
          ELSE Goto(c, "failed") /\ UNCHANGED <<used, bytes, lock>>
       /\ UNCHANGED <<backend, local, fs, faults>>

(* push_batch_items: the revision is read before the bytes it stands for. *)
PinItem(c) ==
    LET it == Here(c) IN
    /\ pc[c] = "pin"
    /\ IF it.k = "add" \/ Exists(it.p)
       THEN /\ pin' = [pin EXCEPT ![c][it.p] = files[it.p].rev]
            /\ Goto(c, "validate")
            /\ UNCHANGED <<tries, used, lock, bytes, op, item, saw, before, fs>>
       ELSE FailReleasing(c)
    /\ UNCHANGED <<backend, faults>>

(* prepare_mutation: what the item requires of the files, checked again. *)
Valid(c, it) ==
    CASE it.k = "add" -> ~Exists(it.p)
      [] it.k = "update" -> Exists(it.p) /\ files[it.p].data = saw[c][it.p]
      [] it.k = "delete" -> Exists(it.p)
      [] it.k = "move" -> Exists(it.p) /\ ~Exists(it.to)
      [] it.k = "rewrite" -> Exists(it.p) /\ files[it.p].data = saw[c][it.p] /\ ~Exists(it.to)

ValidateItem(c) ==
    LET it == Here(c)
        last == item[c] = Len(Items(c))
    IN /\ pc[c] = "validate"
       /\ IF Valid(c, it)
          THEN /\ saw' = IF it.k = "move" THEN [saw EXCEPT ![c][it.p] = files[it.p].data] ELSE saw
               /\ item' = [item EXCEPT ![c] = IF last THEN 1 ELSE @ + 1]
               /\ pc' = [pc EXCEPT ![c] = IF last THEN "capture" ELSE "pin"]
               /\ UNCHANGED <<tries, used, lock, op, pin, before, bytes, fs>>
          ELSE FailReleasing(c)
       /\ UNCHANGED <<backend, faults>>

(* capture_vfs_rollback_entries and the journal entries of the batch; an      *)
(* append that fails ends the batch before anything was changed.             *)
Capture(c) ==
    /\ pc[c] = "capture"
    /\ \/ /\ before' = [before EXCEPT ![c] = [p \in Paths |-> files[p].data]]
          /\ disturbed' = [disturbed EXCEPT ![c] = FALSE]
          /\ Goto(c, Chosen(op[c]))
          /\ UNCHANGED <<tries, used, lock, op, item, saw, pin, bytes, files, revision, faults>>
       \/ Fault /\ FailReleasing(c)
    /\ UNCHANGED backend

-----------------------------------------------------------------------------
(* Commits.                                                                   *)

(* append_conditionally: one more attempt, then Conflict. *)
Raced(c) ==
    IF tries[c] = 1
    THEN /\ tries' = [tries EXCEPT ![c] = 2]
         /\ Goto(c, "observe")
         /\ UNCHANGED <<used, lock, op, item, saw, pin, before, bytes, fs>>
    ELSE FailReleasing(c)

(* One atomic call of a file system with batches and revisions.  It may       *)
(* answer OutcomeUnknown: the bytes stay reserved and nothing is undone.      *)
Commit(c) ==
    /\ pc[c] = "commit" /\ backend = "atomic"
    /\ \/ /\ BatchHolds(c)
          /\ ApplyBatch(c)
          /\ End(c, "ok")
          /\ UNCHANGED <<used, local, bytes, faults>>
       \/ /\ ~BatchHolds(c)
          /\ IF op[c].kind = "append" THEN Raced(c) ELSE FailReleasing(c)
          /\ UNCHANGED faults
       \/ /\ Fault
          /\ End(c, "unknown")
          /\ UNCHANGED <<used, local, bytes, fs>>
    /\ UNCHANGED backend

(* A commit whose answer was lost lands after the call has returned. *)
LandLate(c) ==
    /\ pc[c] = "unknown" /\ BatchHolds(c)
    /\ ApplyBatch(c)
    /\ Goto(c, "ok")
    /\ UNCHANGED <<backend, used, lock, local, bytes, faults>>

(* execute_prepared and the fallbacks of the script calls: the halves of the  *)
(* items one after the other, each of which the hook may deny.                *)
HalfDone(c) ==
    LET both == pc[c] = "writes" /\ Removes(Here(c)) IN
    \/ both /\ Goto(c, "removes") /\ UNCHANGED <<item, lock>>
    \/ /\ ~both /\ item[c] < Len(Items(c))
       /\ item' = [item EXCEPT ![c] = @ + 1]
       /\ Goto(c, FirstHalf(Items(c)[item[c] + 1]))
       /\ UNCHANGED lock
    \/ ~both /\ item[c] = Len(Items(c)) /\ End(c, "ok") /\ UNCHANGED item

(* A half that fails.  A batch gives its bytes back and then compensates; a   *)
(* rename whose source cannot be removed has made a copy and paid for it.     *)
HalfFails(c) ==
    CASE op[c].kind = "batch" ->
           /\ release_vfs_bytes(c)
           /\ Goto(c, "checkTo")
           /\ item' = [item EXCEPT ![c] = Len(Items(c))]
           /\ UNCHANGED <<tries, lock, op, saw, pin, before, bytes, fs>>
      [] op[c].kind = "rename" /\ pc[c] = "removes" ->
           End(c, "copied") /\ UNCHANGED <<used, local, bytes, fs>>
      [] OTHER -> FailReleasing(c)

(* The answer to a half is lost (OutcomeUnknown): the bytes stay reserved and *)
(* nothing is undone.                                                         *)
HalfLost(c) ==
    /\ End(c, IF pc[c] = "writes" THEN "writeLost" ELSE "removeLost")
    /\ UNCHANGED <<used, local, bytes, fs>>

Execute(c) ==
    LET it == Here(c) IN
    /\ \/ /\ \/ pc[c] = "writes" /\ PutOne(c, it.to, Composed(c, it))
             \/ pc[c] = "removes" /\ Exists(it.p) /\ PutOne(c, it.p, {})
          /\ HalfDone(c)
          /\ UNCHANGED <<tries, used, op, saw, pin, before, bytes, faults>>
       \/ pc[c] = "removes" /\ ~Exists(it.p) /\ HalfFails(c) /\ UNCHANGED faults
       \/ pc[c] \in {"writes", "removes"} /\ Fault /\ (HalfFails(c) \/ HalfLost(c))
    /\ UNCHANGED backend

(* It lands after the call has returned. *)
LandHalf(c) ==
    LET it == Here(c) IN
    /\ \/ pc[c] = "writeLost" /\ PutOne(c, it.to, Composed(c, it))
       \/ pc[c] = "removeLost" /\ Exists(it.p) /\ PutOne(c, it.p, {})
    /\ Goto(c, "partly")
    /\ UNCHANGED <<backend, used, lock, local, bytes, faults>>

(* The rollback entries backwards: of an item, the path written before the    *)
(* path removed.                                                              *)
EntryDone(c) ==
    \/ pc[c] \in {"checkTo", "undoTo"} /\ Goto(c, "checkFrom") /\ UNCHANGED <<item, lock>>
    \/ /\ pc[c] \in {"checkFrom", "undoFrom"} /\ item[c] > 1
       /\ item' = [item EXCEPT ![c] = @ - 1]
       /\ Goto(c, "checkTo")
       /\ UNCHANGED lock
    \/ pc[c] \in {"checkFrom", "undoFrom"} /\ item[c] = 1 /\ End(c, "failed") /\ UNCHANGED item

(* restore_vfs_path_states: an entry is undone if its path is as the batch    *)
(* left it, and the check and the write are two calls.                        *)
AsLeft(c, it) ==
    IF pc[c] = "checkTo" THEN Writes(it) /\ files[it.to].data = Composed(c, it)
    ELSE Removes(it) /\ ~Exists(it.p)

Compensate(c) ==
    /\ pc[c] \in {"checkTo", "checkFrom"}
    /\ IF AsLeft(c, Here(c))
       THEN Goto(c, IF pc[c] = "checkTo" THEN "undoTo" ELSE "undoFrom") /\ UNCHANGED <<item, lock>>
       ELSE EntryDone(c)
    /\ UNCHANGED <<backend, tries, used, op, saw, pin, before, bytes, fs, faults>>

(* Mutant: only bytes are restored, what the batch created stays. *)
UndoWritesOnly(c, p) == before[c][p] # {}

(* The entry calls for a write or a remove. *)
UndoNeeded(c, p) == before[c][p] # {} \/ Exists(p)

Undo(c) ==
    LET p == IF pc[c] = "undoTo" THEN Here(c).to ELSE Here(c).p IN
    /\ pc[c] \in {"undoTo", "undoFrom"}
    /\ \/ /\ IF UndoNeeded(c, p) THEN PutOne(c, p, before[c][p]) ELSE UNCHANGED fs
          /\ EntryDone(c)
          /\ UNCHANGED faults
       \/ /\ Fault /\ UndoNeeded(c, p)
          /\ End(c, "broken")
          /\ UNCHANGED <<item, fs>>
    /\ UNCHANGED <<backend, tries, used, op, saw, pin, before, bytes>>

-----------------------------------------------------------------------------
(* Calls of scripts: no lock.                                                 *)

(* The bytes a call reserves before it starts. *)
Reserved(o) == IF o.kind \in {"write", "append"} THEN 1 ELSE 0

(* Capability, reservation, journal (whose failure is only logged). *)
StartCall(c, o) ==
    LET n == Reserved(o) IN
    /\ pc[c] = "idle" /\ o.kind # "batch"
    /\ op' = [op EXCEPT ![c] = o]
    /\ IF Fits(c, n)
       THEN /\ reserve_vfs_bytes(c, n)
            /\ Goto(c, CASE o.kind = "append" -> "observe"
                         [] o.kind = "rename" -> "inspect"
                         [] OTHER -> Chosen(o))
       ELSE Goto(c, "failed") /\ UNCHANGED <<used, bytes>>
    /\ UNCHANGED <<backend, tries, lock, item, saw, pin, before, fs, faults>>

(* observe: the revision, the bytes, the revision again. *)
Observe(c) ==
    /\ pc[c] = "observe"
    /\ pin' = [pin EXCEPT ![c][Items(c)[1].p] = files[Items(c)[1].p].rev]
    /\ Goto(c, "read")
    /\ UNCHANGED <<backend, tries, used, lock, op, item, saw, before, bytes, fs, faults>>

(* A missing file is appended to as an absent one, whatever was pinned. *)
ReadFile(c) ==
    LET p == Items(c)[1].p IN
    /\ pc[c] = "read"
    /\ saw' = [saw EXCEPT ![c][p] = files[p].data]
    /\ pin' = IF Exists(p) THEN pin ELSE [pin EXCEPT ![c][p] = 0]
    /\ Goto(c, IF Exists(p) THEN "again" ELSE Chosen(op[c]))
    /\ UNCHANGED <<backend, tries, used, lock, op, item, before, bytes, fs, faults>>

(* Mutant: the second look at the revision is skipped, and used as the pin. *)
ObservedLater(c, p) == Exists(p)

Stable(c, p) == Exists(p) /\ files[p].rev = pin[c][p]

ObserveAgain(c) ==
    LET p == Items(c)[1].p IN
    /\ pc[c] = "again"
    /\ IF Stable(c, p)
       THEN /\ Goto(c, Chosen(op[c]))
            /\ pin' = [pin EXCEPT ![c][p] = files[p].rev]
            /\ UNCHANGED <<tries, used, lock, op, item, saw, before, bytes, fs>>
       ELSE Raced(c)
    /\ UNCHANGED <<backend, faults>>

(* rename_replacing: both ends are looked at, the source first. *)
Inspect(c) ==
    LET it == Items(c)[1]
        p == IF pc[c] = "inspect" THEN it.p ELSE it.to
    IN /\ pc[c] \in {"inspect", "target"}
       /\ IF pc[c] = "inspect" /\ ~Exists(p)
          THEN Goto(c, "failed") /\ UNCHANGED pin
          ELSE /\ pin' = [pin EXCEPT ![c][p] = files[p].rev]
               /\ Goto(c, IF pc[c] = "inspect" THEN "target" ELSE IF backend = "atomic" THEN "commit" ELSE "copy")
       /\ UNCHANGED <<backend, tries, used, lock, op, item, saw, before, bytes, fs, faults>>

(* copy_vfs_entry with charged_copy_write: read and reserve; the write and    *)
(* the removal of the source are halves.                                      *)
Copy(c) ==
    LET p == Items(c)[1].p
        n == Cardinality(files[p].data)
    IN /\ pc[c] = "copy"
       /\ IF Exists(p) /\ Fits(c, n)
          THEN /\ saw' = [saw EXCEPT ![c][p] = files[p].data]
               /\ reserve_vfs_bytes(c, n)
               /\ Goto(c, "writes")
          ELSE Goto(c, "failed") /\ UNCHANGED <<tries, saw, used, bytes>>
       /\ UNCHANGED <<backend, tries, lock, op, item, pin, before, fs, faults>>

-----------------------------------------------------------------------------

Next ==
    \E c \in Calls :
        \/ \E o \in Ops[c] : StartBatch(c, o) \/ StartCall(c, o)
        \/ PlanItem(c) \/ Lock(c) \/ PinItem(c) \/ ValidateItem(c) \/ Capture(c)
        \/ Commit(c) \/ LandLate(c) \/ Execute(c) \/ LandHalf(c) \/ Compensate(c) \/ Undo(c)
        \/ Observe(c) \/ ReadFile(c) \/ ObserveAgain(c) \/ Inspect(c) \/ Copy(c)

Spec == Init /\ [][Next]_vars

Stages ==
    {"idle", "plan", "lock", "pin", "validate", "capture", "commit", "unknown", "writes", "removes",
     "checkTo", "undoTo", "checkFrom", "undoFrom", "observe", "read", "again", "inspect", "target", "copy",
     "ok", "failed", "copied", "broken", "writeLost", "removeLost", "partly"}

TypeOK ==
    /\ backend \in Backends
    /\ files \in [Paths -> [data : Bytes, rev : Nat]]
    /\ revision \in Nat
    /\ used \in [Cells -> Nat]
    /\ lock \in [Cells -> Calls \cup {None}]
    /\ pc \in [Calls -> Stages]
    /\ op \in [Calls -> Operation \cup {NoOperation}]
    /\ \A c \in Calls : pc[c] # "idle" => op[c] \in Ops[c]
    /\ item \in [Calls -> Nat] /\ tries \in [Calls -> {1, 2}]
    /\ saw \in [Calls -> [Paths -> Bytes]] /\ before \in [Calls -> [Paths -> Bytes]]
    /\ pin \in [Calls -> [Paths -> Nat]]
    /\ bytes \in [Calls -> Nat]
    /\ disturbed \in [Calls -> BOOLEAN]
    /\ faults \in 0 .. MaxFaults

(* Where the file system has revisions, nobody's bytes are dropped from a     *)
(* file that stays, except by a call that is meant to replace them: a patch   *)
(* or an append that read a file builds on all that is there when it commits, *)
(* also if other calls wrote between its reads and its commit.                *)
BuildsOnWhatIsThere ==
    [][backend = "atomic" =>
         \A p \in Paths : Exists(p) /\ files'[p].rev > 0 =>
             \/ files[p].data \subseteq files'[p].data
             \/ \E c \in Calls : pc'[c] # pc[c] /\ op[c].kind \in {"write", "rename"}]_vars

(* A batch that failed left nothing behind: unless another call changed one   *)
(* of its paths since it recorded how they were, they are as they were, after *)
(* a refused batch as well as after the item by item fallback was undone.     *)
FailedBatchLeavesNothing ==
    \A c \in Calls :
        pc[c] = "failed" /\ op[c].kind = "batch" /\ ~disturbed[c]
            => \A p \in PathsOf(c) : files[p].data = before[c][p]

(* used_vfs_bytes is what the calls of the cell hold, within the limit: a call *)
(* holds its reservation from the moment it is made, keeps it when it wrote or *)
(* may have written, and gives it back once when it failed.  Where batches are *)
(* atomic, bytes of a call that are in a file are bytes it holds.             *)
Charge(c) == IF pc[c] \in {"failed", "checkTo", "undoTo", "checkFrom", "undoFrom", "broken"} THEN 0 ELSE bytes[c]

Held(k) == UNION {{c} \X (1 .. Charge(c)) : c \in {d \in Calls : Cell[d] = k}}

BytesAccounted ==
    \A k \in Cells :
        /\ used[k] = Cardinality(Held(k))
        /\ MaxBytes[k] > 0 => used[k] <= MaxBytes[k]
        /\ backend = "atomic" => \A c \in Calls : (\E p \in Paths : c \in files[p].data) => Charge(c) > 0
=============================================================================
