------------------------- MODULE SandboxFilesProofs -------------------------
(* Proofs about SandboxFiles, for every finite set of calls, cells and paths, *)
(* every set of well-formed operations, and every limit and fault bound.      *)
EXTENDS SandboxFiles, FiniteSetTheorems, TLAPS

-----------------------------------------------------------------------------
(* The invariant.                                                            *)

Users(k) == {c \in Calls : Cell[c] = k}

BatchStages == {"plan", "lock", "pin", "validate", "capture"}
UndoStages == {"checkTo", "undoTo", "checkFrom", "undoFrom"}
HalfStages == {"writes", "removes"}
LostStages == {"writeLost", "removeLost"}

\* Where a call can be: the stages of its kind, at an item it has, on the file
\* systems that lead there.
StageInv(c) ==
    /\ pc[c] \in BatchStages \cup UndoStages => op[c].kind = "batch"
    /\ pc[c] \in {"observe", "read", "again"} => op[c].kind = "append"
    /\ pc[c] \in {"inspect", "target", "copy"} => op[c].kind = "rename"
    /\ pc[c] \in {"plan", "pin", "validate"} \cup HalfStages \cup UndoStages \cup LostStages => item[c] \in 1 .. Len(Items(c))
    /\ pc[c] \in {"idle", "lock", "capture", "commit", "observe", "read", "again", "inspect", "target", "copy"} => item[c] = 1
    /\ pc[c] = "writes" => Writes(Here(c))
    /\ pc[c] = "removes" => Removes(Here(c))
    /\ pc[c] \in HalfStages \cup UndoStages \cup LostStages \cup {"copy"} => backend = "hooked"
    /\ pc[c] \in {"commit", "unknown"} => backend = "atomic"

\* A call that adds bytes of its own.
Adding(c) == \E i \in DOMAIN Items(c) : Items(c)[i].k \in {"add", "update", "rewrite", "append", "write"}

\* A call holds nothing before it reserves, and something once it may write
\* bytes of its own.
HoldInv(c) ==
    /\ pc[c] \in {"idle", "plan", "lock", "inspect", "target", "copy"} => bytes[c] = 0
    /\ pc[c] \in {"pin", "validate", "capture", "commit", "unknown", "observe", "read", "again"} /\ Adding(c)
          => bytes[c] > 0

\* What a call read and the revision it pinned belong together.
Linked(c, p) == pin[c][p] > 0 /\ pin[c][p] = files[p].rev => files[p].data = saw[c][p]

LinkInv(c) ==
    /\ \A p \in Paths : pin[c][p] <= revision
    /\ pc[c] = "validate" /\ Here(c).k = "update" => pin[c][Here(c).p] > 0
    /\ \A i \in DOMAIN Items(c) :
          Items(c)[i].k = "update" /\ (pc[c] \in {"capture", "commit", "unknown"} \/ (pc[c] \in {"pin", "validate"} /\ i < item[c]))
              => pin[c][Items(c)[i].p] > 0 /\ Linked(c, Items(c)[i].p)
    /\ \A i \in DOMAIN Items(c) :
          Items(c)[i].k = "append" /\ pc[c] \in {"again", "commit", "unknown"}
              => Linked(c, Items(c)[i].p) /\ (pc[c] # "again" /\ pin[c][Items(c)[i].p] = 0 => saw[c][Items(c)[i].p] = {})

\* The two rollback entries of an item: its path is as it was recorded, or as it
\* was recorded or as the batch left it.
SafeTo(c, it) == Writes(it) => files[it.to].data = before[c][it.to]
OpenTo(c, it) == Writes(it) => files[it.to].data \in {before[c][it.to], Composed(c, it)}
SafeFrom(c, it) == Removes(it) => files[it.p].data = before[c][it.p]
OpenFrom(c, it) == Removes(it) => files[it.p].data \in {before[c][it.p], {}}

\* How far a batch is undone.
UndoneTo(c, i) == pc[c] = "failed" \/ pc[c] = "commit" \/ (pc[c] \in UndoStages /\ (i > item[c] \/ (i = item[c] /\ pc[c] \in {"checkFrom", "undoFrom"})))
UndoneFrom(c, i) == pc[c] = "failed" \/ pc[c] = "commit" \/ (pc[c] \in UndoStages /\ i > item[c])

\* Before anything is written every path is as it was recorded; while halves are
\* executed it may be as the batch leaves it; backwards from the last item, it
\* is again as it was recorded.
UndoInv(c) ==
    /\ pc[c] \in BatchStages \cup {"idle"} => disturbed[c]
    /\ op[c].kind = "batch" /\ ~disturbed[c] /\ pc[c] \in {"commit", "failed"} \cup HalfStages \cup UndoStages =>
          \A i \in DOMAIN Items(c) :
             /\ OpenTo(c, Items(c)[i]) /\ OpenFrom(c, Items(c)[i])
             /\ UndoneTo(c, i) => SafeTo(c, Items(c)[i])
             /\ UndoneFrom(c, i) => SafeFrom(c, Items(c)[i])

CallInv(c) == StageInv(c) /\ HoldInv(c) /\ LinkInv(c) /\ UndoInv(c)

\* A file exists exactly when it has bytes, and revisions are given out in order.
FilesInv == \A p \in Paths : files[p].rev <= revision /\ (files[p].rev = 0 <=> files[p].data = {})

\* Where batches are atomic, bytes that are in a file or were read from one are
\* bytes of a call that is done and paid for them.
OwnInv ==
    backend = "atomic" =>
        \A c \in Calls : (\E p \in Paths : c \in files[p].data \/ \E d \in Calls : c \in saw[d][p]) => pc[c] = "ok" /\ bytes[c] > 0

\* The sums of the budgets.
SumInv ==
    \A k \in Cells : used[k] = Cardinality(Held(k)) /\ (MaxBytes[k] > 0 => used[k] <= MaxBytes[k])

IInv == TypeOK /\ (\A c \in Calls : CallInv(c)) /\ FilesInv /\ OwnInv /\ SumInv

-----------------------------------------------------------------------------
(* Sums as numbers of units.                                                 *)

Units(f, S) == UNION {{c} \X (1 .. f[c]) : c \in S}
Total(f, S) == Cardinality(Units(f, S))

\* One member's units.
LEMMA UnitsOfOne ==
    ASSUME NEW c, NEW n \in Nat
    PROVE  IsFiniteSet({c} \X (1 .. n)) /\ Cardinality({c} \X (1 .. n)) = n
<1>1. IsFiniteSet(1 .. n) /\ Cardinality(1 .. n) = n
  BY FS_Interval
<1>2. IsFiniteSet({c}) /\ Cardinality({c}) = 1
  BY FS_Singleton
<1>3. IsFiniteSet({c} \X (1 .. n)) /\ Cardinality({c} \X (1 .. n)) = Cardinality({c}) * Cardinality(1 .. n)
  BY <1>1, <1>2, FS_Product
<1> QED
  BY <1>1, <1>2, <1>3

\* A unit belongs to one member.
LEMMA UnitOwner ==
    ASSUME NEW f, NEW S, NEW u
    PROVE  u \in Units(f, S) <=> \E c \in S : u \in {c} \X (1 .. f[c])
BY DEF Units

\* Finitely many finite sets with an index each have finitely many elements.
LEMMA FiniteRows ==
    ASSUME NEW S, IsFiniteSet(S), NEW g, \A c \in S : IsFiniteSet(g[c])
    PROVE  IsFiniteSet(UNION {g[c] : c \in S})
<1> DEFINE T == {g[c] : c \in S}
           h == [c \in S |-> g[c]]
<1>1. h \in Surjection(S, T)
  BY DEF Surjection
<1>2. IsFiniteSet(T)
  BY <1>1, FS_Surjection DEF ExistsSurjection
<1> QED
  BY <1>2, FS_UNION

\* Finitely many members with finitely many units each have finitely many.
LEMMA TotalNat ==
    ASSUME NEW f, NEW S, IsFiniteSet(S), \A c \in S : f[c] \in Nat
    PROVE  IsFiniteSet(Units(f, S)) /\ Total(f, S) \in Nat
<1> DEFINE g == [c \in S |-> {c} \X (1 .. f[c])]
<1>1. \A c \in S : IsFiniteSet(g[c])
  BY UnitsOfOne
<1>2. IsFiniteSet(UNION {g[c] : c \in S})
  <2> HIDE DEF g
  <2> QED
    BY <1>1, FiniteRows
<1>3. Units(f, S) = UNION {g[c] : c \in S}
  BY DEF Units
<1> QED
  BY <1>2, <1>3, FS_CardinalityType DEF Total

\* The sum depends on the members' values only.
LEMMA TotalSame ==
    ASSUME NEW f, NEW g, NEW S, \A c \in S : f[c] = g[c]
    PROVE  Total(f, S) = Total(g, S)
<1>1. \A u : u \in Units(f, S) <=> u \in Units(g, S)
  BY UnitOwner
<1>2. Units(f, S) = Units(g, S)
  BY <1>1
<1> QED
  BY <1>2 DEF Total

\* A new member adds its value.
LEMMA TotalAdd ==
    ASSUME NEW f, NEW S, IsFiniteSet(S), NEW k, k \notin S, \A c \in S \cup {k} : f[c] \in Nat
    PROVE  Total(f, S \cup {k}) = Total(f, S) + f[k]
<1>1. PICK A : A = Units(f, S)
  OBVIOUS
<1>2. PICK B : B = {k} \X (1 .. f[k])
  OBVIOUS
<1>3. Units(f, S \cup {k}) = A \cup B
  <2>1. \A u : u \in Units(f, S \cup {k}) <=> u \in A \cup B
    BY <1>1, <1>2, UnitOwner
  <2> QED
    BY <2>1
<1>4. A \cap B = {}
  <2>1. ASSUME NEW u, u \in A, u \in B
        PROVE  FALSE
    <3>1. PICK c \in S : u \in {c} \X (1 .. f[c])
      BY <1>1, <2>1, UnitOwner
    <3>2. u[1] = c /\ u[1] = k
      BY <1>2, <2>1, <3>1
    <3> QED
      BY <3>1, <3>2
  <2> QED
    BY <2>1
<1>5. IsFiniteSet(A) /\ Cardinality(A) = Total(f, S) /\ Total(f, S) \in Nat
  BY <1>1, TotalNat DEF Total
<1>6. f[k] \in Nat /\ IsFiniteSet(B) /\ Cardinality(B) = f[k]
  BY <1>2, UnitsOfOne
<1>7. Cardinality(A \cup B) = Cardinality(A) + Cardinality(B) - Cardinality({})
  BY <1>4, <1>5, <1>6, FS_Union
<1>8. Total(f, S \cup {k}) = Cardinality(A \cup B)
  BY <1>3 DEF Total
<1> QED
  BY <1>5, <1>6, <1>7, <1>8, FS_EmptySet

\* Taking a member's value apart.
LEMMA TotalSplit ==
    ASSUME NEW f, NEW S, IsFiniteSet(S), NEW k \in S, \A c \in S : f[c] \in Nat
    PROVE  /\ Total(f, S) = Total(f, S \ {k}) + f[k]
           /\ Total(f, S \ {k}) \in Nat /\ f[k] \in Nat
<1>1. PICK R : R = S \ {k}
  OBVIOUS
<1>2. IsFiniteSet(R) /\ k \notin R /\ S = R \cup {k}
  BY <1>1, FS_Subset
<1>3. Total(f, R \cup {k}) = Total(f, R) + f[k] /\ Total(f, R) \in Nat
  BY <1>2, TotalAdd, TotalNat
<1> QED
  BY <1>1, <1>2, <1>3

\* One member's value changes, and the sum with it.
LEMMA TotalChange ==
    ASSUME NEW f, NEW g, NEW S, IsFiniteSet(S), NEW k \in S, \A c \in S \ {k} : f[c] = g[c],
           \A c \in S : f[c] \in Nat /\ g[c] \in Nat
    PROVE  Total(g, S) = Total(f, S) - f[k] + g[k] /\ Total(f, S) - f[k] \in Nat /\ Total(f, S) \in Nat
<1>1. PICK R : R = S \ {k}
  OBVIOUS
<1>2. Total(f, R) = Total(g, R)
  BY <1>1, TotalSame
<1>3. Total(f, S) = Total(f, R) + f[k] /\ Total(f, R) \in Nat /\ f[k] \in Nat
  BY <1>1, TotalSplit
<1>4. Total(g, S) = Total(g, R) + g[k] /\ g[k] \in Nat
  BY <1>1, TotalSplit
<1> QED
  BY <1>2, <1>3, <1>4

\* What the calls of a cell hold is the sum of their charges.
LEMMA HeldTotal ==
    ASSUME NEW k
    PROVE  Cardinality(Held(k)) = Total([c \in Calls |-> Charge(c)], Users(k))
<1>1. Held(k) = Units([c \in Calls |-> Charge(c)], Users(k))
  BY DEF Held, Units, Users
<1> QED
  BY <1>1 DEF Total

\* A cell has finitely many calls.
LEMMA UsersFinite ==
    ASSUME NEW k
    PROVE  IsFiniteSet(Users(k)) /\ Users(k) \subseteq Calls
BY SandboxAssumption, FS_Subset DEF SandboxAssumption, Users

-----------------------------------------------------------------------------
(* Operations and rows.                                                      *)

\* The items of a call that has started.
LEMMA OpFacts ==
    ASSUME NEW c \in Calls, NEW o \in Ops[c]
    PROVE  /\ o.kind \in CallKinds \cup {"batch"} /\ o.items \in Seq(Item) /\ Len(o.items) \in Nat \ {0}
           /\ DOMAIN o.items = 1 .. Len(o.items) /\ 1 \in DOMAIN o.items /\ WellFormed(o)
<1>1. o \in Operation /\ WellFormed(o)
  BY SandboxAssumption DEF SandboxAssumption
<1>2. o.kind \in CallKinds \cup {"batch"} /\ o.items \in Seq(Item)
  BY <1>1 DEF Operation
<1>3. Len(o.items) > 0
  BY <1>1 DEF WellFormed
<1> QED
  BY <1>1, <1>2, <1>3

\* One of them: it names paths, and it is of the kind of the call.
LEMMA ItemFacts ==
    ASSUME NEW c \in Calls, NEW o \in Ops[c], NEW i \in DOMAIN o.items
    PROVE  /\ o.items[i].k \in PatchKinds \cup CallKinds /\ o.items[i].p \in Paths /\ o.items[i].to \in Paths
           /\ o.items[i].k \in Moving <=> o.items[i].p # o.items[i].to
           /\ o.kind = "batch" => o.items[i].k \in PatchKinds
           /\ o.kind # "batch" => o.items[i].k = o.kind /\ i = 1 /\ Len(o.items) = 1
           /\ i \in 1 .. Len(o.items)
<1>1. /\ o.items \in Seq(Item) /\ WellFormed(o) /\ DOMAIN o.items = 1 .. Len(o.items)
      /\ o.kind \in CallKinds \cup {"batch"}
  BY OpFacts
<1>2. o.items[i] \in Item
  BY <1>1
<1>3. o.items[i].k \in PatchKinds \cup CallKinds /\ o.items[i].p \in Paths /\ o.items[i].to \in Paths
  BY <1>2 DEF Item
<1>4. ASSUME o.kind # "batch"
      PROVE  o.items[i].k = o.kind /\ i = 1 /\ Len(o.items) = 1
  <2>1. Len(o.items) = 1 /\ o.items[1].k = o.kind
    BY <1>1, <1>4 DEF WellFormed
  <2>2. i = 1
    BY <1>1, <2>1
  <2> QED
    BY <2>1, <2>2
<1> QED
  BY <1>1, <1>3, <1>4 DEF WellFormed

\* Two items of a patch have nothing in common.
LEMMA ItemsApart ==
    ASSUME NEW c \in Calls, NEW o \in Ops[c], o.kind = "batch",
           NEW i \in DOMAIN o.items, NEW j \in DOMAIN o.items, i # j
    PROVE  /\ o.items[i].p # o.items[j].p /\ o.items[i].p # o.items[j].to
           /\ o.items[i].to # o.items[j].p /\ o.items[i].to # o.items[j].to
<1>1. {o.items[i].p, o.items[i].to} \cap {o.items[j].p, o.items[j].to} = {}
  BY OpFacts DEF WellFormed
<1> QED
  BY <1>1

\* A cell of a table of tables is replaced.
LEMMA RowSet ==
    ASSUME NEW C, NEW P, NEW V, NEW f \in [C -> [P -> V]], NEW c \in C, NEW p \in P, NEW v \in V,
           NEW g, g = [f EXCEPT ![c][p] = v]
    PROVE  /\ g \in [C -> [P -> V]] /\ g[c][p] = v
           /\ \A q \in P : q # p => g[c][q] = f[c][q]
           /\ \A d \in C : d # c => g[d] = f[d]
<1>1. f[c] \in [P -> V]
  OBVIOUS
<1>2. [f[c] EXCEPT ![p] = v] \in [P -> V]
  BY <1>1
<1>3. g = [f EXCEPT ![c] = [f[c] EXCEPT ![p] = v]]
  OBVIOUS
<1>4. g[c] = [f[c] EXCEPT ![p] = v]
  BY <1>3
<1>5. \A d \in C : d # c => g[d] = f[d]
  BY <1>3
<1>6. g \in [C -> [P -> V]]
  BY <1>2, <1>3
<1> QED
  BY <1>1, <1>4, <1>5, <1>6

\* The call's own state.
SameRow(d) ==
    /\ pc'[d] = pc[d] /\ op'[d] = op[d] /\ item'[d] = item[d] /\ tries'[d] = tries[d]
    /\ saw'[d] = saw[d] /\ pin'[d] = pin[d] /\ before'[d] = before[d] /\ bytes'[d] = bytes[d]

\* What a step of c may do to the rest: the other calls stay where they are, a
\* file it changes gets a new revision or goes away, and whoever has that path
\* is disturbed.
Frame(c) ==
    /\ backend' = backend /\ revision' >= revision
    /\ \A d \in Calls \ {c} : SameRow(d)
    /\ \A p \in Paths : files'[p] = files[p] \/ files'[p].rev > revision \/ files'[p] = Missing
    /\ \A d \in Calls \ {c} :
          /\ disturbed[d] => disturbed'[d]
          /\ ~disturbed'[d] => \A p \in PathsOf(d) : files'[p] = files[p]

\* A path of an item is a path of the call.
LEMMA ItemPaths ==
    ASSUME NEW c, NEW i \in DOMAIN Items(c)
    PROVE  Items(c)[i].p \in PathsOf(c) /\ Items(c)[i].to \in PathsOf(c)
BY DEF PathsOf

\* The other calls keep their part of the invariant.
LEMMA Bystander ==
    ASSUME TypeOK, TypeOK', NEW c \in Calls, NEW d \in Calls, d # c, Frame(c), CallInv(d)
    PROVE  CallInv(d)'
<1>1. /\ SameRow(d) /\ backend' = backend /\ revision' >= revision
      /\ \A p \in Paths : files'[p] = files[p] \/ files'[p].rev > revision \/ files'[p] = Missing
      /\ disturbed[d] => disturbed'[d]
      /\ ~disturbed'[d] => \A p \in PathsOf(d) : files'[p] = files[p]
  BY DEF Frame
<1>2. Items(d)' = Items(d) /\ Here(d)' = Here(d)
  BY <1>1 DEF SameRow, Items, Here
<1>3. StageInv(d)'
  BY <1>1, <1>2 DEF SameRow, CallInv, StageInv
<1>4. HoldInv(d)'
  <2>1. Adding(d)' = Adding(d)
    BY <1>2 DEF Adding
  <2> QED
    BY <1>1, <2>1 DEF SameRow, CallInv, HoldInv
<1>5. LinkInv(d)'
  <2>1. \A p \in Paths : pin[d][p] <= revision /\ pin[d][p] \in Nat /\ revision \in Nat /\ revision' \in Nat
    BY DEF CallInv, LinkInv, TypeOK
  <2>2. ASSUME NEW p \in Paths, Linked(d, p)
        PROVE  Linked(d, p)'
    <3>1. pin[d][p] > 0 /\ pin[d][p] = files'[p].rev => files'[p] = files[p]
      BY <1>1, <2>1 DEF Missing
    <3> QED
      BY <1>1, <2>2, <3>1 DEF SameRow, Linked
  <2>3. \A p \in Paths : pin'[d][p] <= revision'
    BY <1>1, <2>1 DEF SameRow
  <2>4. ASSUME pc[d] # "idle", NEW i \in DOMAIN Items(d)
        PROVE  Items(d)[i].p \in Paths
    BY <2>4, ItemFacts DEF TypeOK, Items
  <2>5. pc'[d] = pc[d] /\ item'[d] = item[d] /\ pin'[d] = pin[d] /\ saw'[d] = saw[d]
    BY <1>1 DEF SameRow
  <2>6. (pc[d] = "validate" /\ Here(d).k = "update" => pin[d][Here(d).p] > 0)'
    BY <1>2, <2>5 DEF CallInv, LinkInv
  <2>7. ASSUME NEW i \in DOMAIN Items(d), Items(d)[i].k = "update",
               pc[d] \in {"capture", "commit", "unknown"} \/ (pc[d] \in {"pin", "validate"} /\ i < item[d])
        PROVE  pin'[d][Items(d)[i].p] > 0 /\ Linked(d, Items(d)[i].p)'
    <3>1. Items(d)[i].p \in Paths
      BY <2>4, <2>7
    <3>2. pin[d][Items(d)[i].p] > 0 /\ Linked(d, Items(d)[i].p)
      BY <2>7 DEF CallInv, LinkInv
    <3> QED
      BY <1>2, <2>2, <2>5, <3>1, <3>2
  <2>8. ASSUME NEW i \in DOMAIN Items(d), Items(d)[i].k = "append", pc[d] \in {"again", "commit", "unknown"}
        PROVE  Linked(d, Items(d)[i].p)' /\ (pc'[d] # "again" /\ pin'[d][Items(d)[i].p] = 0 => saw'[d][Items(d)[i].p] = {})
    <3>1. Items(d)[i].p \in Paths
      BY <2>4, <2>8
    <3>2. Linked(d, Items(d)[i].p) /\ (pc[d] # "again" /\ pin[d][Items(d)[i].p] = 0 => saw[d][Items(d)[i].p] = {})
      BY <2>8 DEF CallInv, LinkInv
    <3> QED
      BY <1>2, <2>2, <2>5, <3>1, <3>2
  <2> QED
    BY <1>2, <2>3, <2>5, <2>6, <2>7, <2>8 DEF LinkInv
<1>6. UndoInv(d)'
  <2>1. ASSUME ~disturbed'[d], NEW i \in DOMAIN Items(d)
        PROVE  /\ OpenTo(d, Items(d)[i])' = OpenTo(d, Items(d)[i]) /\ SafeTo(d, Items(d)[i])' = SafeTo(d, Items(d)[i])
               /\ OpenFrom(d, Items(d)[i])' = OpenFrom(d, Items(d)[i]) /\ SafeFrom(d, Items(d)[i])' = SafeFrom(d, Items(d)[i])
    <3>1. files'[Items(d)[i].p] = files[Items(d)[i].p] /\ files'[Items(d)[i].to] = files[Items(d)[i].to]
      BY <1>1, <2>1, ItemPaths
    <3>2. before'[d] = before[d] /\ saw'[d] = saw[d]
      BY <1>1 DEF SameRow
    <3> QED
      BY <1>2, <3>1, <3>2 DEF OpenTo, SafeTo, OpenFrom, SafeFrom, Composed
  <2>2. \A i : UndoneTo(d, i)' = UndoneTo(d, i) /\ UndoneFrom(d, i)' = UndoneFrom(d, i)
    BY <1>1 DEF SameRow, UndoneTo, UndoneFrom
  <2>3. pc'[d] = pc[d] /\ op'[d] = op[d]
    BY <1>1 DEF SameRow
  <2>4. pc'[d] \in BatchStages \cup {"idle"} => disturbed'[d]
    BY <1>1, <2>3 DEF CallInv, UndoInv
  <2>5. ASSUME op'[d].kind = "batch", ~disturbed'[d], pc'[d] \in {"commit", "failed"} \cup HalfStages \cup UndoStages,
               NEW i \in DOMAIN Items(d)
        PROVE  /\ OpenTo(d, Items(d)[i])' /\ OpenFrom(d, Items(d)[i])'
               /\ UndoneTo(d, i)' => SafeTo(d, Items(d)[i])'
               /\ UndoneFrom(d, i)' => SafeFrom(d, Items(d)[i])'
    <3>1. /\ OpenTo(d, Items(d)[i]) /\ OpenFrom(d, Items(d)[i])
          /\ UndoneTo(d, i) => SafeTo(d, Items(d)[i])
          /\ UndoneFrom(d, i) => SafeFrom(d, Items(d)[i])
      BY <1>1, <2>3, <2>5 DEF CallInv, UndoInv
    <3> QED
      BY <2>1, <2>2, <2>5, <3>1
  <2> QED
    BY <1>2, <2>4, <2>5 DEF UndoInv
<1> QED
  BY <1>3, <1>4, <1>5, <1>6 DEF CallInv

-----------------------------------------------------------------------------
(* The parts of the invariant that concern everybody.                        *)

\* Only the calls in Frame's centre change their charge.
LEMMA ChargeFrame ==
    ASSUME NEW c \in Calls, Frame(c), NEW d \in Calls, d # c
    PROVE  Charge(d)' = Charge(d)
BY DEF Frame, SameRow, Charge

\* Charges are natural numbers.
LEMMA ChargeNat ==
    ASSUME TypeOK, NEW c \in Calls
    PROVE  Charge(c) \in Nat
BY DEF TypeOK, Charge

\* A budget that moves with the charge of the call balances.
LEMMA SumStep ==
    ASSUME TypeOK, TypeOK', NEW c \in Calls, Frame(c), SumInv,
           used'[Cell[c]] = used[Cell[c]] - Charge(c) + Charge(c)',
           \A k \in Cells \ {Cell[c]} : used'[k] = used[k],
           MaxBytes[Cell[c]] > 0 => used'[Cell[c]] <= MaxBytes[Cell[c]]
    PROVE  SumInv'
<1>1. PICK f : f = [d \in Calls |-> Charge(d)]
  OBVIOUS
<1>2. PICK g : g = [d \in Calls |-> Charge(d)']
  OBVIOUS
<1>3. \A d \in Calls : f[d] \in Nat /\ g[d] \in Nat
  <2>1. \A d \in Calls : Charge(d) \in Nat
    BY ChargeNat
  <2>2. \A d \in Calls : Charge(d)' \in Nat
    BY DEF TypeOK, Charge
  <2> QED
    BY <1>1, <1>2, <2>1, <2>2
<1>4. \A d \in Calls \ {c} : f[d] = g[d]
  BY <1>1, <1>2, ChargeFrame
<1>5. \A k \in Cells : Cardinality(Held(k)) = Total(f, Users(k))
  BY <1>1, HeldTotal
<1>6. ASSUME NEW k \in Cells
      PROVE  Cardinality(Held(k)') = Total(g, Users(k))
  <2>1. Held(k)' = Units(g, Users(k))
    BY <1>2 DEF Held, Units, Users
  <2> QED
    BY <2>1 DEF Total
<1>7. ASSUME NEW k \in Cells
      PROVE  (used[k] = Cardinality(Held(k)) /\ (MaxBytes[k] > 0 => used[k] <= MaxBytes[k]))'
  <2>1. used[k] = Total(f, Users(k)) /\ (MaxBytes[k] > 0 => used[k] <= MaxBytes[k])
    BY <1>5 DEF SumInv
  <2>2. IsFiniteSet(Users(k)) /\ Users(k) \subseteq Calls
    BY UsersFinite
  <2>3. CASE k = Cell[c]
    <3>1. c \in Users(k)
      BY <2>3 DEF Users
    <3>2. Total(g, Users(k)) = Total(f, Users(k)) - f[c] + g[c]
      BY <1>3, <1>4, <2>2, <3>1, TotalChange
    <3>3. f[c] = Charge(c) /\ g[c] = Charge(c)'
      BY <1>1, <1>2
    <3> QED
      BY <1>6, <2>1, <2>3, <3>2, <3>3
  <2>4. CASE k # Cell[c]
    <3>1. \A d \in Users(k) : f[d] = g[d]
      BY <1>4, <2>4 DEF Users
    <3>2. Total(g, Users(k)) = Total(f, Users(k))
      BY <3>1, TotalSame
    <3> QED
      BY <1>6, <2>1, <2>4, <3>2
  <2> QED
    BY <2>3, <2>4
<1> QED
  BY <1>7 DEF SumInv

\* Nothing is reserved or released.
LEMMA SumStays ==
    ASSUME TypeOK, TypeOK', NEW c \in Calls, Frame(c), SumInv, used' = used, Charge(c)' = Charge(c)
    PROVE  SumInv'
<1>1. Cell[c] \in Cells /\ used[Cell[c]] \in Nat /\ Charge(c) \in Nat
  BY ChargeNat, SandboxAssumption DEF SandboxAssumption, TypeOK
<1>2. MaxBytes[Cell[c]] > 0 => used'[Cell[c]] <= MaxBytes[Cell[c]]
  BY <1>1 DEF SumInv
<1> QED
  BY <1>1, <1>2, SumStep

\* A reservation that fits, by a call that holds nothing yet.
LEMMA SumReserve ==
    ASSUME TypeOK, TypeOK', NEW c \in Calls, Frame(c), SumInv, NEW n \in Nat,
           reserve_vfs_bytes(c, n), Fits(c, n), Charge(c) = 0, Charge(c)' = n
    PROVE  SumInv'
<1>1. Cell[c] \in Cells /\ used[Cell[c]] \in Nat /\ MaxBytes[Cell[c]] \in Nat /\ used \in [Cells -> Nat]
  BY SandboxAssumption DEF SandboxAssumption, TypeOK
<1>2. used'[Cell[c]] = used[Cell[c]] + n /\ \A k \in Cells \ {Cell[c]} : used'[k] = used[k]
  BY <1>1 DEF reserve_vfs_bytes
<1>3. MaxBytes[Cell[c]] > 0 => used'[Cell[c]] <= MaxBytes[Cell[c]]
  BY <1>1, <1>2 DEF Fits
<1> QED
  BY <1>1, <1>2, <1>3, SumStep

\* What a call holds is in the budget of its cell.
LEMMA HeldByCell ==
    ASSUME TypeOK, SumInv, NEW c \in Calls
    PROVE  used[Cell[c]] - Charge(c) \in Nat
<1>1. Cell[c] \in Cells /\ Charge(c) \in Nat /\ c \in Users(Cell[c])
  BY ChargeNat, SandboxAssumption DEF SandboxAssumption, TypeOK, Users
<1>2. PICK f : f = [d \in Calls |-> Charge(d)]
  OBVIOUS
<1>3. used[Cell[c]] = Total(f, Users(Cell[c]))
  BY <1>1, <1>2, HeldTotal DEF SumInv
<1>4. IsFiniteSet(Users(Cell[c])) /\ \A d \in Users(Cell[c]) : f[d] \in Nat
  BY <1>2, UsersFinite, ChargeNat
<1>5. Total(f, Users(Cell[c])) - f[c] \in Nat
  BY <1>1, <1>4, TotalChange
<1> QED
  BY <1>2, <1>3, <1>5

\* A reservation that is given back.
LEMMA SumRelease ==
    ASSUME TypeOK, TypeOK', NEW c \in Calls, Frame(c), SumInv,
           release_vfs_bytes(c), Charge(c) = bytes[c], Charge(c)' = 0
    PROVE  SumInv'
<1>1. Cell[c] \in Cells /\ used[Cell[c]] \in Nat /\ MaxBytes[Cell[c]] \in Nat /\ used \in [Cells -> Nat] /\ bytes[c] \in Nat
  BY SandboxAssumption DEF SandboxAssumption, TypeOK
<1>2. used'[Cell[c]] = used[Cell[c]] - bytes[c] /\ \A k \in Cells \ {Cell[c]} : used'[k] = used[k]
  BY <1>1 DEF release_vfs_bytes
<1>3. MaxBytes[Cell[c]] > 0 => used'[Cell[c]] <= MaxBytes[Cell[c]]
  BY <1>1, <1>2 DEF SumInv
<1> QED
  BY <1>1, <1>2, <1>3, SumStep

\* Bytes in the files and in what was read come from there, or from the call
\* that just committed and paid for them.
LEMMA OwnStep ==
    ASSUME TypeOK, TypeOK', NEW c \in Calls, Frame(c), OwnInv, pc[c] # "ok",
           backend = "atomic" => \A e \in Calls : \A p \in Paths :
              /\ e \in files'[p].data =>
                    \/ e = c /\ pc'[c] = "ok" /\ bytes'[c] > 0
                    \/ \E q \in Paths : e \in files[q].data \/ e \in saw[c][q]
              /\ e \in saw'[c][p] => \E q \in Paths : e \in files[q].data \/ e \in saw[c][q]
    PROVE  OwnInv'
<1> SUFFICES ASSUME backend = "atomic", NEW e \in Calls, NEW p \in Paths, NEW d \in Calls,
                    e \in files'[p].data \/ e \in saw'[d][p]
             PROVE  pc'[e] = "ok" /\ bytes'[e] > 0
  <2>1. backend' = backend
    BY DEF Frame
  <2> QED
    BY <2>1 DEF OwnInv
<1>1. \A x \in Calls \ {c} : SameRow(x)
  BY DEF Frame
<1>2. ASSUME \E q \in Paths : e \in files[q].data \/ \E x \in Calls : e \in saw[x][q]
      PROVE  pc'[e] = "ok" /\ bytes'[e] > 0
  <2>1. pc[e] = "ok" /\ bytes[e] > 0
    BY <1>2 DEF OwnInv
  <2>2. e # c
    BY <2>1
  <2> QED
    BY <1>1, <2>1, <2>2 DEF SameRow
<1>3. CASE e \in files'[p].data
  BY <1>2, <1>3
<1>4. CASE e \in saw'[d][p] /\ d = c
  BY <1>2, <1>4
<1>5. CASE e \in saw'[d][p] /\ d # c
  <2>1. saw'[d] = saw[d]
    BY <1>1, <1>5 DEF SameRow
  <2> QED
    BY <1>2, <1>5, <2>1
<1> QED
  BY <1>3, <1>4, <1>5

\* Nothing is written, and what the call reads is what is there.
LEMMA OwnStays ==
    ASSUME TypeOK, TypeOK', NEW c \in Calls, Frame(c), OwnInv, pc[c] # "ok", files' = files,
           \A p \in Paths : saw'[c][p] = saw[c][p] \/ saw'[c][p] = files[p].data
    PROVE  OwnInv'
BY OwnStep

\* The file system of a step that does not write.
Quiet(c) ==
    /\ files' = files /\ revision' = revision /\ backend' = backend
    /\ \A d \in Calls \ {c} : SameRow(d) /\ disturbed'[d] = disturbed[d]

\* Such a step stays in its frame.
LEMMA QuietFrame ==
    ASSUME TypeOK, NEW c \in Calls, Quiet(c)
    PROVE  Frame(c) /\ (FilesInv => FilesInv')
<1>1. revision \in Nat
  BY DEF TypeOK
<1>2. Frame(c)
  BY <1>1 DEF Quiet, Frame
<1> QED
  BY <1>2 DEF Quiet, FilesInv

\* A step keeps the invariant if it keeps the call's part and everybody's.
LEMMA StepDone ==
    ASSUME IInv, TypeOK', NEW c \in Calls, Frame(c), CallInv(c)', FilesInv', OwnInv', SumInv'
    PROVE  IInv'
<1>1. ASSUME NEW d \in Calls
      PROVE  CallInv(d)'
  BY Bystander DEF IInv
<1> QED
  BY <1>1 DEF IInv

-----------------------------------------------------------------------------
(* Steps that end a call, and steps of the plan.                             *)

\* An operation is one.
LEMMA OpType ==
    ASSUME NEW c \in Calls, NEW o \in Ops[c]
    PROVE  o \in Operation
BY SandboxAssumption DEF SandboxAssumption

\* Ending a call.
LEMMA EndTypes ==
    ASSUME TypeOK, NEW c \in Calls, NEW s \in Stages, End(c, s)
    PROVE  /\ pc' \in [Calls -> Stages] /\ lock' \in [Cells -> Calls \cup {None}]
           /\ pc'[c] = s /\ \A d \in Calls \ {c} : pc'[d] = pc[d]
<1>1. pc' = [pc EXCEPT ![c] = s] /\ pc \in [Calls -> Stages]
  BY DEF End, Goto, TypeOK
<1>2. lock' \in [Cells -> Calls \cup {None}]
  BY DEF End, TypeOK
<1> QED
  BY <1>1, <1>2

\* Moving on.
LEMMA GotoTypes ==
    ASSUME TypeOK, NEW c \in Calls, NEW s \in Stages, Goto(c, s)
    PROVE  /\ pc' \in [Calls -> Stages]
           /\ pc'[c] = s /\ \A d \in Calls \ {c} : pc'[d] = pc[d]
BY DEF Goto, TypeOK

\* The reservation is taken out of the budget it is in.
LEMMA ReleaseTypes ==
    ASSUME TypeOK, SumInv, NEW c \in Calls, release_vfs_bytes(c), Charge(c) = bytes[c]
    PROVE  used' \in [Cells -> Nat]
<1>1. used[Cell[c]] - bytes[c] \in Nat
  BY HeldByCell
<1> QED
  BY <1>1 DEF release_vfs_bytes, TypeOK

\* Stages in which a call holds its reservation and has changed nothing.
Holding == {"pin", "validate", "capture", "commit", "again"}

\* A failure before anything was changed gives the reservation back.
LEMMA FailReleasingStep ==
    ASSUME IInv, NEW c \in Calls, FailReleasing(c), backend' = backend, faults' \in 0 .. MaxFaults,
           pc[c] \in Holding \/ (pc[c] \in HalfStages /\ op[c].kind # "batch")
    PROVE  IInv'
<1>1. TypeOK /\ CallInv(c) /\ FilesInv /\ OwnInv /\ SumInv
  BY DEF IInv
<1>2. Charge(c) = bytes[c] /\ pc[c] # "idle"
  BY DEF Charge, Holding, HalfStages
<1>3. UNCHANGED <<bytes, op, item, tries, saw, pin, before, files, revision, disturbed>>
  BY DEF FailReleasing, local, fs
<1>4. /\ pc' \in [Calls -> Stages] /\ lock' \in [Cells -> Calls \cup {None}]
      /\ pc'[c] = "failed" /\ \A d \in Calls \ {c} : pc'[d] = pc[d]
  <2>1. End(c, "failed") /\ "failed" \in Stages
    BY DEF FailReleasing, Stages
  <2> QED
    BY <1>1, <2>1, EndTypes
<1>5. used' \in [Cells -> Nat]
  BY <1>1, <1>2, ReleaseTypes DEF FailReleasing
<1>6. TypeOK'
  BY <1>1, <1>2, <1>3, <1>4, <1>5 DEF TypeOK
<1>7. Quiet(c)
  BY <1>3, <1>4 DEF Quiet, SameRow
<1>8. Frame(c) /\ FilesInv'
  BY <1>1, <1>7, QuietFrame
<1>9. SumInv'
  <2>1. Charge(c)' = 0
    BY <1>4 DEF Charge
  <2> QED
    BY <1>1, <1>2, <1>6, <1>8, <2>1, SumRelease DEF FailReleasing
<1>10. OwnInv'
  BY <1>1, <1>3, <1>6, <1>8, OwnStays DEF Holding, HalfStages
<1>11. CallInv(c)'
  <2>1. StageInv(c)'
    BY <1>4 DEF StageInv, BatchStages, HalfStages, UndoStages, LostStages
  <2>2. HoldInv(c)'
    BY <1>4 DEF HoldInv
  <2>3. LinkInv(c)'
    BY <1>1, <1>3, <1>4 DEF CallInv, LinkInv
  <2>4. UndoInv(c)'
    <3> SUFFICES ASSUME op[c].kind = "batch", ~disturbed[c], NEW i \in DOMAIN Items(c)
                 PROVE  /\ OpenTo(c, Items(c)[i])' /\ OpenFrom(c, Items(c)[i])'
                        /\ SafeTo(c, Items(c)[i])' /\ SafeFrom(c, Items(c)[i])'
      BY <1>3, <1>4 DEF UndoInv, BatchStages, Items
    <3>1. pc[c] \in {"pin", "validate", "capture", "commit"}
      BY <1>1 DEF CallInv, StageInv, Holding
    <3>2. pc[c] = "commit"
      BY <1>1, <3>1 DEF CallInv, UndoInv, BatchStages
    <3>3. SafeTo(c, Items(c)[i]) /\ SafeFrom(c, Items(c)[i])
      BY <1>1, <3>2 DEF CallInv, UndoInv, UndoneTo, UndoneFrom
    <3> QED
      BY <1>3, <3>3 DEF SafeTo, SafeFrom, OpenTo, OpenFrom, Items
  <2> QED
    BY <2>1, <2>2, <2>3, <2>4 DEF CallInv
<1> QED
  BY <1>6, <1>8, <1>9, <1>10, <1>11, StepDone

\* A call that fails before it reserved anything.
LEMMA FailEarlyStep ==
    ASSUME IInv, NEW c \in Calls, pc[c] \in {"plan", "lock", "inspect", "copy"}, Goto(c, "failed"),
           UNCHANGED <<backend, files, revision, used, lock, op, item, tries, saw, pin, before, bytes, disturbed, faults>>
    PROVE  IInv'
<1>1. TypeOK /\ CallInv(c) /\ FilesInv /\ OwnInv /\ SumInv
  BY DEF IInv
<1>2. /\ pc' \in [Calls -> Stages]
      /\ pc'[c] = "failed" /\ \A d \in Calls \ {c} : pc'[d] = pc[d]
  <2>1. "failed" \in Stages
    BY DEF Stages
  <2> QED
    BY <1>1, <2>1, GotoTypes
<1>3. TypeOK'
  BY <1>1, <1>2 DEF TypeOK
<1>4. Frame(c) /\ FilesInv'
  <2>1. Quiet(c)
    BY <1>2 DEF Quiet, SameRow
  <2> QED
    BY <1>1, <2>1, QuietFrame
<1>5. SumInv'
  <2>1. Charge(c)' = Charge(c)
    BY <1>1, <1>2 DEF Charge, CallInv, HoldInv
  <2> QED
    BY <1>1, <1>3, <1>4, <2>1, SumStays
<1>6. OwnInv'
  BY <1>1, <1>3, <1>4, OwnStays
<1>7. CallInv(c)'
  <2>1. StageInv(c)'
    BY <1>2 DEF StageInv, BatchStages, HalfStages, UndoStages, LostStages
  <2>2. HoldInv(c)'
    BY <1>2 DEF HoldInv
  <2>3. LinkInv(c)'
    BY <1>1, <1>2 DEF CallInv, LinkInv
  <2>4. UndoInv(c)'
    BY <1>1, <1>2 DEF CallInv, UndoInv, StageInv, BatchStages
  <2> QED
    BY <2>1, <2>2, <2>3, <2>4 DEF CallInv
<1> QED
  BY <1>3, <1>4, <1>5, <1>6, <1>7, StepDone

\* A step that writes nothing and reserves nothing.
LEMMA QuietStep ==
    ASSUME IInv, TypeOK', NEW c \in Calls, Quiet(c), pc[c] # "ok", used' = used, Charge(c)' = Charge(c),
           \A p \in Paths : saw'[c][p] = saw[c][p] \/ saw'[c][p] = files[p].data,
           CallInv(c)'
    PROVE  IInv'
<1>1. TypeOK /\ FilesInv /\ OwnInv /\ SumInv
  BY DEF IInv
<1>2. Frame(c) /\ FilesInv'
  BY <1>1, QuietFrame
<1>3. SumInv'
  BY <1>1, <1>2, SumStays
<1>4. OwnInv'
  BY <1>1, <1>2, OwnStays DEF Quiet
<1> QED
  BY <1>2, <1>3, <1>4, StepDone

\* A step that writes nothing and reserves what fits.
LEMMA QuietReserve ==
    ASSUME IInv, TypeOK', NEW c \in Calls, Quiet(c), pc[c] # "ok",
           NEW n \in Nat, reserve_vfs_bytes(c, n), Fits(c, n), Charge(c) = 0, Charge(c)' = n,
           \A p \in Paths : saw'[c][p] = saw[c][p] \/ saw'[c][p] = files[p].data,
           CallInv(c)'
    PROVE  IInv'
<1>1. TypeOK /\ FilesInv /\ OwnInv /\ SumInv
  BY DEF IInv
<1>2. Frame(c) /\ FilesInv'
  BY <1>1, QuietFrame
<1>3. SumInv'
  BY <1>1, <1>2, SumReserve
<1>4. OwnInv'
  BY <1>1, <1>2, OwnStays DEF Quiet
<1> QED
  BY <1>2, <1>3, <1>4, StepDone

\* A reservation is natural.
LEMMA ReserveTypes ==
    ASSUME TypeOK, NEW c \in Calls, NEW n \in Nat, reserve_vfs_bytes(c, n)
    PROVE  /\ used' \in [Cells -> Nat] /\ bytes' \in [Calls -> Nat]
           /\ bytes'[c] = n /\ \A d \in Calls \ {c} : bytes'[d] = bytes[d]
<1>1. Cell[c] \in Cells /\ used \in [Cells -> Nat] /\ bytes \in [Calls -> Nat]
  BY SandboxAssumption DEF SandboxAssumption, TypeOK
<1>2. used[Cell[c]] + n \in Nat
  BY <1>1
<1>3. used' = [used EXCEPT ![Cell[c]] = used[Cell[c]] + n] /\ bytes' = [bytes EXCEPT ![c] = n]
  BY DEF reserve_vfs_bytes
<1>4. used' \in [Cells -> Nat]
  BY <1>1, <1>2, <1>3
<1> QED
  BY <1>1, <1>3, <1>4

\* A batch starts.
LEMMA StartBatchStep ==
    ASSUME IInv, NEW c \in Calls, NEW o \in Ops[c], StartBatch(c, o)
    PROVE  IInv'
<1>1. TypeOK /\ CallInv(c) /\ pc[c] = "idle" /\ o.kind = "batch"
  BY DEF IInv, StartBatch
<1>2. UNCHANGED <<backend, tries, used, lock, item, saw, pin, before, bytes, files, revision, disturbed, faults>>
  BY DEF StartBatch, fs
<1>3. /\ pc' \in [Calls -> Stages]
      /\ pc'[c] = "plan" /\ \A d \in Calls \ {c} : pc'[d] = pc[d]
  <2>1. "plan" \in Stages /\ Goto(c, "plan")
    BY DEF Stages, StartBatch
  <2> QED
    BY <1>1, <2>1, GotoTypes
<1>4. /\ op' \in [Calls -> Operation \cup {NoOperation}]
      /\ op'[c] = o /\ \A d \in Calls \ {c} : op'[d] = op[d]
  BY <1>1, OpType DEF StartBatch, TypeOK
<1>5. TypeOK'
  BY <1>1, <1>2, <1>3, <1>4 DEF TypeOK
<1>6. Quiet(c)
  BY <1>2, <1>3, <1>4 DEF Quiet, SameRow
<1>7. Charge(c)' = Charge(c)
  BY <1>1, <1>2, <1>3 DEF Charge
<1>8. CallInv(c)'
  <2>1. StageInv(c)'
    <3>1. item[c] = 1
      BY <1>1 DEF CallInv, StageInv
    <3>2. Items(c)' = o.items /\ Len(o.items) \in Nat \ {0}
      BY <1>4, OpFacts DEF Items
    <3>3. item'[c] \in 1 .. Len(o.items)
      BY <1>2, <3>1, <3>2
    <3> QED
      BY <1>1, <1>3, <1>4, <3>2, <3>3 DEF StageInv, BatchStages, HalfStages, UndoStages, LostStages
  <2>2. HoldInv(c)'
    BY <1>1, <1>2, <1>3 DEF CallInv, HoldInv
  <2>3. LinkInv(c)'
    BY <1>1, <1>2, <1>3 DEF CallInv, LinkInv
  <2>4. UndoInv(c)'
    BY <1>1, <1>2, <1>3 DEF CallInv, UndoInv, HalfStages, UndoStages, LostStages
  <2> QED
    BY <2>1, <2>2, <2>3, <2>4 DEF CallInv
<1> QED
  BY <1>1, <1>2, <1>5, <1>6, <1>7, <1>8, QuietStep

\* The item a call is at.
LEMMA HereFacts ==
    ASSUME TypeOK, NEW c \in Calls, pc[c] # "idle", item[c] \in 1 .. Len(Items(c))
    PROVE  /\ Here(c).k \in PatchKinds \cup CallKinds /\ Here(c).p \in Paths /\ Here(c).to \in Paths
           /\ Here(c).k \in Moving <=> Here(c).p # Here(c).to
           /\ op[c].kind = "batch" => Here(c).k \in PatchKinds
           /\ op[c].kind # "batch" => Here(c).k = op[c].kind /\ Len(Items(c)) = 1
           /\ item[c] \in DOMAIN Items(c)
<1>1. op[c] \in Ops[c]
  BY DEF TypeOK
<1>2. item[c] \in DOMAIN op[c].items
  BY <1>1, OpFacts DEF Items
<1> QED
  BY <1>1, <1>2, ItemFacts DEF Here, Items

\* What a file holds.
LEMMA FileData ==
    ASSUME TypeOK, NEW p \in Paths
    PROVE  files[p].data \in Bytes /\ files[p].rev \in Nat
BY DEF TypeOK

\* An item of a patch is planned.
LEMMA PlanItemStep ==
    ASSUME IInv, NEW c \in Calls, PlanItem(c)
    PROVE  IInv'
<1> DEFINE it == Here(c)
           last == item[c] = Len(Items(c))
<1>1. TypeOK /\ CallInv(c) /\ pc[c] = "plan" /\ op[c].kind = "batch" /\ item[c] \in 1 .. Len(Items(c))
  BY DEF IInv, PlanItem, CallInv, StageInv, BatchStages
<1>2. UNCHANGED <<backend, tries, used, lock, op, pin, before, bytes, files, revision, disturbed, faults>>
  BY DEF PlanItem, fs
<1>3. CASE Goto(c, "failed") /\ UNCHANGED <<saw, item>>
  BY <1>1, <1>2, <1>3, FailEarlyStep
<1>4. CASE /\ saw' = IF it.k \in {"update", "rewrite"} THEN [saw EXCEPT ![c][it.p] = files[it.p].data] ELSE saw
           /\ item' = [item EXCEPT ![c] = IF last THEN 1 ELSE @ + 1]
           /\ pc' = [pc EXCEPT ![c] = IF last THEN "lock" ELSE "plan"]
  <2>1. /\ pc' \in [Calls -> Stages] /\ pc'[c] = (IF last THEN "lock" ELSE "plan")
        /\ \A d \in Calls \ {c} : pc'[d] = pc[d]
    BY <1>1, <1>4 DEF TypeOK, Stages
  <2>2. /\ item' \in [Calls -> Nat] /\ item'[c] = (IF last THEN 1 ELSE item[c] + 1)
        /\ \A d \in Calls \ {c} : item'[d] = item[d]
    BY <1>1, <1>4 DEF TypeOK
  <2>3. /\ saw' \in [Calls -> [Paths -> Bytes]]
        /\ \A d \in Calls \ {c} : saw'[d] = saw[d]
        /\ \A p \in Paths : saw'[c][p] = saw[c][p] \/ saw'[c][p] = files[p].data
    <3>1. it.p \in Paths /\ files[it.p].data \in Bytes /\ saw \in [Calls -> [Paths -> Bytes]]
      BY <1>1, HereFacts, FileData DEF TypeOK
    <3>2. CASE saw' = saw
      BY <3>1, <3>2
    <3>3. CASE saw' = [saw EXCEPT ![c][it.p] = files[it.p].data]
      <4> HIDE DEF it
      <4>1. /\ saw' \in [Calls -> [Paths -> Bytes]] /\ saw'[c][it.p] = files[it.p].data
            /\ \A q \in Paths : q # it.p => saw'[c][q] = saw[c][q]
            /\ \A d \in Calls : d # c => saw'[d] = saw[d]
        BY <3>1, <3>3, RowSet
      <4> QED
        BY <4>1
    <3> QED
      BY <1>4, <3>2, <3>3
  <2>4. TypeOK'
    BY <1>1, <1>2, <2>1, <2>2, <2>3 DEF TypeOK
  <2>5. Quiet(c)
    BY <1>2, <2>1, <2>2, <2>3 DEF Quiet, SameRow
  <2>6. Charge(c)' = Charge(c)
    BY <1>1, <1>2, <2>1 DEF Charge
  <2>7. StageInv(c)'
    <3>1. Items(c)' = Items(c)
      BY <1>2 DEF Items
    <3>2. ~last => item'[c] \in 1 .. Len(Items(c))
      <4>1. Len(Items(c)) \in Nat
        BY <1>1, OpFacts DEF TypeOK, Items
      <4> QED
        BY <1>1, <2>2, <4>1
    <3> QED
      BY <1>1, <1>2, <2>1, <2>2, <3>1, <3>2 DEF StageInv, BatchStages, HalfStages, UndoStages, LostStages
  <2>8. HoldInv(c)' /\ LinkInv(c)' /\ UndoInv(c)'
    <3>1. HoldInv(c)'
      BY <1>1, <1>2, <2>1 DEF CallInv, HoldInv
    <3>2. LinkInv(c)'
      BY <1>1, <1>2, <2>1 DEF CallInv, LinkInv
    <3>3. UndoInv(c)'
      BY <1>1, <1>2, <2>1 DEF CallInv, UndoInv, BatchStages, HalfStages, UndoStages, LostStages
    <3> QED
      BY <3>1, <3>2, <3>3
  <2> QED
    BY <1>1, <1>2, <2>3, <2>4, <2>5, <2>6, <2>7, <2>8, QuietStep DEF CallInv
<1> QED
  BY <1>3, <1>4 DEF PlanItem

-----------------------------------------------------------------------------
(* The batch under the lock.                                                 *)

\* Files and what is read from them are finite.
LEMMA BytesFinite ==
    ASSUME NEW b \in Bytes
    PROVE  IsFiniteSet(b) /\ Cardinality(b) \in Nat
<1>1. IsFiniteSet(Calls)
  BY SandboxAssumption DEF SandboxAssumption
<1>2. IsFiniteSet(Calls \cup {Seed})
  BY <1>1, FS_AddElement
<1>3. IsFiniteSet(b)
  BY <1>2, FS_Subset DEF Bytes
<1> QED
  BY <1>3, FS_CardinalityType

\* What an item writes.
LEMMA ComposedBytes ==
    ASSUME TypeOK, NEW c \in Calls, NEW it, it.p \in Paths
    PROVE  Composed(c, it) \in Bytes
BY DEF TypeOK, Composed, Bytes

\* write_bytes is a number, and not 0 if the call brings bytes of its own.
LEMMA WriteBytesNat ==
    ASSUME TypeOK, NEW c \in Calls, pc[c] # "idle"
    PROVE  WriteBytes(c) \in Nat /\ (op[c].kind = "batch" /\ Adding(c) => WriteBytes(c) > 0)
<1> DEFINE D == DOMAIN Items(c)
           g == [i \in D |-> {i} \X Charged(c, Items(c)[i])]
           U == UNION {g[i] : i \in D}
<1>1. op[c] \in Ops[c] /\ Items(c) = op[c].items /\ D = 1 .. Len(Items(c)) /\ Len(Items(c)) \in Nat
  BY OpFacts DEF TypeOK, Items
<1>2. ASSUME NEW i \in D
      PROVE  Charged(c, Items(c)[i]) \in Bytes
  <2>1. Items(c)[i].p \in Paths
    BY <1>1, <1>2, ItemFacts
  <2>2. Composed(c, Items(c)[i]) \in Bytes /\ files[Items(c)[i].p].data \in Bytes /\ {} \in Bytes
    BY <2>1, ComposedBytes, FileData DEF Bytes
  <2> QED
    BY <2>2 DEF Charged
<1>3. IsFiniteSet(D)
  BY <1>1, FS_Interval
<1>4. ASSUME NEW i \in D
      PROVE  IsFiniteSet(g[i])
  <2>1. IsFiniteSet({i}) /\ IsFiniteSet(Charged(c, Items(c)[i]))
    BY <1>2, <1>4, BytesFinite, FS_Singleton
  <2>2. IsFiniteSet({i} \X Charged(c, Items(c)[i]))
    BY <2>1, FS_Product
  <2> QED
    BY <1>4, <2>2
<1>5. IsFiniteSet(U)
  <2> HIDE DEF g, D
  <2> QED
    BY <1>3, <1>4, FiniteRows
<1>6. WriteBytes(c) = Cardinality(U)
  <2>1. UNION {{i} \X Charged(c, Items(c)[i]) : i \in D} = U
    OBVIOUS
  <2> QED
    BY <2>1 DEF WriteBytes
<1>7. ASSUME op[c].kind = "batch", Adding(c)
      PROVE  U # {}
  <2>1. PICK i \in D : Items(c)[i].k \in {"add", "update", "rewrite", "append", "write"}
    BY <1>7 DEF Adding
  <2>2. Items(c)[i].k \in {"add", "update", "rewrite"}
    BY <1>1, <1>7, <2>1, ItemFacts DEF PatchKinds
  <2>3. c \in Composed(c, Items(c)[i]) /\ Charged(c, Items(c)[i]) = Composed(c, Items(c)[i])
    BY <2>2 DEF Composed, Charged
  <2>4. <<i, c>> \in g[i]
    BY <2>3
  <2> QED
    BY <2>4
<1>8. Cardinality(U) \in Nat /\ (Cardinality(U) = 0 <=> U = {})
  <2> HIDE DEF U
  <2> QED
    BY <1>5, FS_CardinalityType, FS_EmptySet
<1> QED
  BY <1>6, <1>7, <1>8

\* A batch takes the lock and reserves what it will write.
LEMMA LockStep ==
    ASSUME IInv, NEW c \in Calls, Lock(c)
    PROVE  IInv'
<1> DEFINE n == WriteBytes(c)
<1>1. TypeOK /\ CallInv(c) /\ pc[c] = "lock" /\ op[c].kind = "batch" /\ item[c] = 1
  BY DEF IInv, Lock, CallInv, StageInv, BatchStages
<1>2. UNCHANGED <<backend, op, item, tries, saw, pin, before, files, revision, disturbed, faults>>
  BY DEF Lock, fs, local
<1>3. CASE Goto(c, "failed") /\ UNCHANGED <<used, bytes, lock>>
  BY <1>1, <1>2, <1>3, FailEarlyStep
<1>4. CASE /\ Fits(c, 0) /\ (n > 0 => Fits(c, n))
           /\ reserve_vfs_bytes(c, n) /\ lock' = [lock EXCEPT ![Cell[c]] = c] /\ Goto(c, "pin")
  <2>1. n \in Nat /\ (Adding(c) => n > 0)
    BY <1>1, WriteBytesNat
  <2> HIDE DEF n
  <2>2. Fits(c, n)
    <3>1. CASE n = 0
      BY <1>4, <3>1
    <3>2. CASE n # 0
      <4>1. n > 0
        BY <2>1, <3>2
      <4> QED
        BY <1>4, <4>1
    <3> QED
      BY <3>1, <3>2
  <2>3. /\ pc' \in [Calls -> Stages]
        /\ pc'[c] = "pin" /\ \A d \in Calls \ {c} : pc'[d] = pc[d]
    <3>1. "pin" \in Stages
      BY DEF Stages
    <3> QED
      BY <1>1, <1>4, <3>1, GotoTypes
  <2>4. /\ used' \in [Cells -> Nat] /\ bytes' \in [Calls -> Nat]
        /\ bytes'[c] = n /\ \A d \in Calls \ {c} : bytes'[d] = bytes[d]
    BY <1>1, <1>4, <2>1, ReserveTypes
  <2>5. lock' \in [Cells -> Calls \cup {None}]
    BY <1>1, <1>4 DEF TypeOK
  <2>6. TypeOK'
    BY <1>1, <1>2, <2>3, <2>4, <2>5 DEF TypeOK
  <2>7. Quiet(c)
    BY <1>2, <2>3, <2>4 DEF Quiet, SameRow
  <2>8. Charge(c) = 0 /\ Charge(c)' = n
    BY <1>1, <2>3, <2>4 DEF Charge, CallInv, HoldInv
  <2>9. Items(c)' = Items(c) /\ Adding(c)' = Adding(c)
    BY <1>2 DEF Items, Adding
  <2>10. StageInv(c)'
    <3>1. item'[c] \in 1 .. Len(Items(c))
      <4>1. Len(Items(c)) \in Nat \ {0}
        BY <1>1, OpFacts DEF TypeOK, Items
      <4> QED
        BY <1>1, <1>2, <4>1
    <3> QED
      BY <1>1, <1>2, <2>3, <2>9, <3>1 DEF StageInv, BatchStages, HalfStages, UndoStages, LostStages
  <2>11. HoldInv(c)'
    BY <2>1, <2>3, <2>4, <2>9 DEF HoldInv
  <2>12. LinkInv(c)'
    <3>1. \A i \in DOMAIN Items(c) : ~(i < item'[c])
      <4>1. DOMAIN Items(c) = 1 .. Len(Items(c)) /\ Len(Items(c)) \in Nat
        BY <1>1, OpFacts DEF TypeOK, Items
      <4> QED
        BY <1>1, <1>2, <4>1
    <3>2. \A p \in Paths : pin'[c][p] <= revision'
      BY <1>1, <1>2 DEF CallInv, LinkInv
    <3> QED
      BY <2>3, <2>9, <3>1, <3>2 DEF LinkInv
  <2>13. UndoInv(c)'
    BY <1>1, <1>2, <2>3 DEF CallInv, UndoInv, BatchStages, HalfStages, UndoStages, LostStages
  <2> QED
    BY <1>1, <1>2, <1>4, <2>1, <2>2, <2>6, <2>7, <2>8, <2>10, <2>11, <2>12, <2>13, QuietReserve DEF CallInv
<1> QED
  BY <1>3, <1>4 DEF Lock

\* An item pins the revision it will be checked against.
LEMMA PinItemStep ==
    ASSUME IInv, NEW c \in Calls, PinItem(c)
    PROVE  IInv'
<1> DEFINE it == Here(c)
<1>1. TypeOK /\ CallInv(c) /\ pc[c] = "pin" /\ op[c].kind = "batch" /\ item[c] \in 1 .. Len(Items(c))
  BY DEF IInv, PinItem, CallInv, StageInv, BatchStages
<1>2. UNCHANGED <<backend, faults>>
  BY DEF PinItem
<1>3. CASE FailReleasing(c)
  BY <1>1, <1>2, <1>3, FailReleasingStep DEF Holding, TypeOK
<1>4. CASE /\ it.k = "add" \/ Exists(it.p)
           /\ pin' = [pin EXCEPT ![c][it.p] = files[it.p].rev]
           /\ Goto(c, "validate")
           /\ UNCHANGED <<tries, used, lock, bytes, op, item, saw, before, fs>>
  <2>1. UNCHANGED <<tries, used, lock, bytes, op, item, saw, before, files, revision, disturbed>>
    BY <1>4 DEF fs
  <2>2. /\ pc' \in [Calls -> Stages]
        /\ pc'[c] = "validate" /\ \A d \in Calls \ {c} : pc'[d] = pc[d]
    <3>1. "validate" \in Stages
      BY DEF Stages
    <3> QED
      BY <1>1, <1>4, <3>1, GotoTypes
  <2>3. it.p \in Paths /\ files[it.p].rev \in Nat /\ item[c] \in DOMAIN Items(c)
    BY <1>1, HereFacts, FileData
  <2>4. /\ pin' \in [Calls -> [Paths -> Nat]] /\ pin'[c][it.p] = files[it.p].rev
        /\ \A q \in Paths : q # it.p => pin'[c][q] = pin[c][q]
        /\ \A d \in Calls : d # c => pin'[d] = pin[d]
    <3>1. pin \in [Calls -> [Paths -> Nat]]
      BY <1>1 DEF TypeOK
    <3> HIDE DEF it
    <3> QED
      BY <1>4, <2>3, <3>1, RowSet
  <2>5. TypeOK'
    BY <1>1, <1>2, <2>1, <2>2, <2>4 DEF TypeOK
  <2>6. Quiet(c)
    BY <1>2, <2>1, <2>2, <2>4 DEF Quiet, SameRow
  <2>7. Charge(c)' = Charge(c)
    BY <1>1, <2>1, <2>2 DEF Charge
  <2>8. Items(c)' = Items(c) /\ Here(c)' = it /\ Adding(c)' = Adding(c)
    BY <2>1 DEF Items, Adding, Here
  <2>9. StageInv(c)'
    BY <1>1, <1>2, <2>1, <2>2, <2>8 DEF StageInv, BatchStages, HalfStages, UndoStages, LostStages
  <2>10. HoldInv(c)'
    BY <1>1, <2>1, <2>2, <2>8 DEF CallInv, HoldInv
  <2>11. LinkInv(c)'
    <3>1. \A p \in Paths : pin'[c][p] <= revision'
      BY <1>1, <2>1, <2>3, <2>4 DEF CallInv, LinkInv, FilesInv, IInv
    <3>2. it.k = "update" => pin'[c][it.p] > 0
      BY <1>4, <2>4 DEF Exists
    <3>3. ASSUME NEW i \in DOMAIN Items(c), Items(c)[i].k = "update", i < item[c]
          PROVE  pin'[c][Items(c)[i].p] > 0 /\ Linked(c, Items(c)[i].p)'
      <4>1. pin[c][Items(c)[i].p] > 0 /\ Linked(c, Items(c)[i].p)
        BY <1>1, <3>3 DEF CallInv, LinkInv
      <4>2. i # item[c] /\ op[c] \in Ops[c]
        BY <1>1, <3>3 DEF TypeOK
      <4>3. Items(c)[i].p # it.p /\ Items(c)[i].p \in Paths
        BY <1>1, <2>3, <4>2, ItemsApart, ItemFacts DEF Items, Here
      <4>4. pin'[c][Items(c)[i].p] = pin[c][Items(c)[i].p]
        BY <2>4, <4>3
      <4> QED
        BY <2>1, <2>8, <4>1, <4>4 DEF Linked
    <3> QED
      BY <2>1, <2>2, <2>8, <3>1, <3>2, <3>3 DEF LinkInv
  <2>12. UndoInv(c)'
    BY <1>1, <2>1, <2>2 DEF CallInv, UndoInv, BatchStages, HalfStages, UndoStages, LostStages
  <2> QED
    BY <1>1, <2>1, <2>5, <2>6, <2>7, <2>9, <2>10, <2>11, <2>12, QuietStep DEF CallInv
<1> QED
  BY <1>3, <1>4 DEF PinItem

\* An item is checked against the files, and what it builds on is what was pinned.
LEMMA ValidateItemStep ==
    ASSUME IInv, NEW c \in Calls, ValidateItem(c)
    PROVE  IInv'
<1> DEFINE it == Here(c)
           last == item[c] = Len(Items(c))
<1>1. TypeOK /\ CallInv(c) /\ pc[c] = "validate" /\ op[c].kind = "batch" /\ item[c] \in 1 .. Len(Items(c))
  BY DEF IInv, ValidateItem, CallInv, StageInv, BatchStages
<1>2. UNCHANGED <<backend, faults>>
  BY DEF ValidateItem
<1>3. CASE FailReleasing(c)
  BY <1>1, <1>2, <1>3, FailReleasingStep DEF Holding, TypeOK
<1>4. CASE /\ Valid(c, it)
           /\ saw' = IF it.k = "move" THEN [saw EXCEPT ![c][it.p] = files[it.p].data] ELSE saw
           /\ item' = [item EXCEPT ![c] = IF last THEN 1 ELSE @ + 1]
           /\ pc' = [pc EXCEPT ![c] = IF last THEN "capture" ELSE "pin"]
           /\ UNCHANGED <<tries, used, lock, op, pin, before, bytes, fs>>
  <2>1. UNCHANGED <<tries, used, lock, op, pin, before, bytes, files, revision, disturbed>>
    BY <1>4 DEF fs
  <2>2. /\ pc' \in [Calls -> Stages] /\ pc'[c] = (IF last THEN "capture" ELSE "pin")
        /\ \A d \in Calls \ {c} : pc'[d] = pc[d]
    BY <1>1, <1>4 DEF TypeOK, Stages
  <2>3. /\ item' \in [Calls -> Nat] /\ item'[c] = (IF last THEN 1 ELSE item[c] + 1)
        /\ \A d \in Calls \ {c} : item'[d] = item[d]
    BY <1>1, <1>4 DEF TypeOK
  <2>4. it.p \in Paths /\ files[it.p].data \in Bytes /\ item[c] \in DOMAIN Items(c) /\ op[c] \in Ops[c]
    BY <1>1, HereFacts, FileData DEF TypeOK
  <2>5. /\ saw' \in [Calls -> [Paths -> Bytes]]
        /\ \A d \in Calls \ {c} : saw'[d] = saw[d]
        /\ it.k # "move" => saw' = saw
        /\ \A p \in Paths : saw'[c][p] = saw[c][p] \/ (p = it.p /\ saw'[c][p] = files[p].data)
    <3>1. saw \in [Calls -> [Paths -> Bytes]]
      BY <1>1 DEF TypeOK
    <3>2. CASE it.k # "move"
      BY <1>4, <3>1, <3>2
    <3>3. CASE it.k = "move"
      <4>1. saw' = [saw EXCEPT ![c][it.p] = files[it.p].data]
        BY <1>4, <3>3
      <4> HIDE DEF it
      <4>2. /\ saw' \in [Calls -> [Paths -> Bytes]] /\ saw'[c][it.p] = files[it.p].data
            /\ \A q \in Paths : q # it.p => saw'[c][q] = saw[c][q]
            /\ \A d \in Calls : d # c => saw'[d] = saw[d]
        BY <2>4, <3>1, <4>1, RowSet
      <4> QED
        BY <3>3, <4>2
    <3> QED
      BY <3>2, <3>3
  <2>6. TypeOK'
    BY <1>1, <1>2, <2>1, <2>2, <2>3, <2>5 DEF TypeOK
  <2>7. Quiet(c)
    BY <1>2, <2>1, <2>2, <2>3, <2>5 DEF Quiet, SameRow
  <2>8. Charge(c)' = Charge(c)
    BY <1>1, <2>1, <2>2 DEF Charge
  <2>9. Items(c)' = Items(c) /\ Adding(c)' = Adding(c)
    BY <2>1 DEF Items, Adding
  <2>10. DOMAIN Items(c) = 1 .. Len(Items(c)) /\ Len(Items(c)) \in Nat
    BY <2>4, OpFacts DEF Items
  <2>11. StageInv(c)'
    <3>1. ~last => item'[c] \in 1 .. Len(Items(c))
      BY <1>1, <2>3, <2>10
    <3> QED
      BY <1>1, <1>2, <2>1, <2>2, <2>3, <2>9, <3>1 DEF StageInv, BatchStages, HalfStages, UndoStages, LostStages
  <2>12. HoldInv(c)'
    BY <1>1, <2>1, <2>2, <2>9 DEF CallInv, HoldInv
  <2>13. LinkInv(c)'
    <3>1. \A p \in Paths : pin'[c][p] <= revision'
      BY <1>1, <2>1 DEF CallInv, LinkInv
    <3>2. ASSUME NEW i \in DOMAIN Items(c), Items(c)[i].k = "update", i <= item[c]
          PROVE  pin'[c][Items(c)[i].p] > 0 /\ Linked(c, Items(c)[i].p)'
      <4>1. CASE i = item[c]
        <5>1. Items(c)[i] = it /\ it.k = "update" /\ pin[c][it.p] > 0
          BY <1>1, <3>2, <4>1 DEF Here, CallInv, LinkInv
        <5>2. files[it.p].data = saw[c][it.p] /\ saw' = saw
          BY <1>4, <2>5, <5>1 DEF Valid
        <5> QED
          BY <2>1, <2>9, <5>1, <5>2 DEF Linked
      <4>2. CASE i # item[c]
        <5>1. i < item[c]
          BY <1>1, <2>10, <3>2, <4>2
        <5>2. pin[c][Items(c)[i].p] > 0 /\ Linked(c, Items(c)[i].p)
          BY <1>1, <3>2, <5>1 DEF CallInv, LinkInv
        <5>3. Items(c)[i].p # it.p /\ Items(c)[i].p \in Paths
          BY <1>1, <2>4, <4>2, ItemsApart, ItemFacts DEF Items, Here
        <5>4. saw'[c][Items(c)[i].p] = saw[c][Items(c)[i].p]
          BY <2>5, <5>3
        <5> QED
          BY <2>1, <2>9, <5>2, <5>4 DEF Linked
      <4> QED
        BY <4>1, <4>2
    <3>3. ASSUME NEW i \in DOMAIN Items(c), Items(c)[i].k = "update", last \/ i < item'[c]
          PROVE  i <= item[c]
      BY <1>1, <2>3, <2>10, <3>3
    <3> QED
      BY <2>1, <2>2, <2>9, <3>1, <3>2, <3>3 DEF LinkInv
  <2>14. UndoInv(c)'
    BY <1>1, <2>1, <2>2 DEF CallInv, UndoInv, BatchStages, HalfStages, UndoStages, LostStages
  <2> QED
    BY <1>1, <2>1, <2>5, <2>6, <2>7, <2>8, <2>11, <2>12, <2>13, <2>14, QuietStep DEF CallInv
<1> QED
  BY <1>3, <1>4 DEF ValidateItem

\* The stage a call goes to when it starts to write.
LEMMA ChosenStage ==
    ASSUME TypeOK, NEW c \in Calls, NEW o \in Ops[c]
    PROVE  /\ Chosen(o) \in Stages
           /\ \/ Chosen(o) = "commit" /\ backend = "atomic"
              \/ Chosen(o) = "writes" /\ backend = "hooked" /\ Writes(o.items[1])
              \/ Chosen(o) = "removes" /\ backend = "hooked" /\ Removes(o.items[1])
<1>1. o.items[1].k \in PatchKinds \cup CallKinds
  BY OpFacts, ItemFacts
<1>2. Writes(o.items[1]) \/ Removes(o.items[1])
  BY <1>1 DEF Writes, Removes
<1>3. backend \in {"atomic", "hooked"}
  BY SandboxAssumption DEF SandboxAssumption, TypeOK
<1> QED
  BY <1>2, <1>3 DEF Chosen, FirstHalf, Stages

\* The files are recorded before the first change.
LEMMA CaptureStep ==
    ASSUME IInv, NEW c \in Calls, Capture(c)
    PROVE  IInv'
<1>1. TypeOK /\ CallInv(c) /\ pc[c] = "capture" /\ op[c].kind = "batch" /\ item[c] = 1 /\ op[c] \in Ops[c]
  BY DEF IInv, Capture, CallInv, StageInv, BatchStages, TypeOK
<1>2. backend' = backend
  BY DEF Capture
<1>3. CASE Fault /\ FailReleasing(c)
  BY <1>1, <1>2, <1>3, FailReleasingStep, SandboxAssumption DEF Holding, TypeOK, Fault, SandboxAssumption
<1>4. CASE /\ before' = [before EXCEPT ![c] = [p \in Paths |-> files[p].data]]
           /\ disturbed' = [disturbed EXCEPT ![c] = FALSE]
           /\ Goto(c, Chosen(op[c]))
           /\ UNCHANGED <<tries, used, lock, op, item, saw, pin, bytes, files, revision, faults>>
  <2>1. /\ before' \in [Calls -> [Paths -> Bytes]] /\ before'[c] = [p \in Paths |-> files[p].data]
        /\ \A d \in Calls \ {c} : before'[d] = before[d]
    <3>1. [p \in Paths |-> files[p].data] \in [Paths -> Bytes]
      BY <1>1, FileData
    <3> QED
      BY <1>1, <1>4, <3>1 DEF TypeOK
  <2>2. /\ disturbed' \in [Calls -> BOOLEAN]
        /\ \A d \in Calls \ {c} : disturbed'[d] = disturbed[d]
    BY <1>1, <1>4 DEF TypeOK
  <2>3. /\ pc' \in [Calls -> Stages]
        /\ pc'[c] = Chosen(op[c]) /\ \A d \in Calls \ {c} : pc'[d] = pc[d]
    BY <1>1, <1>4, ChosenStage, GotoTypes
  <2>4. \/ pc'[c] = "commit" /\ backend = "atomic"
        \/ pc'[c] = "writes" /\ backend = "hooked" /\ Writes(Here(c))
        \/ pc'[c] = "removes" /\ backend = "hooked" /\ Removes(Here(c))
    BY <1>1, <2>3, ChosenStage DEF Here, Items
  <2>5. TypeOK'
    BY <1>1, <1>2, <1>4, <2>1, <2>2, <2>3 DEF TypeOK
  <2>6. Quiet(c)
    BY <1>2, <1>4, <2>1, <2>2, <2>3 DEF Quiet, SameRow
  <2>7. Charge(c)' = Charge(c)
    BY <1>1, <1>4, <2>4 DEF Charge
  <2>8. Items(c)' = Items(c) /\ Adding(c)' = Adding(c) /\ Here(c)' = Here(c)
    BY <1>4 DEF Items, Adding, Here
  <2>9. StageInv(c)'
    <3>1. item'[c] \in 1 .. Len(Items(c))
      <4>1. Len(Items(c)) \in Nat \ {0}
        BY <1>1, OpFacts DEF Items
      <4> QED
        BY <1>1, <1>4, <4>1
    <3>2. Writes(Here(c))' = Writes(Here(c)) /\ Removes(Here(c))' = Removes(Here(c))
      BY <2>8 DEF Writes, Removes
    <3> QED
      BY <1>1, <1>2, <1>4, <2>4, <2>8, <3>1, <3>2 DEF StageInv, BatchStages, HalfStages, UndoStages, LostStages
  <2>10. HoldInv(c)'
    BY <1>1, <1>4, <2>4, <2>8 DEF CallInv, HoldInv
  <2>11. LinkInv(c)'
    <3>1. \A p \in Paths : pin'[c][p] <= revision'
      BY <1>1, <1>4 DEF CallInv, LinkInv
    <3>2. ASSUME NEW i \in DOMAIN Items(c), Items(c)[i].k = "update"
          PROVE  pin'[c][Items(c)[i].p] > 0 /\ Linked(c, Items(c)[i].p)'
      <4>1. pin[c][Items(c)[i].p] > 0 /\ Linked(c, Items(c)[i].p)
        BY <1>1, <3>2 DEF CallInv, LinkInv
      <4> QED
        BY <1>4, <2>8, <4>1 DEF Linked
    <3>3. \A i \in DOMAIN Items(c) : Items(c)[i].k # "append"
      BY <1>1, ItemFacts DEF Items, PatchKinds
    <3> QED
      BY <2>4, <2>8, <3>1, <3>2, <3>3 DEF LinkInv
  <2>12. UndoInv(c)'
    <3>1. ASSUME NEW i \in DOMAIN Items(c)
          PROVE  /\ OpenTo(c, Items(c)[i])' /\ OpenFrom(c, Items(c)[i])'
                 /\ SafeTo(c, Items(c)[i])' /\ SafeFrom(c, Items(c)[i])'
      <4>1. Items(c)[i].p \in Paths /\ Items(c)[i].to \in Paths
        BY <1>1, <3>1, ItemFacts DEF Items
      <4>2. \A p \in Paths : before'[c][p] = files'[p].data
        BY <1>4, <2>1
      <4> QED
        BY <2>8, <4>1, <4>2 DEF OpenTo, OpenFrom, SafeTo, SafeFrom
    <3> QED
      BY <2>4, <2>8, <3>1 DEF UndoInv, BatchStages
  <2> QED
    BY <1>1, <1>4, <2>5, <2>6, <2>7, <2>9, <2>10, <2>11, <2>12, QuietStep DEF CallInv
<1> QED
  BY <1>3, <1>4 DEF Capture

-----------------------------------------------------------------------------
(* The calls of scripts.                                                     *)

\* A call has no rollback entries.
LEMMA CallUndo ==
    ASSUME NEW c \in Calls, op'[c].kind # "batch", pc'[c] \notin BatchStages \cup {"idle"}
    PROVE  UndoInv(c)'
BY DEF UndoInv

\* A call has one item, of its kind.
LEMMA CallItem ==
    ASSUME TypeOK, NEW c \in Calls, pc[c] # "idle", op[c].kind # "batch"
    PROVE  /\ op[c] \in Ops[c] /\ DOMAIN Items(c) = {1} /\ Len(Items(c)) = 1
           /\ Items(c)[1].k = op[c].kind /\ Items(c)[1].p \in Paths /\ Items(c)[1].to \in Paths
<1>1. op[c] \in Ops[c]
  BY DEF TypeOK
<1>2. 1 \in DOMAIN op[c].items /\ DOMAIN op[c].items = 1 .. Len(op[c].items)
  BY <1>1, OpFacts
<1> QED
  BY <1>1, <1>2, ItemFacts DEF Items

\* A call of a script starts and reserves its bytes.
LEMMA StartCallStep ==
    ASSUME IInv, NEW c \in Calls, NEW o \in Ops[c], StartCall(c, o)
    PROVE  IInv'
<1> DEFINE n == Reserved(o)
           s == CASE o.kind = "append" -> "observe"
                  [] o.kind = "rename" -> "inspect"
                  [] OTHER -> Chosen(o)
<1>1. TypeOK /\ CallInv(c) /\ pc[c] = "idle" /\ o.kind # "batch" /\ item[c] = 1 /\ bytes[c] = 0
  BY DEF IInv, StartCall, CallInv, StageInv, HoldInv
<1>2. UNCHANGED <<backend, tries, lock, item, saw, pin, before, files, revision, disturbed, faults>>
  BY DEF StartCall, fs
<1>3. /\ op' \in [Calls -> Operation \cup {NoOperation}]
      /\ op'[c] = o /\ \A d \in Calls \ {c} : op'[d] = op[d]
  BY <1>1, OpType DEF StartCall, TypeOK
<1>4. /\ o.kind \in CallKinds /\ DOMAIN o.items = {1} /\ Len(o.items) = 1 /\ o.items[1].k = o.kind
      /\ Items(c)' = o.items /\ Here(c)' = o.items[1]
  <2>1. o.kind \in CallKinds /\ 1 \in DOMAIN o.items /\ DOMAIN o.items = 1 .. Len(o.items)
    BY <1>1, OpFacts
  <2>2. Len(o.items) = 1 /\ o.items[1].k = o.kind
    BY <1>1, <2>1, ItemFacts
  <2> QED
    BY <1>1, <1>2, <1>3, <2>1, <2>2 DEF Items, Here
<1>5. \A p \in Paths : pin'[c][p] <= revision'
  BY <1>1, <1>2 DEF CallInv, LinkInv
<1>6. CASE Goto(c, "failed") /\ UNCHANGED <<used, bytes>>
  <2>1. /\ pc' \in [Calls -> Stages]
        /\ pc'[c] = "failed" /\ \A d \in Calls \ {c} : pc'[d] = pc[d]
    <3>1. "failed" \in Stages
      BY DEF Stages
    <3> QED
      BY <1>1, <1>6, <3>1, GotoTypes
  <2>2. TypeOK'
    BY <1>1, <1>2, <1>3, <1>6, <2>1 DEF TypeOK
  <2>3. Quiet(c)
    BY <1>2, <1>3, <1>6, <2>1 DEF Quiet, SameRow
  <2>4. Charge(c)' = Charge(c)
    BY <1>1, <1>6, <2>1 DEF Charge
  <2>5. StageInv(c)' /\ HoldInv(c)'
    BY <2>1 DEF StageInv, HoldInv, BatchStages, HalfStages, UndoStages, LostStages
  <2>6. LinkInv(c)'
    BY <1>5, <2>1 DEF LinkInv
  <2>7. UndoInv(c)'
    BY <1>1, <1>3, <2>1, CallUndo DEF BatchStages
  <2> QED
    BY <1>1, <1>2, <1>6, <2>2, <2>3, <2>4, <2>5, <2>6, <2>7, QuietStep DEF CallInv
<1>7. CASE Fits(c, n) /\ reserve_vfs_bytes(c, n) /\ Goto(c, s)
  <2>1. n \in Nat /\ (o.kind \in {"write", "append"} => n > 0) /\ (o.kind = "rename" => n = 0)
    BY DEF Reserved
  <2> HIDE DEF n
  <2>2. /\ s \in Stages
        /\ \/ s = "observe" /\ o.kind = "append"
           \/ s = "inspect" /\ o.kind = "rename"
           \/ s = "commit" /\ backend = "atomic" /\ o.kind \in {"write", "remove"}
           \/ s = "writes" /\ backend = "hooked" /\ Writes(o.items[1])
           \/ s = "removes" /\ backend = "hooked" /\ Removes(o.items[1])
    <3>1. CASE o.kind \in {"append", "rename"}
      BY <3>1 DEF Stages
    <3>2. CASE o.kind \in {"write", "remove"}
      <4>1. s = Chosen(o)
        BY <3>2
      <4> QED
        BY <1>1, <3>2, <4>1, ChosenStage
    <3> QED
      BY <1>4, <3>1, <3>2 DEF CallKinds
  <2> HIDE DEF s
  <2>3. /\ pc' \in [Calls -> Stages]
        /\ pc'[c] = s /\ \A d \in Calls \ {c} : pc'[d] = pc[d]
    BY <1>1, <1>7, <2>2, GotoTypes
  <2>4. /\ used' \in [Cells -> Nat] /\ bytes' \in [Calls -> Nat]
        /\ bytes'[c] = n /\ \A d \in Calls \ {c} : bytes'[d] = bytes[d]
    BY <1>1, <1>7, <2>1, ReserveTypes
  <2>5. TypeOK'
    BY <1>1, <1>2, <1>3, <2>3, <2>4 DEF TypeOK
  <2>6. Quiet(c)
    BY <1>2, <1>3, <2>3, <2>4 DEF Quiet, SameRow
  <2>7. Charge(c) = 0 /\ Charge(c)' = n
    BY <1>1, <2>2, <2>3, <2>4 DEF Charge
  <2>8. StageInv(c)'
    <3>1. item'[c] \in 1 .. Len(Items(c)')
      BY <1>1, <1>2, <1>4
    <3>2. Writes(Here(c))' = Writes(o.items[1]) /\ Removes(Here(c))' = Removes(o.items[1])
      BY <1>4 DEF Writes, Removes
    <3>3. backend' = backend /\ op'[c].kind = o.kind /\ item'[c] = 1
      BY <1>1, <1>2, <1>3
    <3> QED
      BY <2>2, <2>3, <3>1, <3>2, <3>3 DEF StageInv, BatchStages, HalfStages, UndoStages, LostStages
  <2>9. HoldInv(c)'
    <3>1. Adding(c)' => o.kind \in {"append", "write"}
      BY <1>4 DEF Adding, CallKinds
    <3> QED
      BY <2>1, <2>2, <2>3, <2>4, <3>1 DEF HoldInv
  <2>10. LinkInv(c)'
    BY <1>4, <1>5, <2>2, <2>3 DEF LinkInv, CallKinds
  <2>11. UndoInv(c)'
    BY <1>1, <1>3, <2>2, <2>3, CallUndo DEF BatchStages
  <2> QED
    BY <1>1, <1>2, <1>7, <2>1, <2>5, <2>6, <2>7, <2>8, <2>9, <2>10, <2>11, QuietReserve DEF CallInv
<1> QED
  BY <1>6, <1>7 DEF StartCall

\* A quiet step of a call that reserves nothing: where it goes, and what it
\* read and pinned.
LEMMA CallStep ==
    ASSUME IInv, NEW c \in Calls, NEW s \in Stages, Goto(c, s), pc[c] \notin {"ok", "idle"},
           UNCHANGED <<backend, used, lock, op, item, before, bytes, files, revision, disturbed, faults>>,
           op[c].kind # "batch",
           pc[c] \notin {"failed", "broken"} \cup UndoStages, s \notin {"failed", "broken", "idle"} \cup UndoStages \cup BatchStages,
           tries' \in [Calls -> {1, 2}], \A d \in Calls \ {c} : tries'[d] = tries[d],
           saw' \in [Calls -> [Paths -> Bytes]], \A d \in Calls \ {c} : saw'[d] = saw[d],
           pin' \in [Calls -> [Paths -> Nat]], \A d \in Calls \ {c} : pin'[d] = pin[d],
           \A p \in Paths : saw'[c][p] = saw[c][p] \/ saw'[c][p] = files[p].data,
           StageInv(c)', HoldInv(c)', LinkInv(c)'
    PROVE  IInv'
<1>1. TypeOK
  BY DEF IInv
<1>2. pc' \in [Calls -> Stages] /\ pc'[c] = s /\ \A d \in Calls \ {c} : pc'[d] = pc[d]
  BY <1>1, GotoTypes
<1>3. TypeOK'
  BY <1>1, <1>2 DEF TypeOK
<1>4. Quiet(c)
  BY <1>2 DEF Quiet, SameRow
<1>5. Charge(c)' = Charge(c)
  BY <1>2 DEF Charge, UndoStages
<1>6. UndoInv(c)'
  BY <1>2, CallUndo
<1> QED
  BY <1>3, <1>4, <1>5, <1>6, QuietStep DEF CallInv

\* An append pins a revision.
LEMMA ObserveStep ==
    ASSUME IInv, NEW c \in Calls, Observe(c)
    PROVE  IInv'
<1> DEFINE q == Items(c)[1].p
<1>1. TypeOK /\ CallInv(c) /\ pc[c] = "observe" /\ op[c].kind = "append" /\ item[c] = 1 /\ FilesInv
  BY DEF IInv, Observe, CallInv, StageInv
<1>2. UNCHANGED <<backend, tries, used, lock, op, item, saw, before, bytes, files, revision, disturbed, faults>>
  BY DEF Observe, fs
<1>3. q \in Paths /\ files[q].rev \in Nat /\ DOMAIN Items(c) = {1} /\ Items(c)[1].k = "append"
  BY <1>1, CallItem, FileData
<1>4. /\ pin' \in [Calls -> [Paths -> Nat]] /\ pin'[c][q] = files[q].rev
      /\ \A p \in Paths : p # q => pin'[c][p] = pin[c][p]
      /\ \A d \in Calls : d # c => pin'[d] = pin[d]
  <2>1. pin \in [Calls -> [Paths -> Nat]] /\ pin' = [pin EXCEPT ![c][q] = files[q].rev]
    BY <1>1 DEF TypeOK, Observe
  <2> HIDE DEF q
  <2> QED
    BY <1>3, <2>1, RowSet
<1>5. Goto(c, "read") /\ "read" \in Stages
  BY DEF Observe, Stages
<1>6. pc'[c] = "read"
  BY <1>1, <1>5, GotoTypes
<1>7. Items(c)' = Items(c) /\ Adding(c)' = Adding(c)
  BY <1>2 DEF Items, Adding
<1>8. StageInv(c)'
  BY <1>1, <1>2, <1>6 DEF StageInv, BatchStages, HalfStages, UndoStages, LostStages
<1>9. HoldInv(c)'
  BY <1>1, <1>2, <1>6, <1>7 DEF CallInv, HoldInv
<1>10. LinkInv(c)'
  <2>1. \A p \in Paths : pin'[c][p] <= revision'
    BY <1>1, <1>2, <1>3, <1>4 DEF CallInv, LinkInv, FilesInv
  <2> QED
    BY <1>6, <2>1 DEF LinkInv
<1>11. saw' \in [Calls -> [Paths -> Bytes]] /\ tries' \in [Calls -> {1, 2}]
  BY <1>1, <1>2 DEF TypeOK
<1> QED
  BY <1>1, <1>2, <1>4, <1>5, <1>8, <1>9, <1>10, <1>11, CallStep DEF UndoStages, LostStages, BatchStages

\* It reads the bytes.
LEMMA ReadFileStep ==
    ASSUME IInv, NEW c \in Calls, ReadFile(c)
    PROVE  IInv'
<1> DEFINE q == Items(c)[1].p
           s == IF Exists(q) THEN "again" ELSE Chosen(op[c])
<1>1. TypeOK /\ CallInv(c) /\ pc[c] = "read" /\ op[c].kind = "append" /\ item[c] = 1 /\ FilesInv
  BY DEF IInv, ReadFile, CallInv, StageInv
<1>2. UNCHANGED <<backend, tries, used, lock, op, item, before, bytes, files, revision, disturbed, faults>>
  BY DEF ReadFile, fs
<1>3. /\ q \in Paths /\ files[q].rev \in Nat /\ files[q].data \in Bytes /\ DOMAIN Items(c) = {1}
      /\ Items(c)[1].k = "append" /\ op[c] \in Ops[c] /\ Len(Items(c)) = 1
  BY <1>1, CallItem, FileData
<1>4. /\ saw' \in [Calls -> [Paths -> Bytes]] /\ saw'[c][q] = files[q].data
      /\ \A p \in Paths : p # q => saw'[c][p] = saw[c][p]
      /\ \A d \in Calls : d # c => saw'[d] = saw[d]
  <2>1. saw \in [Calls -> [Paths -> Bytes]] /\ saw' = [saw EXCEPT ![c][q] = files[q].data]
    BY <1>1 DEF TypeOK, ReadFile
  <2> HIDE DEF q
  <2> QED
    BY <1>3, <2>1, RowSet
<1>5. /\ pin' \in [Calls -> [Paths -> Nat]]
      /\ \A p \in Paths : pin'[c][p] = pin[c][p] \/ pin'[c][p] = 0
      /\ \A d \in Calls : d # c => pin'[d] = pin[d]
  <2>1. pin \in [Calls -> [Paths -> Nat]] /\ pin' = IF Exists(q) THEN pin ELSE [pin EXCEPT ![c][q] = 0]
    BY <1>1 DEF TypeOK, ReadFile
  <2>2. CASE Exists(q)
    BY <2>1, <2>2
  <2>3. CASE ~Exists(q)
    <3>1. pin' = [pin EXCEPT ![c][q] = 0]
      BY <2>1, <2>3
    <3> HIDE DEF q
    <3>2. /\ pin' \in [Calls -> [Paths -> Nat]] /\ pin'[c][q] = 0
          /\ \A p \in Paths : p # q => pin'[c][p] = pin[c][p]
          /\ \A d \in Calls : d # c => pin'[d] = pin[d]
      BY <1>3, <2>1, <3>1, RowSet
    <3> QED
      BY <3>2
  <2> QED
    BY <2>2, <2>3
<1>6. /\ Goto(c, s) /\ s \in Stages
      /\ \/ s = "again" /\ Exists(q)
         \/ s = "commit" /\ backend = "atomic" /\ ~Exists(q)
         \/ s = "writes" /\ backend = "hooked" /\ Writes(Items(c)[1])
  <2>1. Goto(c, s)
    BY DEF ReadFile
  <2>2. ~Removes(Items(c)[1])
    BY <1>3 DEF Removes, Moving
  <2>3. CASE Exists(q)
    BY <2>1, <2>3 DEF Stages
  <2>4. CASE ~Exists(q)
    <3>1. s = Chosen(op[c])
      BY <2>4
    <3> QED
      BY <1>1, <1>3, <2>1, <2>2, <2>4, <3>1, ChosenStage DEF Items
  <2> QED
    BY <2>3, <2>4
<1> HIDE DEF s
<1>7. pc'[c] = s
  BY <1>1, <1>6, GotoTypes
<1>8. Items(c)' = Items(c) /\ Adding(c)' = Adding(c) /\ Here(c)' = Items(c)[1]
  BY <1>1, <1>2 DEF Items, Adding, Here
<1>9. StageInv(c)'
  <2>1. item'[c] \in 1 .. Len(Items(c)')
    <3>1. item'[c] = 1 /\ Len(Items(c)') = 1
      BY <1>1, <1>2, <1>3, <1>8
    <3> QED
      BY <3>1
  <2>2. Writes(Here(c))' = Writes(Items(c)[1])
    BY <1>8 DEF Writes
  <2> QED
    BY <1>1, <1>2, <1>6, <1>7, <2>1, <2>2 DEF StageInv, BatchStages, HalfStages, UndoStages, LostStages
<1>10. HoldInv(c)'
  BY <1>1, <1>2, <1>6, <1>7, <1>8 DEF CallInv, HoldInv
<1>11. LinkInv(c)'
  <2>1. \A p \in Paths : pin'[c][p] <= revision'
    <3>1. revision \in Nat /\ \A p \in Paths : pin[c][p] <= revision
      BY <1>1 DEF CallInv, LinkInv, TypeOK
    <3> QED
      BY <1>2, <1>5, <3>1
  <2>2. (Linked(c, Items(c)[1].p))'
    BY <1>2, <1>3, <1>4, <1>8 DEF Linked
  <2>3. s = "commit" => saw'[c][q] = {}
    <3>1. ASSUME ~Exists(q)
          PROVE  files[q].data = {}
      BY <1>1, <1>3, <3>1 DEF Exists, FilesInv
    <3> QED
      BY <1>4, <1>6, <3>1
  <2> QED
    BY <1>3, <1>6, <1>7, <1>8, <2>1, <2>2, <2>3 DEF LinkInv
<1>12. tries' \in [Calls -> {1, 2}]
  BY <1>1, <1>2 DEF TypeOK
<1>13. \A p \in Paths : saw'[c][p] = saw[c][p] \/ saw'[c][p] = files[p].data
  BY <1>4
<1> QED
  BY <1>1, <1>2, <1>4, <1>5, <1>6, <1>9, <1>10, <1>11, <1>12, <1>13, CallStep DEF UndoStages, LostStages, BatchStages

\* An append that lost a race starts over once.
LEMMA RacedStep ==
    ASSUME IInv, NEW c \in Calls, Raced(c), pc[c] \in {"again", "commit"}, op[c].kind = "append", UNCHANGED <<backend, faults>>
    PROVE  IInv'
<1>1. TypeOK /\ CallInv(c) /\ item[c] = 1
  BY DEF IInv, CallInv, StageInv
<1>2. CASE FailReleasing(c)
  BY <1>1, <1>2, FailReleasingStep DEF Holding, TypeOK
<1>3. CASE /\ tries' = [tries EXCEPT ![c] = 2]
           /\ Goto(c, "observe")
           /\ UNCHANGED <<used, lock, op, item, saw, pin, before, bytes, fs>>
  <2>1. UNCHANGED <<used, lock, op, item, saw, pin, before, bytes, files, revision, disturbed>>
    BY <1>3 DEF fs
  <2>2. tries' \in [Calls -> {1, 2}] /\ \A d \in Calls \ {c} : tries'[d] = tries[d]
    BY <1>1, <1>3 DEF TypeOK
  <2>3. "observe" \in Stages /\ saw' \in [Calls -> [Paths -> Bytes]] /\ pin' \in [Calls -> [Paths -> Nat]]
    BY <1>1, <2>1 DEF Stages, TypeOK
  <2>4. pc'[c] = "observe"
    BY <1>1, <1>3, <2>3, GotoTypes
  <2>5. Adding(c)' = Adding(c)
    BY <2>1 DEF Adding, Items
  <2>6. StageInv(c)'
    BY <1>1, <2>1, <2>4 DEF StageInv, BatchStages, HalfStages, UndoStages, LostStages
  <2>7. HoldInv(c)'
    BY <1>1, <2>1, <2>4, <2>5 DEF CallInv, HoldInv
  <2>8. LinkInv(c)'
    BY <1>1, <2>1, <2>4 DEF CallInv, LinkInv
  <2> QED
    BY <1>1, <1>3, <2>1, <2>2, <2>3, <2>6, <2>7, <2>8, CallStep DEF UndoStages, LostStages, BatchStages
<1> QED
  BY <1>2, <1>3 DEF Raced

\* It looks at the revision again: unchanged, the bytes belong to it.
LEMMA ObserveAgainStep ==
    ASSUME IInv, NEW c \in Calls, ObserveAgain(c)
    PROVE  IInv'
<1> DEFINE q == Items(c)[1].p
<1>1. TypeOK /\ CallInv(c) /\ pc[c] = "again" /\ op[c].kind = "append" /\ item[c] = 1 /\ FilesInv /\ UNCHANGED <<backend, faults>>
  BY DEF IInv, ObserveAgain, CallInv, StageInv
<1>2. /\ q \in Paths /\ files[q].rev \in Nat /\ DOMAIN Items(c) = {1}
      /\ Items(c)[1].k = "append" /\ op[c] \in Ops[c] /\ Len(Items(c)) = 1
  BY <1>1, CallItem, FileData
<1>3. CASE Raced(c)
  BY <1>1, <1>3, RacedStep
<1>4. CASE /\ Stable(c, q)
           /\ Goto(c, Chosen(op[c]))
           /\ pin' = [pin EXCEPT ![c][q] = files[q].rev]
           /\ UNCHANGED <<tries, used, lock, op, item, saw, before, bytes, fs>>
  <2>1. UNCHANGED <<tries, used, lock, op, item, saw, before, bytes, files, revision, disturbed>>
    BY <1>4 DEF fs
  <2>2. /\ pin' \in [Calls -> [Paths -> Nat]] /\ pin'[c][q] = files[q].rev
        /\ \A p \in Paths : p # q => pin'[c][p] = pin[c][p]
        /\ \A d \in Calls : d # c => pin'[d] = pin[d]
    <3>1. pin \in [Calls -> [Paths -> Nat]]
      BY <1>1 DEF TypeOK
    <3> HIDE DEF q
    <3> QED
      BY <1>2, <1>4, <3>1, RowSet
  <2>3. pin'[c][q] = pin[c][q] /\ pin[c][q] > 0 /\ pin[c][q] = files[q].rev
    BY <1>4, <2>2 DEF Stable, Exists
  <2>4. /\ Chosen(op[c]) \in Stages
        /\ \/ Chosen(op[c]) = "commit" /\ backend = "atomic"
           \/ Chosen(op[c]) = "writes" /\ backend = "hooked" /\ Writes(Items(c)[1])
    <3>1. ~Removes(Items(c)[1])
      BY <1>2 DEF Removes, Moving
    <3> QED
      BY <1>1, <1>2, <3>1, ChosenStage DEF Items
  <2>5. pc'[c] = Chosen(op[c])
    BY <1>1, <1>4, <2>4, GotoTypes
  <2>6. Items(c)' = Items(c) /\ Adding(c)' = Adding(c) /\ Here(c)' = Items(c)[1]
    BY <1>1, <2>1 DEF Items, Adding, Here
  <2>7. StageInv(c)'
    <3>1. item'[c] \in 1 .. Len(Items(c)')
      <4>1. item'[c] = 1 /\ Len(Items(c)') = 1
        BY <1>1, <1>2, <2>1, <2>6
      <4> QED
        BY <4>1
    <3>2. Writes(Here(c))' = Writes(Items(c)[1])
      BY <2>6 DEF Writes
    <3> QED
      BY <1>1, <2>1, <2>4, <2>5, <3>1, <3>2 DEF StageInv, BatchStages, HalfStages, UndoStages, LostStages
  <2>8. HoldInv(c)'
    BY <1>1, <2>1, <2>4, <2>5, <2>6 DEF CallInv, HoldInv
  <2>9. LinkInv(c)'
    <3>1. \A p \in Paths : pin'[c][p] <= revision'
      BY <1>1, <1>2, <2>1, <2>2, <2>3 DEF CallInv, LinkInv
    <3>2. Linked(c, Items(c)[1].p)'
      <4>1. Linked(c, q)
        BY <1>1, <1>2 DEF CallInv, LinkInv
      <4> QED
        BY <2>1, <2>3, <2>6, <4>1 DEF Linked
    <3> QED
      BY <1>2, <2>3, <2>4, <2>5, <2>6, <3>1, <3>2 DEF LinkInv
  <2>10. saw' \in [Calls -> [Paths -> Bytes]] /\ tries' \in [Calls -> {1, 2}]
    BY <1>1, <2>1 DEF TypeOK
  <2> QED
    BY <1>1, <1>4, <2>1, <2>2, <2>4, <2>7, <2>8, <2>9, <2>10, CallStep DEF UndoStages, LostStages, BatchStages
<1> QED
  BY <1>3, <1>4 DEF ObserveAgain

\* A rename looks at its two ends.
LEMMA InspectStep ==
    ASSUME IInv, NEW c \in Calls, Inspect(c)
    PROVE  IInv'
<1> DEFINE it == Items(c)[1]
           q == IF pc[c] = "inspect" THEN it.p ELSE it.to
           s == IF pc[c] = "inspect" THEN "target" ELSE IF backend = "atomic" THEN "commit" ELSE "copy"
<1>1. TypeOK /\ CallInv(c) /\ pc[c] \in {"inspect", "target"} /\ op[c].kind = "rename" /\ item[c] = 1 /\ FilesInv
  BY DEF IInv, Inspect, CallInv, StageInv
<1>2. UNCHANGED <<backend, tries, used, lock, op, item, saw, before, bytes, files, revision, disturbed, faults>>
  BY DEF Inspect, fs
<1>3. q \in Paths /\ files[q].rev \in Nat /\ DOMAIN Items(c) = {1} /\ Items(c)[1].k = "rename"
  BY <1>1, CallItem, FileData
<1>4. CASE pc[c] = "inspect" /\ Goto(c, "failed") /\ UNCHANGED pin
  BY <1>1, <1>2, <1>4, FailEarlyStep
<1>5. CASE pin' = [pin EXCEPT ![c][q] = files[q].rev] /\ Goto(c, s)
  <2>1. /\ pin' \in [Calls -> [Paths -> Nat]] /\ pin'[c][q] = files[q].rev
        /\ \A p \in Paths : p # q => pin'[c][p] = pin[c][p]
        /\ \A d \in Calls : d # c => pin'[d] = pin[d]
    <3>1. pin \in [Calls -> [Paths -> Nat]]
      BY <1>1 DEF TypeOK
    <3> HIDE DEF q
    <3> QED
      BY <1>3, <1>5, <3>1, RowSet
  <2>2. /\ s \in Stages
        /\ s = "target" \/ (s = "commit" /\ backend = "atomic") \/ (s = "copy" /\ backend = "hooked")
    BY <1>1, SandboxAssumption DEF Stages, TypeOK, SandboxAssumption
  <2>3. pc'[c] = s
    <3> HIDE DEF s
    <3> QED
      BY <1>1, <1>5, <2>2, GotoTypes
  <2> HIDE DEF s, q
  <2>4. Items(c)' = Items(c)
    BY <1>2 DEF Items
  <2>5. StageInv(c)'
    BY <1>1, <1>2, <2>2, <2>3 DEF StageInv, BatchStages, HalfStages, UndoStages, LostStages
  <2>6. HoldInv(c)'
    <3>1. ~Adding(c)'
      BY <1>3, <2>4 DEF Adding
    <3> QED
      BY <1>1, <1>2, <2>2, <2>3, <3>1 DEF CallInv, HoldInv
  <2>7. LinkInv(c)'
    <3>1. \A p \in Paths : pin'[c][p] <= revision'
      BY <1>1, <1>2, <1>3, <2>1 DEF CallInv, LinkInv, FilesInv
    <3> QED
      BY <1>3, <2>2, <2>3, <2>4, <3>1 DEF LinkInv
  <2>8. saw' \in [Calls -> [Paths -> Bytes]] /\ tries' \in [Calls -> {1, 2}]
    BY <1>1, <1>2 DEF TypeOK
  <2> QED
    BY <1>1, <1>2, <1>5, <2>1, <2>2, <2>5, <2>6, <2>7, <2>8, CallStep DEF UndoStages, LostStages, BatchStages
<1> QED
  BY <1>4, <1>5 DEF Inspect

\* A rename without batches reads and reserves a copy.
LEMMA CopyStep ==
    ASSUME IInv, NEW c \in Calls, Copy(c)
    PROVE  IInv'
<1> DEFINE q == Items(c)[1].p
           n == Cardinality(files[q].data)
<1>1. /\ TypeOK /\ CallInv(c) /\ pc[c] = "copy" /\ op[c].kind = "rename" /\ item[c] = 1 /\ bytes[c] = 0
      /\ backend = "hooked"
  BY DEF IInv, Copy, CallInv, StageInv, HoldInv
<1>2. UNCHANGED <<backend, tries, lock, op, item, pin, before, files, revision, disturbed, faults>>
  BY DEF Copy, fs
<1>3. /\ q \in Paths /\ files[q].data \in Bytes /\ DOMAIN Items(c) = {1} /\ Items(c)[1].k = "rename"
      /\ Len(Items(c)) = 1
  BY <1>1, CallItem, FileData
<1>4. CASE Goto(c, "failed") /\ UNCHANGED <<saw, used, bytes>>
  BY <1>1, <1>2, <1>4, FailEarlyStep
<1>5. CASE /\ Fits(c, n)
           /\ saw' = [saw EXCEPT ![c][q] = files[q].data]
           /\ reserve_vfs_bytes(c, n)
           /\ Goto(c, "writes")
  <2>1. n \in Nat
    BY <1>3, BytesFinite
  <2>2. /\ saw' \in [Calls -> [Paths -> Bytes]] /\ saw'[c][q] = files[q].data
        /\ \A p \in Paths : p # q => saw'[c][p] = saw[c][p]
        /\ \A d \in Calls : d # c => saw'[d] = saw[d]
    <3>1. saw \in [Calls -> [Paths -> Bytes]]
      BY <1>1 DEF TypeOK
    <3> HIDE DEF q
    <3> QED
      BY <1>3, <1>5, <3>1, RowSet
  <2> HIDE DEF n
  <2>3. /\ pc' \in [Calls -> Stages]
        /\ pc'[c] = "writes" /\ \A d \in Calls \ {c} : pc'[d] = pc[d]
    <3>1. "writes" \in Stages
      BY DEF Stages
    <3> QED
      BY <1>1, <1>5, <3>1, GotoTypes
  <2>4. /\ used' \in [Cells -> Nat] /\ bytes' \in [Calls -> Nat]
        /\ bytes'[c] = n /\ \A d \in Calls \ {c} : bytes'[d] = bytes[d]
    BY <1>1, <1>5, <2>1, ReserveTypes
  <2>5. TypeOK'
    BY <1>1, <1>2, <2>2, <2>3, <2>4 DEF TypeOK
  <2>6. Quiet(c)
    BY <1>2, <2>2, <2>3, <2>4 DEF Quiet, SameRow
  <2>7. Charge(c) = 0 /\ Charge(c)' = n
    BY <1>1, <2>3, <2>4 DEF Charge
  <2>8. StageInv(c)'
    <3>1. Items(c)' = Items(c) /\ Here(c)' = Items(c)[1]
      BY <1>1, <1>2 DEF Items, Here
    <3>2. Writes(Here(c))'
      BY <1>3, <3>1 DEF Writes
    <3>3. item'[c] \in 1 .. Len(Items(c)')
      <4>1. item'[c] = 1 /\ Len(Items(c)') = 1
        BY <1>1, <1>2, <1>3, <3>1
      <4> QED
        BY <4>1
    <3> QED
      BY <1>1, <1>2, <2>3, <3>2, <3>3 DEF StageInv, BatchStages, HalfStages, UndoStages, LostStages
  <2>9. HoldInv(c)'
    BY <2>3 DEF HoldInv
  <2>10. LinkInv(c)'
    BY <1>1, <1>2, <2>3 DEF CallInv, LinkInv
  <2>11. UndoInv(c)'
    BY <1>1, <1>2, <2>3, CallUndo DEF BatchStages
  <2>12. \A p \in Paths : saw'[c][p] = saw[c][p] \/ saw'[c][p] = files[p].data
    BY <2>2
  <2> QED
    BY <1>1, <1>5, <2>1, <2>5, <2>6, <2>7, <2>8, <2>9, <2>10, <2>11, <2>12, QuietReserve DEF CallInv
<1> QED
  BY <1>4, <1>5 DEF Copy

-----------------------------------------------------------------------------
(* The fallback: halves one by one, and the way back.                        *)

\* One path is written or removed: the rest stays.
LEMMA PutOneStep ==
    ASSUME IInv, NEW c \in Calls, backend = "hooked", backend' = backend, NEW p \in Paths, NEW data \in Bytes,
           PutOne(c, p, data), \A d \in Calls \ {c} : SameRow(d)
    PROVE  /\ files' \in [Paths -> [data : Bytes, rev : Nat]] /\ revision' \in Nat /\ revision' >= revision
           /\ disturbed' \in [Calls -> BOOLEAN] /\ disturbed'[c] = disturbed[c]
           /\ Frame(c) /\ FilesInv' /\ OwnInv'
           /\ files'[p].data = data /\ \A q \in Paths : q # p => files'[q] = files[q]
<1>1. TypeOK /\ FilesInv
  BY DEF IInv
<1>2. files \in [Paths -> [data : Bytes, rev : Nat]] /\ revision \in Nat /\ disturbed \in [Calls -> BOOLEAN]
  BY <1>1 DEF TypeOK
<1>3. PICK v : v = IF data = {} THEN Missing ELSE [data |-> data, rev |-> revision + 1]
  OBVIOUS
<1>4. /\ v \in [data : Bytes, rev : Nat] /\ v.data = data
      /\ v = Missing \/ v.rev > revision
      /\ v.rev <= revision + 1 /\ (v.rev = 0 <=> v.data = {})
  <2>1. CASE data = {}
    BY <1>2, <1>3, <2>1 DEF Missing
  <2>2. CASE data # {}
    <3>1. v = [data |-> data, rev |-> revision + 1]
      BY <1>3, <2>2
    <3>2. v.data = data /\ v.rev = revision + 1
      BY <3>1
    <3> QED
      BY <1>2, <2>2, <3>1, <3>2
  <2> QED
    BY <2>1, <2>2
<1>5. files' = [files EXCEPT ![p] = v] /\ revision' = revision + 1
  BY <1>3 DEF PutOne, Change
<1>6. disturbed' = [d \in Calls |-> disturbed[d] \/ (d # c /\ \E q \in PathsOf(d) : files'[q] # files[q])]
  BY DEF PutOne, Change
<1>7. files'[p] = v /\ \A q \in Paths : q # p => files'[q] = files[q]
  BY <1>2, <1>5
<1>8. files' \in [Paths -> [data : Bytes, rev : Nat]] /\ revision' \in Nat /\ revision' >= revision
  BY <1>2, <1>4, <1>5
<1>9. \A d \in Calls : disturbed'[d] = (disturbed[d] \/ (d # c /\ \E q \in PathsOf(d) : files'[q] # files[q]))
  BY <1>6
<1>10. disturbed' \in [Calls -> BOOLEAN] /\ disturbed'[c] = disturbed[c]
  <2>1. disturbed' \in [Calls -> BOOLEAN]
    BY <1>6
  <2>2. disturbed'[c] = (disturbed[c] \/ FALSE)
    BY <1>9
  <2>3. disturbed[c] \in BOOLEAN
    BY <1>2
  <2> QED
    BY <2>1, <2>2, <2>3
<1>11. Frame(c)
  <2>1. \A q \in Paths : files'[q] = files[q] \/ files'[q].rev > revision \/ files'[q] = Missing
    BY <1>4, <1>7
  <2>2. \A d \in Calls \ {c} :
           /\ disturbed[d] => disturbed'[d]
           /\ ~disturbed'[d] => \A q \in PathsOf(d) : files'[q] = files[q]
    BY <1>9
  <2> QED
    BY <1>8, <2>1, <2>2 DEF Frame
<1>12. FilesInv'
  <2>1. ASSUME NEW q \in Paths
        PROVE  files'[q].rev <= revision' /\ (files'[q].rev = 0 <=> files'[q].data = {})
    <3>1. CASE q = p
      BY <1>4, <1>5, <1>7, <3>1
    <3>2. CASE q # p
      <4>1. files[q].rev <= revision /\ (files[q].rev = 0 <=> files[q].data = {}) /\ files[q].rev \in Nat
        BY <1>1, <1>2 DEF FilesInv
      <4> QED
        BY <1>2, <1>5, <1>7, <3>2, <4>1
    <3> QED
      BY <3>1, <3>2
  <2> QED
    BY <2>1 DEF FilesInv
<1>13. OwnInv'
  BY DEF OwnInv
<1> QED
  BY <1>4, <1>7, <1>8, <1>10, <1>11, <1>12, <1>13

\* The parts of the invariant that do not look at the files.
LEMMA HookedCall ==
    ASSUME TypeOK, NEW c \in Calls, LinkInv(c), backend = "hooked", backend' = backend, op' = op, pin' = pin,
           revision' \in Nat, revision' >= revision,
           pc'[c] \in HalfStages \cup UndoStages \cup LostStages \cup {"ok", "failed", "broken", "copied", "partly"},
           pc'[c] \in UndoStages => op[c].kind = "batch",
           pc'[c] \in HalfStages \cup UndoStages \cup LostStages => item'[c] \in 1 .. Len(Items(c)),
           pc'[c] = "writes" => Writes(Items(c)[item'[c]]),
           pc'[c] = "removes" => Removes(Items(c)[item'[c]])
    PROVE  StageInv(c)' /\ HoldInv(c)' /\ LinkInv(c)'
<1>1. Items(c)' = Items(c) /\ Here(c)' = Items(c)[item'[c]]
  BY DEF Items, Here
<1>2. Writes(Here(c))' = Writes(Items(c)[item'[c]]) /\ Removes(Here(c))' = Removes(Items(c)[item'[c]])
  BY <1>1 DEF Writes, Removes
<1>3. StageInv(c)'
  BY <1>1, <1>2 DEF StageInv, BatchStages, HalfStages, UndoStages, LostStages
<1>4. HoldInv(c)'
  BY DEF HoldInv, HalfStages, UndoStages, LostStages
<1>5. LinkInv(c)'
  <2>1. \A p \in Paths : pin[c][p] <= revision /\ pin[c][p] \in Nat /\ revision \in Nat
    BY DEF LinkInv, TypeOK
  <2>2. \A p \in Paths : pin'[c][p] <= revision'
    BY <2>1
  <2> QED
    BY <2>2 DEF LinkInv, HalfStages, UndoStages, LostStages
<1> QED
  BY <1>3, <1>4, <1>5

\* A step of the fallback that leaves the budget alone.
LEMMA HookedDone ==
    ASSUME IInv, TypeOK', NEW c \in Calls, Frame(c), CallInv(c)', FilesInv', OwnInv', used' = used, Charge(c)' = Charge(c)
    PROVE  IInv'
<1>1. SumInv'
  BY SumStays DEF IInv
<1> QED
  BY <1>1, StepDone

\* The next rollback entry.
LEMMA EntryMoves ==
    ASSUME TypeOK, NEW c \in Calls, pc[c] \in UndoStages, EntryDone(c), item[c] \in 1 .. Len(Items(c)), Len(Items(c)) \in Nat
    PROVE  /\ pc' \in [Calls -> Stages] /\ lock' \in [Cells -> Calls \cup {None}] /\ item' \in [Calls -> Nat]
           /\ \A d \in Calls \ {c} : pc'[d] = pc[d] /\ item'[d] = item[d]
           /\ pc'[c] \in UndoStages \cup {"failed"}
           /\ pc'[c] \in UndoStages => item'[c] \in 1 .. Len(Items(c))
           /\ \A i \in 1 .. Len(Items(c)) :
                 /\ UndoneTo(c, i)' => UndoneTo(c, i) \/ (pc[c] \in {"checkTo", "undoTo"} /\ i = item[c])
                 /\ UndoneFrom(c, i)' => UndoneFrom(c, i) \/ (pc[c] \in {"checkFrom", "undoFrom"} /\ i = item[c])
<1>1. item \in [Calls -> Nat] /\ lock \in [Cells -> Calls \cup {None}]
  BY DEF TypeOK
<1>2. {"checkTo", "checkFrom", "failed"} \subseteq Stages
  BY DEF Stages
<1>3. CASE pc[c] \in {"checkTo", "undoTo"} /\ Goto(c, "checkFrom") /\ UNCHANGED <<item, lock>>
  <2>1. pc' \in [Calls -> Stages] /\ pc'[c] = "checkFrom" /\ \A d \in Calls \ {c} : pc'[d] = pc[d]
    BY <1>2, <1>3, GotoTypes
  <2> QED
    BY <1>1, <1>3, <2>1 DEF UndoStages, LostStages, UndoneTo, UndoneFrom
<1>4. CASE /\ pc[c] \in {"checkFrom", "undoFrom"} /\ item[c] > 1
           /\ item' = [item EXCEPT ![c] = @ - 1]
           /\ Goto(c, "checkTo")
           /\ UNCHANGED lock
  <2>1. pc' \in [Calls -> Stages] /\ pc'[c] = "checkTo" /\ \A d \in Calls \ {c} : pc'[d] = pc[d]
    BY <1>2, <1>4, GotoTypes
  <2>2. item' \in [Calls -> Nat] /\ item'[c] = item[c] - 1 /\ \A d \in Calls \ {c} : item'[d] = item[d]
    BY <1>1, <1>4
  <2>3. item'[c] \in 1 .. Len(Items(c))
    BY <1>4, <2>2
  <2>4. \A i \in 1 .. Len(Items(c)) : i > item'[c] => i > item[c] \/ i = item[c]
    BY <2>2
  <2> QED
    BY <1>1, <1>4, <2>1, <2>2, <2>3, <2>4 DEF UndoStages, LostStages, UndoneTo, UndoneFrom
<1>5. CASE pc[c] \in {"checkFrom", "undoFrom"} /\ item[c] = 1 /\ End(c, "failed") /\ UNCHANGED item
  <2>1. /\ pc' \in [Calls -> Stages] /\ pc'[c] = "failed" /\ \A d \in Calls \ {c} : pc'[d] = pc[d]
        /\ lock' \in [Cells -> Calls \cup {None}]
    BY <1>2, <1>5, EndTypes
  <2>2. \A i \in 1 .. Len(Items(c)) : i > item[c] \/ i = item[c]
    BY <1>5
  <2> QED
    BY <1>1, <1>5, <2>1, <2>2 DEF UndoStages, LostStages, UndoneTo, UndoneFrom
<1> QED
  BY <1>3, <1>4, <1>5 DEF EntryDone

\* An entry that is settled makes its path as it was recorded, and no path
\* leaves that state again.
LEMMA UndoKept ==
    ASSUME TypeOK, NEW c \in Calls, UndoInv(c), pc[c] \in UndoStages, op[c] \in Ops[c], op[c].kind = "batch",
           item[c] \in 1 .. Len(Items(c)), EntryDone(c),
           op' = op, saw' = saw, before' = before, disturbed'[c] = disturbed[c],
           \A q \in Paths : files'[q].data = files[q].data \/ files'[q].data = before[c][q],
           ~disturbed[c] /\ pc[c] \in {"checkTo", "undoTo"} /\ Writes(Here(c)) => files'[Here(c).to].data = before[c][Here(c).to],
           ~disturbed[c] /\ pc[c] \in {"checkFrom", "undoFrom"} /\ Removes(Here(c)) => files'[Here(c).p].data = before[c][Here(c).p]
    PROVE  UndoInv(c)'
<1>1. Items(c)' = Items(c) /\ DOMAIN Items(c) = 1 .. Len(Items(c)) /\ Len(Items(c)) \in Nat
  BY OpFacts DEF Items
<1>2. /\ pc'[c] \in UndoStages \cup {"failed"}
      /\ \A i \in 1 .. Len(Items(c)) :
            /\ UndoneTo(c, i)' => UndoneTo(c, i) \/ (pc[c] \in {"checkTo", "undoTo"} /\ i = item[c])
            /\ UndoneFrom(c, i)' => UndoneFrom(c, i) \/ (pc[c] \in {"checkFrom", "undoFrom"} /\ i = item[c])
  BY <1>1, EntryMoves
<1>3. ASSUME ~disturbed'[c], NEW i \in DOMAIN Items(c)
      PROVE  /\ OpenTo(c, Items(c)[i])' /\ OpenFrom(c, Items(c)[i])'
             /\ UndoneTo(c, i)' => SafeTo(c, Items(c)[i])'
             /\ UndoneFrom(c, i)' => SafeFrom(c, Items(c)[i])'
  <2>1. PICK it : it = Items(c)[i]
    OBVIOUS
  <2>2. /\ OpenTo(c, it) /\ OpenFrom(c, it)
        /\ UndoneTo(c, i) => SafeTo(c, it)
        /\ UndoneFrom(c, i) => SafeFrom(c, it)
    BY <1>3, <2>1 DEF UndoInv
  <2>3. it.p \in Paths /\ it.to \in Paths
    BY <2>1, ItemFacts DEF Items
  <2>4. /\ files'[it.p].data = files[it.p].data \/ files'[it.p].data = before[c][it.p]
        /\ files'[it.to].data = files[it.to].data \/ files'[it.to].data = before[c][it.to]
    BY <2>3
  <2>5. (Items(c)[i])' = it
    BY <1>1, <2>1
  <2>6. OpenTo(c, Items(c)[i])' /\ OpenFrom(c, Items(c)[i])'
    BY <2>2, <2>4, <2>5 DEF OpenTo, OpenFrom, Composed
  <2>7. UndoneTo(c, i)' => SafeTo(c, Items(c)[i])'
    <3>1. CASE UndoneTo(c, i)
      BY <2>2, <2>4, <2>5, <3>1 DEF SafeTo
    <3>2. CASE pc[c] \in {"checkTo", "undoTo"} /\ i = item[c]
      BY <1>3, <2>1, <2>5, <3>2 DEF SafeTo, Here
    <3> QED
      BY <1>1, <1>2, <3>1, <3>2
  <2>8. UndoneFrom(c, i)' => SafeFrom(c, Items(c)[i])'
    <3>1. CASE UndoneFrom(c, i)
      BY <2>2, <2>4, <2>5, <3>1 DEF SafeFrom
    <3>2. CASE pc[c] \in {"checkFrom", "undoFrom"} /\ i = item[c]
      BY <1>3, <2>1, <2>5, <3>2 DEF SafeFrom, Here
    <3> QED
      BY <1>1, <1>2, <3>1, <3>2
  <2> QED
    BY <2>6, <2>7, <2>8
<1> QED
  BY <1>1, <1>2, <1>3 DEF UndoInv, BatchStages, UndoStages, LostStages

\* An entry is looked at.
LEMMA CompensateStep ==
    ASSUME IInv, NEW c \in Calls, Compensate(c)
    PROVE  IInv'
<1>1. /\ TypeOK /\ CallInv(c) /\ FilesInv /\ pc[c] \in {"checkTo", "checkFrom"} /\ pc[c] \in UndoStages
      /\ op[c].kind = "batch" /\ op[c] \in Ops[c] /\ item[c] \in 1 .. Len(Items(c)) /\ backend = "hooked"
  BY DEF IInv, Compensate, CallInv, StageInv, UndoStages, LostStages, TypeOK
<1>2. UNCHANGED <<backend, tries, used, op, saw, pin, before, bytes, files, revision, disturbed, faults>>
  BY DEF Compensate, fs
<1>3. Len(Items(c)) \in Nat /\ DOMAIN Items(c) = 1 .. Len(Items(c)) /\ Items(c)' = Items(c) /\ revision \in Nat
  BY <1>1, <1>2, OpFacts DEF Items, TypeOK
<1>4. /\ pc' \in [Calls -> Stages] /\ lock' \in [Cells -> Calls \cup {None}] /\ item' \in [Calls -> Nat]
      /\ \A d \in Calls \ {c} : pc'[d] = pc[d] /\ item'[d] = item[d]
      /\ pc'[c] \in UndoStages \cup {"failed"}
      /\ pc'[c] \in UndoStages => item'[c] \in 1 .. Len(Items(c))
      /\ UndoInv(c)'
  <2>1. CASE AsLeft(c, Here(c))
    <3>1. PICK s : s = IF pc[c] = "checkTo" THEN "undoTo" ELSE "undoFrom"
      OBVIOUS
    <3>2. Goto(c, s) /\ item' = item /\ lock' = lock /\ s \in Stages
      BY <2>1, <3>1 DEF Compensate, Stages
    <3>3. pc' \in [Calls -> Stages] /\ pc'[c] = s /\ \A d \in Calls \ {c} : pc'[d] = pc[d]
      BY <1>1, <3>2, GotoTypes
    <3>4. \A i : UndoneTo(c, i)' = UndoneTo(c, i) /\ UndoneFrom(c, i)' = UndoneFrom(c, i)
      BY <1>1, <3>1, <3>2, <3>3 DEF UndoneTo, UndoneFrom, UndoStages, LostStages
    <3>5. ASSUME NEW i \in DOMAIN Items(c)
          PROVE  /\ OpenTo(c, Items(c)[i])' = OpenTo(c, Items(c)[i]) /\ OpenFrom(c, Items(c)[i])' = OpenFrom(c, Items(c)[i])
                 /\ SafeTo(c, Items(c)[i])' = SafeTo(c, Items(c)[i]) /\ SafeFrom(c, Items(c)[i])' = SafeFrom(c, Items(c)[i])
      BY <1>2, <1>3 DEF OpenTo, OpenFrom, SafeTo, SafeFrom, Composed
    <3>6. UndoInv(c)'
      <4>1. ASSUME ~disturbed'[c], NEW i \in DOMAIN Items(c)
            PROVE  /\ OpenTo(c, Items(c)[i])' /\ OpenFrom(c, Items(c)[i])'
                   /\ UndoneTo(c, i)' => SafeTo(c, Items(c)[i])'
                   /\ UndoneFrom(c, i)' => SafeFrom(c, Items(c)[i])'
        BY <1>1, <1>2, <3>4, <3>5, <4>1 DEF CallInv, UndoInv
      <4> QED
        BY <1>3, <3>1, <3>3, <4>1 DEF UndoInv, BatchStages
    <3>7. pc'[c] \in UndoStages
      BY <3>1, <3>3 DEF UndoStages, LostStages
    <3> QED
      BY <1>1, <3>2, <3>3, <3>6, <3>7 DEF TypeOK
  <2>2. CASE ~AsLeft(c, Here(c))
    <3>1. EntryDone(c)
      BY <2>2 DEF Compensate
    <3>2. Here(c).p \in Paths /\ Here(c) = Items(c)[item[c]] /\ item[c] \in DOMAIN Items(c)
      BY <1>1, <1>3, ItemFacts DEF Items, Here
    <3>3. ASSUME ~disturbed[c], pc[c] = "checkTo", Writes(Here(c))
          PROVE  files'[Here(c).to].data = before[c][Here(c).to]
      <4>1. OpenTo(c, Here(c))
        BY <1>1, <3>2, <3>3 DEF CallInv, UndoInv
      <4>2. files[Here(c).to].data # Composed(c, Here(c))
        BY <2>2, <3>3 DEF AsLeft
      <4> QED
        BY <1>2, <3>3, <4>1, <4>2 DEF OpenTo
    <3>4. ASSUME ~disturbed[c], pc[c] = "checkFrom", Removes(Here(c))
          PROVE  files'[Here(c).p].data = before[c][Here(c).p]
      <4>1. OpenFrom(c, Here(c))
        BY <1>1, <3>2, <3>4 DEF CallInv, UndoInv
      <4>2. files[Here(c).p].data # {}
        BY <1>1, <2>2, <3>2, <3>4 DEF AsLeft, Exists, FilesInv
      <4> QED
        BY <1>2, <3>4, <4>1, <4>2 DEF OpenFrom
    <3>5. UndoInv(c)'
      BY <1>1, <1>2, <3>1, <3>3, <3>4, UndoKept DEF CallInv
    <3>6. /\ pc' \in [Calls -> Stages] /\ lock' \in [Cells -> Calls \cup {None}] /\ item' \in [Calls -> Nat]
          /\ \A d \in Calls \ {c} : pc'[d] = pc[d] /\ item'[d] = item[d]
          /\ pc'[c] \in UndoStages \cup {"failed"}
          /\ pc'[c] \in UndoStages => item'[c] \in 1 .. Len(Items(c))
      BY <1>1, <1>3, <3>1, EntryMoves
    <3> QED
      BY <3>5, <3>6
  <2> QED
    BY <2>1, <2>2
<1>5. TypeOK'
  BY <1>1, <1>2, <1>4 DEF TypeOK, UndoStages
<1>6. Quiet(c)
  BY <1>2, <1>4 DEF Quiet, SameRow
<1>7. Charge(c)' = Charge(c)
  BY <1>1, <1>4 DEF Charge, UndoStages
<1>8. StageInv(c)' /\ HoldInv(c)' /\ LinkInv(c)'
  <2>1. /\ pc'[c] \in HalfStages \cup UndoStages \cup {"ok", "failed", "broken", "copied"}
        /\ pc'[c] # "writes" /\ pc'[c] # "removes" /\ pc'[c] \notin LostStages
        /\ pc'[c] \in HalfStages \cup UndoStages => item'[c] \in 1 .. Len(Items(c))
    BY <1>4 DEF HalfStages, UndoStages, LostStages
  <2>2. revision' \in Nat /\ revision' >= revision
    BY <1>2, <1>3
  <2> QED
    BY <1>1, <1>2, <2>1, <2>2, HookedCall DEF CallInv
<1> QED
  BY <1>1, <1>2, <1>4, <1>5, <1>6, <1>7, <1>8, QuietStep DEF CallInv

\* An entry is undone, or the undoing of it fails.
LEMMA UndoStep ==
    ASSUME IInv, NEW c \in Calls, Undo(c)
    PROVE  IInv'
<1> DEFINE p == IF pc[c] = "undoTo" THEN Here(c).to ELSE Here(c).p
<1>1. /\ TypeOK /\ CallInv(c) /\ FilesInv /\ pc[c] \in {"undoTo", "undoFrom"} /\ pc[c] \in UndoStages
      /\ op[c].kind = "batch" /\ op[c] \in Ops[c] /\ item[c] \in 1 .. Len(Items(c)) /\ backend = "hooked"
  BY DEF IInv, Undo, CallInv, StageInv, UndoStages, LostStages, TypeOK
<1>2. UNCHANGED <<backend, tries, used, op, saw, pin, before, bytes>>
  BY DEF Undo
<1>3. Len(Items(c)) \in Nat /\ DOMAIN Items(c) = 1 .. Len(Items(c)) /\ Items(c)' = Items(c) /\ revision \in Nat
  BY <1>1, <1>2, OpFacts DEF Items, TypeOK
<1>4. p \in Paths /\ before[c][p] \in Bytes
  <2>1. Here(c).p \in Paths /\ Here(c).to \in Paths
    BY <1>1, <1>3, ItemFacts DEF Items, Here
  <2> QED
    BY <1>1, <2>1 DEF TypeOK
<1>5. CASE Fault /\ End(c, "broken") /\ UNCHANGED <<item, fs>>
  <2>1. UNCHANGED <<item, files, revision, disturbed>>
    BY <1>5 DEF fs
  <2>2. "broken" \in Stages
    BY DEF Stages
  <2>3. /\ pc' \in [Calls -> Stages] /\ lock' \in [Cells -> Calls \cup {None}]
        /\ pc'[c] = "broken" /\ \A d \in Calls \ {c} : pc'[d] = pc[d]
    BY <1>1, <1>5, <2>2, EndTypes
  <2>4. faults' \in 0 .. MaxFaults
    BY <1>1, <1>5, SandboxAssumption DEF TypeOK, Fault, SandboxAssumption
  <2>5. TypeOK'
    BY <1>1, <1>2, <2>1, <2>3, <2>4 DEF TypeOK
  <2>6. Quiet(c)
    BY <1>2, <2>1, <2>3 DEF Quiet, SameRow
  <2>7. Charge(c)' = Charge(c)
    BY <1>1, <2>3 DEF Charge, UndoStages
  <2>8. StageInv(c)' /\ HoldInv(c)' /\ LinkInv(c)'
    <3>1. pc'[c] \notin HalfStages \cup UndoStages
      BY <2>3 DEF HalfStages, UndoStages, LostStages
    <3>2. revision' \in Nat /\ revision' >= revision
      BY <1>3, <2>1
    <3> QED
      BY <1>1, <1>2, <2>3, <3>1, <3>2, HookedCall DEF CallInv, HalfStages, UndoStages, LostStages
  <2>9. UndoInv(c)'
    BY <2>3 DEF UndoInv, BatchStages, HalfStages, UndoStages, LostStages
  <2> QED
    BY <1>1, <1>2, <2>1, <2>5, <2>6, <2>7, <2>8, <2>9, QuietStep DEF CallInv
<1>6. CASE /\ IF UndoNeeded(c, p) THEN PutOne(c, p, before[c][p]) ELSE UNCHANGED fs
           /\ EntryDone(c)
           /\ UNCHANGED faults
  <2>1. /\ pc' \in [Calls -> Stages] /\ lock' \in [Cells -> Calls \cup {None}] /\ item' \in [Calls -> Nat]
        /\ \A d \in Calls \ {c} : pc'[d] = pc[d] /\ item'[d] = item[d]
        /\ pc'[c] \in UndoStages \cup {"failed"}
        /\ pc'[c] \in UndoStages => item'[c] \in 1 .. Len(Items(c))
    BY <1>1, <1>3, <1>6, EntryMoves
  <2>2. \A d \in Calls \ {c} : SameRow(d)
    BY <1>2, <2>1 DEF SameRow
  <2> HIDE DEF p
  <2>3. /\ files' \in [Paths -> [data : Bytes, rev : Nat]] /\ revision' \in Nat /\ revision' >= revision
        /\ disturbed' \in [Calls -> BOOLEAN] /\ disturbed'[c] = disturbed[c]
        /\ Frame(c) /\ FilesInv' /\ OwnInv'
        /\ files'[p].data = before[c][p] /\ \A q \in Paths : q # p => files'[q] = files[q]
    <3>1. CASE UndoNeeded(c, p)
      <4>1. PutOne(c, p, before[c][p])
        BY <1>6, <3>1
      <4> QED
        BY <1>1, <1>2, <1>4, <2>2, <4>1, PutOneStep
    <3>2. CASE ~UndoNeeded(c, p)
      <4>1. UNCHANGED <<files, revision, disturbed>>
        BY <1>6, <3>2 DEF fs
      <4>2. before[c][p] = {} /\ ~Exists(p)
        BY <3>2 DEF UndoNeeded
      <4>3. files[p].data = {}
        BY <1>1, <1>4, <4>2, FileData DEF Exists, FilesInv
      <4>4. Frame(c) /\ FilesInv'
        <5>1. Quiet(c)
          BY <1>2, <2>2, <4>1 DEF Quiet
        <5> QED
          BY <1>1, <5>1, QuietFrame
      <4>5. OwnInv'
        BY <1>1, <1>2 DEF OwnInv
      <4> QED
        BY <1>1, <1>3, <4>1, <4>2, <4>3, <4>4, <4>5 DEF TypeOK
    <3> QED
      BY <3>1, <3>2
  <2>4. TypeOK'
    BY <1>1, <1>2, <1>6, <2>1, <2>3 DEF TypeOK, UndoStages
  <2>5. Charge(c)' = Charge(c)
    BY <1>1, <2>1 DEF Charge, UndoStages
  <2>6. StageInv(c)' /\ HoldInv(c)' /\ LinkInv(c)'
    <3>1. /\ pc'[c] \in HalfStages \cup UndoStages \cup {"ok", "failed", "broken", "copied"}
          /\ pc'[c] # "writes" /\ pc'[c] # "removes" /\ pc'[c] \notin LostStages
          /\ pc'[c] \in HalfStages \cup UndoStages => item'[c] \in 1 .. Len(Items(c))
      BY <2>1 DEF HalfStages, UndoStages, LostStages
    <3> QED
      BY <1>1, <1>2, <2>3, <3>1, HookedCall DEF CallInv
  <2>7. UndoInv(c)'
    <3>1. \A q \in Paths : files'[q].data = files[q].data \/ files'[q].data = before[c][q]
      BY <2>3
    <3>2. pc[c] \in {"checkTo", "undoTo"} => files'[Here(c).to].data = before[c][Here(c).to]
      BY <1>1, <2>3 DEF p
    <3>3. pc[c] \in {"checkFrom", "undoFrom"} => files'[Here(c).p].data = before[c][Here(c).p]
      BY <1>1, <2>3 DEF p
    <3> QED
      BY <1>1, <1>2, <1>6, <2>3, <3>1, <3>2, <3>3, UndoKept DEF CallInv
  <2> QED
    BY <1>2, <2>3, <2>4, <2>5, <2>6, <2>7, HookedDone DEF CallInv
<1> QED
  BY <1>5, <1>6 DEF Undo

\* The next half.
LEMMA HalfMoves ==
    ASSUME TypeOK, NEW c \in Calls, pc[c] \in HalfStages, HalfDone(c), op[c] \in Ops[c], item[c] \in 1 .. Len(Items(c))
    PROVE  /\ pc' \in [Calls -> Stages] /\ lock' \in [Cells -> Calls \cup {None}] /\ item' \in [Calls -> Nat]
           /\ \A d \in Calls \ {c} : pc'[d] = pc[d] /\ item'[d] = item[d]
           /\ pc'[c] \in HalfStages \cup {"ok"}
           /\ pc'[c] \in HalfStages => item'[c] \in 1 .. Len(Items(c))
           /\ pc'[c] = "writes" => Writes(Items(c)[item'[c]])
           /\ pc'[c] = "removes" => Removes(Items(c)[item'[c]])
<1>1. item \in [Calls -> Nat] /\ lock \in [Cells -> Calls \cup {None}]
  BY DEF TypeOK
<1>2. {"writes", "removes", "ok"} \subseteq Stages
  BY DEF Stages
<1>3. Len(Items(c)) \in Nat /\ DOMAIN Items(c) = 1 .. Len(Items(c))
  BY OpFacts DEF Items
<1> DEFINE both == pc[c] = "writes" /\ Removes(Here(c))
<1>4. CASE both /\ Goto(c, "removes") /\ UNCHANGED <<item, lock>>
  <2>1. pc' \in [Calls -> Stages] /\ pc'[c] = "removes" /\ \A d \in Calls \ {c} : pc'[d] = pc[d]
    BY <1>2, <1>4, GotoTypes
  <2> QED
    BY <1>1, <1>4, <2>1 DEF HalfStages, Here
<1>5. CASE /\ item[c] < Len(Items(c))
           /\ item' = [item EXCEPT ![c] = @ + 1]
           /\ Goto(c, FirstHalf(Items(c)[item[c] + 1]))
           /\ UNCHANGED lock
  <2>1. PICK s : s = FirstHalf(Items(c)[item[c] + 1])
    OBVIOUS
  <2>2. item[c] + 1 \in 1 .. Len(Items(c))
    BY <1>3, <1>5
  <2>3. /\ s \in {"writes", "removes"}
        /\ s = "writes" => Writes(Items(c)[item[c] + 1])
        /\ s = "removes" => Removes(Items(c)[item[c] + 1])
    <3>1. Items(c)[item[c] + 1].k \in PatchKinds \cup CallKinds
      BY <1>3, <2>2, ItemFacts DEF Items
    <3> QED
      BY <2>1, <3>1 DEF FirstHalf, Writes, Removes
  <2>4. pc' \in [Calls -> Stages] /\ pc'[c] = s /\ \A d \in Calls \ {c} : pc'[d] = pc[d]
    BY <1>2, <1>5, <2>1, <2>3, GotoTypes
  <2>5. item' \in [Calls -> Nat] /\ item'[c] = item[c] + 1 /\ \A d \in Calls \ {c} : item'[d] = item[d]
    BY <1>1, <1>5
  <2> QED
    BY <1>1, <1>5, <2>2, <2>3, <2>4, <2>5 DEF HalfStages
<1>6. CASE End(c, "ok") /\ UNCHANGED item
  <2>1. /\ pc' \in [Calls -> Stages] /\ pc'[c] = "ok" /\ \A d \in Calls \ {c} : pc'[d] = pc[d]
        /\ lock' \in [Cells -> Calls \cup {None}]
    BY <1>2, <1>6, EndTypes
  <2> QED
    BY <1>1, <1>6, <2>1 DEF HalfStages
<1> QED
  BY <1>4, <1>5, <1>6 DEF HalfDone

\* What a half leaves is as recorded or as the batch means it to be: the items
\* of a batch have no path in common.
LEMMA HalfKept ==
    ASSUME TypeOK, NEW c \in Calls, UndoInv(c), pc[c] \in HalfStages, pc'[c] \in HalfStages \cup {"ok"},
           op[c] \in Ops[c], item[c] \in 1 .. Len(Items(c)), DOMAIN Items(c) = 1 .. Len(Items(c)),
           op' = op, saw' = saw, before' = before, disturbed'[c] = disturbed[c], NEW p \in Paths,
           \A q \in Paths : q # p => files'[q] = files[q],
           \/ pc[c] = "writes" /\ Writes(Here(c)) /\ p = Here(c).to /\ files'[p].data = Composed(c, Here(c))
           \/ pc[c] = "removes" /\ Removes(Here(c)) /\ p = Here(c).p /\ files'[p].data = {}
    PROVE  UndoInv(c)'
<1>1. Items(c)' = Items(c)
  BY DEF Items
<1>2. ASSUME op[c].kind = "batch", ~disturbed'[c], NEW i \in DOMAIN Items(c)
      PROVE  OpenTo(c, Items(c)[i])' /\ OpenFrom(c, Items(c)[i])'
  <2>1. PICK it : it = Items(c)[i]
    OBVIOUS
  <2>2. OpenTo(c, it) /\ OpenFrom(c, it)
    BY <1>2, <2>1 DEF UndoInv
  <2>3. it.p \in Paths /\ it.to \in Paths /\ (it.k \in Moving <=> it.p # it.to)
    BY <1>2, <2>1, ItemFacts DEF Items
  <2>4. (Items(c)[i])' = it
    BY <1>1, <2>1
  <2>5. CASE i # item[c]
    <3>1. it.p # Here(c).p /\ it.p # Here(c).to /\ it.to # Here(c).p /\ it.to # Here(c).to
      BY <1>2, <2>1, <2>5, ItemsApart DEF Items, Here
    <3>2. files'[it.p] = files[it.p] /\ files'[it.to] = files[it.to]
      BY <2>3, <3>1
    <3> QED
      BY <2>2, <2>4, <3>2 DEF OpenTo, OpenFrom, Composed
  <2>6. CASE i = item[c]
    <3>1. it = Here(c)
      BY <2>1, <2>6 DEF Here
    <3>2. Writes(it) /\ Removes(it) => it.p # it.to
      BY <2>3 DEF Writes, Removes
    <3>3. CASE pc[c] = "writes" /\ Writes(it) /\ p = it.to /\ files'[p].data = Composed(c, it)
      <4>1. Removes(it) => files'[it.p] = files[it.p]
        BY <2>3, <3>2, <3>3
      <4>2. OpenTo(c, Items(c)[i])'
        BY <2>4, <3>3 DEF OpenTo, Composed
      <4>3. OpenFrom(c, Items(c)[i])'
        BY <2>2, <2>4, <4>1 DEF OpenFrom
      <4> QED
        BY <4>2, <4>3
    <3>4. CASE pc[c] = "removes" /\ Removes(it) /\ p = it.p /\ files'[p].data = {}
      <4>1. Writes(it) => files'[it.to] = files[it.to]
        BY <2>3, <3>2, <3>4
      <4>2. OpenTo(c, Items(c)[i])'
        BY <2>2, <2>4, <4>1 DEF OpenTo, Composed
      <4>3. OpenFrom(c, Items(c)[i])'
        BY <2>4, <3>4 DEF OpenFrom
      <4> QED
        BY <4>2, <4>3
    <3> QED
      BY <3>1, <3>3, <3>4
  <2> QED
    BY <2>5, <2>6
<1>3. \A i : ~UndoneTo(c, i)' /\ ~UndoneFrom(c, i)'
  BY DEF UndoneTo, UndoneFrom, HalfStages, UndoStages, LostStages
<1>4. (pc[c] \in BatchStages \cup {"idle"} => disturbed[c])'
  BY DEF BatchStages, HalfStages
<1>5. op'[c].kind = op[c].kind
  OBVIOUS
<1> QED
  BY <1>1, <1>2, <1>3, <1>4, <1>5 DEF UndoInv

\* A half that fails.
LEMMA HalfFailsStep ==
    ASSUME IInv, NEW c \in Calls, HalfFails(c), pc[c] \in HalfStages, backend' = backend, faults' \in 0 .. MaxFaults
    PROVE  IInv'
<1>1. /\ TypeOK /\ CallInv(c) /\ FilesInv /\ OwnInv /\ SumInv /\ pc[c] # "idle" /\ op[c] \in Ops[c]
      /\ item[c] \in 1 .. Len(Items(c)) /\ backend = "hooked"
  BY DEF IInv, CallInv, StageInv, HalfStages, TypeOK
<1>2. /\ Len(Items(c)) \in Nat \ {0} /\ DOMAIN Items(c) = 1 .. Len(Items(c)) /\ revision \in Nat
  BY <1>1, OpFacts DEF Items, TypeOK
<1>3. CASE op[c].kind = "batch"
  <2>1. /\ release_vfs_bytes(c) /\ Goto(c, "checkTo") /\ item' = [item EXCEPT ![c] = Len(Items(c))]
        /\ UNCHANGED <<tries, lock, op, saw, pin, before, bytes, files, revision, disturbed>>
    BY <1>3 DEF HalfFails, fs
  <2>2. "checkTo" \in Stages
    BY DEF Stages
  <2>3. pc' \in [Calls -> Stages] /\ pc'[c] = "checkTo" /\ \A d \in Calls \ {c} : pc'[d] = pc[d]
    BY <1>1, <2>1, <2>2, GotoTypes
  <2>4. item' \in [Calls -> Nat] /\ item'[c] = Len(Items(c)) /\ \A d \in Calls \ {c} : item'[d] = item[d]
    <3>1. item \in [Calls -> Nat]
      BY <1>1 DEF TypeOK
    <3> QED
      BY <1>2, <2>1, <3>1
  <2>5. Charge(c) = bytes[c] /\ Charge(c)' = 0
    BY <2>3 DEF Charge, HalfStages
  <2>6. used' \in [Cells -> Nat]
    BY <1>1, <2>1, <2>5, ReleaseTypes
  <2>7. TypeOK'
    BY <1>1, <2>1, <2>3, <2>4, <2>6 DEF TypeOK
  <2>8. Frame(c) /\ FilesInv'
    <3>1. Quiet(c)
      BY <2>1, <2>3, <2>4 DEF Quiet, SameRow
    <3> QED
      BY <1>1, <3>1, QuietFrame
  <2>9. SumInv'
    BY <1>1, <2>1, <2>5, <2>7, <2>8, SumRelease
  <2>10. OwnInv'
    BY <1>1 DEF OwnInv
  <2>11. StageInv(c)' /\ HoldInv(c)' /\ LinkInv(c)'
    <3>1. item'[c] \in 1 .. Len(Items(c))
      BY <1>2, <2>4
    <3>2. revision' \in Nat /\ revision' >= revision
      BY <1>2, <2>1
    <3>3. pc'[c] \in UndoStages
      BY <2>3 DEF UndoStages, LostStages
    <3> QED
      BY <1>1, <1>3, <2>1, <2>3, <3>1, <3>2, <3>3, HookedCall DEF CallInv
  <2>12. UndoInv(c)'
    <3>1. Items(c)' = Items(c)
      BY <2>1 DEF Items
    <3>2. ASSUME NEW i \in DOMAIN Items(c)
          PROVE  /\ OpenTo(c, Items(c)[i])' = OpenTo(c, Items(c)[i]) /\ OpenFrom(c, Items(c)[i])' = OpenFrom(c, Items(c)[i])
                 /\ ~UndoneTo(c, i)' /\ ~UndoneFrom(c, i)'
      <4>1. OpenTo(c, Items(c)[i])' = OpenTo(c, Items(c)[i]) /\ OpenFrom(c, Items(c)[i])' = OpenFrom(c, Items(c)[i])
        BY <2>1, <3>1 DEF OpenTo, OpenFrom, Composed
      <4>2. ~(i > item'[c])
        BY <1>2, <2>4
      <4> QED
        BY <2>3, <4>1, <4>2 DEF UndoneTo, UndoneFrom
    <3>3. ASSUME ~disturbed[c], NEW i \in DOMAIN Items(c)
          PROVE  OpenTo(c, Items(c)[i]) /\ OpenFrom(c, Items(c)[i])
      BY <1>1, <1>3, <3>3 DEF CallInv, UndoInv
    <3> QED
      BY <2>1, <2>3, <3>1, <3>2, <3>3 DEF UndoInv, BatchStages
  <2> QED
    BY <2>7, <2>8, <2>9, <2>10, <2>11, <2>12, StepDone DEF CallInv
<1>4. CASE op[c].kind = "rename" /\ pc[c] = "removes"
  <2>1. End(c, "copied") /\ UNCHANGED <<used, op, item, tries, saw, pin, before, bytes, files, revision, disturbed>>
    BY <1>4 DEF HalfFails, fs, local
  <2>2. "copied" \in Stages
    BY DEF Stages
  <2>3. /\ pc' \in [Calls -> Stages] /\ lock' \in [Cells -> Calls \cup {None}]
        /\ pc'[c] = "copied" /\ \A d \in Calls \ {c} : pc'[d] = pc[d]
    BY <1>1, <2>1, <2>2, EndTypes
  <2>4. TypeOK'
    BY <1>1, <2>1, <2>3 DEF TypeOK
  <2>5. Quiet(c)
    BY <2>1, <2>3 DEF Quiet, SameRow
  <2>6. Charge(c)' = Charge(c)
    BY <1>4, <2>1, <2>3 DEF Charge
  <2>7. StageInv(c)' /\ HoldInv(c)' /\ LinkInv(c)'
    <3>1. pc'[c] \notin HalfStages \cup UndoStages
      BY <2>3 DEF HalfStages, UndoStages, LostStages
    <3>2. revision' \in Nat /\ revision' >= revision
      BY <1>2, <2>1
    <3> QED
      BY <1>1, <2>1, <2>3, <3>1, <3>2, HookedCall DEF CallInv, HalfStages, UndoStages, LostStages
  <2>8. UndoInv(c)'
    BY <2>3 DEF UndoInv, BatchStages, HalfStages, UndoStages, LostStages
  <2> QED
    BY <1>4, <2>1, <2>4, <2>5, <2>6, <2>7, <2>8, QuietStep DEF CallInv
<1>5. CASE op[c].kind # "batch" /\ ~(op[c].kind = "rename" /\ pc[c] = "removes")
  <2>1. FailReleasing(c)
    BY <1>5 DEF HalfFails
  <2> QED
    BY <1>5, <2>1, FailReleasingStep
<1> QED
  BY <1>3, <1>4, <1>5

\* The answer to a half is lost.
LEMMA HalfLostStep ==
    ASSUME IInv, NEW c \in Calls, HalfLost(c), pc[c] \in HalfStages, backend' = backend, faults' \in 0 .. MaxFaults
    PROVE  IInv'
<1>1. /\ TypeOK /\ CallInv(c) /\ pc[c] # "idle" /\ op[c] \in Ops[c] /\ revision \in Nat
      /\ item[c] \in 1 .. Len(Items(c)) /\ backend = "hooked"
  BY DEF IInv, CallInv, StageInv, HalfStages, TypeOK
<1>2. PICK lost \in LostStages : End(c, lost)
  BY DEF HalfLost, LostStages
<1>3. UNCHANGED <<used, op, item, tries, saw, pin, before, bytes, files, revision, disturbed>>
  BY DEF HalfLost, fs, local
<1>4. lost \in Stages
  BY DEF Stages, LostStages
<1>5. /\ pc' \in [Calls -> Stages] /\ lock' \in [Cells -> Calls \cup {None}]
      /\ pc'[c] = lost /\ \A d \in Calls \ {c} : pc'[d] = pc[d]
  BY <1>1, <1>2, <1>4, EndTypes
<1>6. TypeOK'
  BY <1>1, <1>3, <1>5 DEF TypeOK
<1>7. Quiet(c)
  BY <1>3, <1>5 DEF Quiet, SameRow
<1>8. Charge(c)' = Charge(c)
  BY <1>3, <1>5 DEF Charge, HalfStages, LostStages
<1>9. StageInv(c)' /\ HoldInv(c)' /\ LinkInv(c)'
  <2>1. pc'[c] \notin HalfStages \cup UndoStages /\ pc'[c] \in LostStages
    BY <1>5 DEF HalfStages, UndoStages, LostStages
  <2>2. revision' \in Nat /\ revision' >= revision /\ item'[c] \in 1 .. Len(Items(c))
    BY <1>1, <1>3
  <2> QED
    BY <1>1, <1>3, <2>1, <2>2, HookedCall DEF CallInv, HalfStages
<1>10. UndoInv(c)'
  BY <1>5 DEF UndoInv, BatchStages, HalfStages, UndoStages, LostStages
<1>11. pc[c] # "ok"
  BY DEF HalfStages
<1> QED
  BY <1>3, <1>6, <1>7, <1>8, <1>9, <1>10, <1>11, QuietStep DEF CallInv

\* A half is done, or it fails.
LEMMA ExecuteStep ==
    ASSUME IInv, NEW c \in Calls, Execute(c)
    PROVE  IInv'
<1> DEFINE it == Here(c)
<1>1. /\ TypeOK /\ CallInv(c) /\ backend' = backend /\ pc[c] \in HalfStages /\ op[c] \in Ops[c]
      /\ item[c] \in 1 .. Len(Items(c)) /\ backend = "hooked"
      /\ pc[c] = "writes" => Writes(it)
      /\ pc[c] = "removes" => Removes(it)
  BY DEF IInv, Execute, CallInv, StageInv, HalfStages, TypeOK
<1>2. DOMAIN Items(c) = 1 .. Len(Items(c)) /\ it.p \in Paths /\ it.to \in Paths /\ Composed(c, it) \in Bytes /\ {} \in Bytes
  <2>1. DOMAIN Items(c) = 1 .. Len(Items(c))
    BY <1>1, OpFacts DEF Items
  <2>2. it.p \in Paths /\ it.to \in Paths
    BY <1>1, <2>1, ItemFacts DEF Items, Here
  <2>3. Composed(c, it) \in Bytes
    BY <1>1, <2>2, ComposedBytes
  <2> QED
    BY <2>1, <2>2, <2>3 DEF Bytes
<1>3. CASE HalfFails(c) /\ (UNCHANGED faults \/ Fault)
  <2>1. faults' \in 0 .. MaxFaults
    BY <1>1, <1>3, SandboxAssumption DEF TypeOK, Fault, SandboxAssumption
  <2> QED
    BY <1>1, <1>3, <2>1, HalfFailsStep
<1>6. CASE HalfLost(c) /\ Fault
  <2>1. faults' \in 0 .. MaxFaults
    BY <1>1, <1>6, SandboxAssumption DEF TypeOK, Fault, SandboxAssumption
  <2> QED
    BY <1>1, <1>6, <2>1, HalfLostStep
<1>4. ASSUME NEW p \in Paths, NEW data \in Bytes, PutOne(c, p, data),
             \/ pc[c] = "writes" /\ p = it.to /\ data = Composed(c, it)
             \/ pc[c] = "removes" /\ p = it.p /\ data = {},
             HalfDone(c), UNCHANGED <<tries, used, op, saw, pin, before, bytes, faults>>
      PROVE  IInv'
  <2>1. /\ pc' \in [Calls -> Stages] /\ lock' \in [Cells -> Calls \cup {None}] /\ item' \in [Calls -> Nat]
        /\ \A d \in Calls \ {c} : pc'[d] = pc[d] /\ item'[d] = item[d]
        /\ pc'[c] \in HalfStages \cup {"ok"}
        /\ pc'[c] \in HalfStages => item'[c] \in 1 .. Len(Items(c))
        /\ pc'[c] = "writes" => Writes(Items(c)[item'[c]])
        /\ pc'[c] = "removes" => Removes(Items(c)[item'[c]])
    BY <1>1, <1>4, HalfMoves
  <2>2. \A d \in Calls \ {c} : SameRow(d)
    BY <1>4, <2>1 DEF SameRow
  <2>3. /\ files' \in [Paths -> [data : Bytes, rev : Nat]] /\ revision' \in Nat /\ revision' >= revision
        /\ disturbed' \in [Calls -> BOOLEAN] /\ disturbed'[c] = disturbed[c]
        /\ Frame(c) /\ FilesInv' /\ OwnInv'
        /\ files'[p].data = data /\ \A q \in Paths : q # p => files'[q] = files[q]
    BY <1>1, <1>4, <2>2, PutOneStep
  <2>4. TypeOK'
    BY <1>1, <1>4, <2>1, <2>3 DEF TypeOK, HalfStages
  <2>5. Charge(c)' = Charge(c)
    BY <1>1, <1>4, <2>1 DEF Charge, HalfStages
  <2>6. StageInv(c)' /\ HoldInv(c)' /\ LinkInv(c)'
    <3>1. /\ pc'[c] \in HalfStages \cup UndoStages \cup {"ok", "failed", "broken", "copied"}
          /\ pc'[c] \notin UndoStages /\ pc'[c] \notin LostStages
      BY <2>1 DEF HalfStages, UndoStages, LostStages
    <3> QED
      BY <1>1, <1>4, <2>1, <2>3, <3>1, HookedCall DEF CallInv
  <2>7. UndoInv(c)'
    BY <1>1, <1>2, <1>4, <2>1, <2>3, HalfKept DEF CallInv
  <2> QED
    BY <1>4, <2>3, <2>4, <2>5, <2>6, <2>7, HookedDone DEF CallInv
<1>5. CASE /\ \/ pc[c] = "writes" /\ PutOne(c, it.to, Composed(c, it))
              \/ pc[c] = "removes" /\ Exists(it.p) /\ PutOne(c, it.p, {})
           /\ HalfDone(c)
           /\ UNCHANGED <<tries, used, op, saw, pin, before, bytes, faults>>
  BY <1>2, <1>4, <1>5
<1> QED
  BY <1>3, <1>5, <1>6 DEF Execute

\* A half whose answer was lost.
LEMMA LandHalfStep ==
    ASSUME IInv, NEW c \in Calls, LandHalf(c)
    PROVE  IInv'
<1> DEFINE it == Here(c)
<1>1. /\ TypeOK /\ CallInv(c) /\ pc[c] \in LostStages /\ op[c] \in Ops[c]
      /\ item[c] \in 1 .. Len(Items(c)) /\ backend = "hooked"
  BY DEF IInv, LandHalf, CallInv, StageInv, LostStages, TypeOK
<1>2. /\ Goto(c, "partly")
      /\ UNCHANGED <<backend, used, lock, op, item, tries, saw, pin, before, bytes, faults>>
  BY DEF LandHalf, local
<1>3. PICK p \in Paths, data \in Bytes : PutOne(c, p, data)
  <2>1. DOMAIN Items(c) = 1 .. Len(Items(c))
    BY <1>1, OpFacts DEF Items
  <2>2. it.p \in Paths /\ it.to \in Paths
    BY <1>1, <2>1, ItemFacts DEF Items, Here
  <2>3. Composed(c, it) \in Bytes /\ {} \in Bytes
    BY <1>1, <2>2, ComposedBytes DEF Bytes
  <2> QED
    BY <2>2, <2>3 DEF LandHalf
<1>4. "partly" \in Stages
  BY DEF Stages
<1>5. pc' \in [Calls -> Stages] /\ pc'[c] = "partly" /\ \A d \in Calls \ {c} : pc'[d] = pc[d]
  BY <1>1, <1>2, <1>4, GotoTypes
<1>6. \A d \in Calls \ {c} : SameRow(d)
  BY <1>2, <1>5 DEF SameRow
<1>7. /\ files' \in [Paths -> [data : Bytes, rev : Nat]] /\ revision' \in Nat /\ revision' >= revision
      /\ disturbed' \in [Calls -> BOOLEAN] /\ Frame(c) /\ FilesInv' /\ OwnInv'
  BY <1>1, <1>2, <1>3, <1>6, PutOneStep
<1>8. TypeOK'
  BY <1>1, <1>2, <1>5, <1>7 DEF TypeOK, LostStages
<1>9. Charge(c)' = Charge(c)
  BY <1>1, <1>2, <1>5 DEF Charge, LostStages
<1>10. StageInv(c)' /\ HoldInv(c)' /\ LinkInv(c)'
  <2>1. pc'[c] \notin HalfStages \cup UndoStages \cup LostStages
    BY <1>5 DEF HalfStages, UndoStages, LostStages
  <2> QED
    BY <1>1, <1>2, <1>5, <1>7, <2>1, HookedCall DEF CallInv, HalfStages
<1>11. UndoInv(c)'
  BY <1>5 DEF UndoInv, BatchStages, HalfStages, UndoStages, LostStages
<1> QED
  BY <1>2, <1>7, <1>8, <1>9, <1>10, <1>11, HookedDone DEF CallInv

-----------------------------------------------------------------------------
(* Commits.                                                                  *)

\* The bytes an item of a batch leaves at its target.
Landed(c, it) == IF it.k \in {"move", "rename"} THEN files[it.p].data ELSE Composed(c, it)

\* The files after a batch: each is as it was, gone, or written by an item.
LEMMA BatchFiles ==
    ASSUME NEW c, ApplyBatch(c)
    PROVE  /\ files' = [p \in Paths |-> files'[p]] /\ revision' = revision + Len(Items(c))
           /\ \A p \in Paths :
                 \/ files'[p] = files[p]
                 \/ files'[p] = Missing
                 \/ \E i \in DOMAIN Items(c) :
                       /\ Writes(Items(c)[i]) /\ Items(c)[i].to = p
                       /\ files'[p] = [data |-> Landed(c, Items(c)[i]), rev |-> revision + i]
<1> DEFINE its == Items(c)
           Writer(p) == {i \in DOMAIN its : Writes(its[i]) /\ its[i].to = p}
           F(p) == IF Writer(p) # {} THEN LET i == CHOOSE i \in Writer(p) : TRUE
                                          IN [data |-> Landed(c, its[i]), rev |-> revision + i]
                   ELSE IF \E i \in DOMAIN its : Removes(its[i]) /\ its[i].p = p THEN Missing
                   ELSE files[p]
<1>1. files' = [p \in Paths |-> F(p)] /\ revision' = revision + Len(its)
  BY DEF ApplyBatch, Change, Landed
<1>2. ASSUME NEW p \in Paths
      PROVE  \/ F(p) = files[p]
             \/ F(p) = Missing
             \/ \E i \in DOMAIN its : Writes(its[i]) /\ its[i].to = p /\ F(p) = [data |-> Landed(c, its[i]), rev |-> revision + i]
  <2>1. CASE Writer(p) # {}
    <3>1. PICK j : j = CHOOSE i \in Writer(p) : TRUE
      OBVIOUS
    <3>2. j \in Writer(p)
      BY <2>1, <3>1
    <3>3. F(p) = [data |-> Landed(c, its[j]), rev |-> revision + j]
      BY <2>1, <3>1
    <3>4. j \in DOMAIN its /\ Writes(its[j]) /\ its[j].to = p
      BY <3>2
    <3> QED
      BY <3>3, <3>4
  <2>2. CASE Writer(p) = {}
    BY <2>2
  <2> QED
    BY <2>1, <2>2
<1> HIDE DEF F
<1>3. \A p \in Paths : files'[p] = F(p)
  BY <1>1
<1>4. files' = [p \in Paths |-> files'[p]]
  BY <1>1
<1> QED
  BY <1>1, <1>2, <1>3, <1>4

\* An item that writes leaves bytes, read from the files or its own.
LEMMA LandedFacts ==
    ASSUME IInv, NEW c \in Calls, pc[c] \in {"commit", "unknown"}, BatchHolds(c), NEW i \in DOMAIN Items(c), Writes(Items(c)[i])
    PROVE  /\ Landed(c, Items(c)[i]) \in Bytes /\ Landed(c, Items(c)[i]) # {}
           /\ \A e \in Landed(c, Items(c)[i]) :
                 \/ e = c /\ bytes[c] > 0
                 \/ e \in files[Items(c)[i].p].data
                 \/ e \in saw[c][Items(c)[i].p]
<1>1. TypeOK /\ FilesInv /\ HoldInv(c) /\ op[c] \in Ops[c]
  BY DEF IInv, CallInv, TypeOK
<1>2. PICK it : it = Items(c)[i]
  OBVIOUS
<1>3. it.k \in PatchKinds \cup CallKinds /\ it.p \in Paths
  BY <1>1, <1>2, ItemFacts DEF Items
<1>4. CASE it.k \in {"move", "rename"}
  <2>1. Exists(it.p)
    BY <1>2, <1>4 DEF BatchHolds, Holds
  <2>2. files[it.p].data # {} /\ files[it.p].data \in Bytes
    BY <1>1, <1>3, <2>1, FileData DEF Exists, FilesInv
  <2> QED
    BY <1>2, <1>4, <2>2 DEF Landed
<1>5. CASE it.k \notin {"move", "rename"}
  <2>1. it.k \in {"add", "update", "rewrite", "append", "write"}
    BY <1>2, <1>3, <1>5 DEF Writes, PatchKinds, CallKinds
  <2>2. bytes[c] > 0
    BY <1>1, <1>2, <2>1 DEF HoldInv, Adding
  <2>3. Landed(c, it) = Composed(c, it) /\ Composed(c, it) \in Bytes
    BY <1>1, <1>3, <1>5, ComposedBytes DEF Landed
  <2>4. Composed(c, it) = {c} \/ Composed(c, it) = saw[c][it.p] \cup {c}
    BY <2>1 DEF Composed
  <2> QED
    BY <1>2, <2>2, <2>3, <2>4
<1> QED
  BY <1>4, <1>5

\* A batch that holds is applied.
LEMMA ApplyStep ==
    ASSUME IInv, NEW c \in Calls, pc[c] \in {"commit", "unknown"}, BatchHolds(c), ApplyBatch(c),
           pc' \in [Calls -> Stages], pc'[c] = "ok", \A d \in Calls \ {c} : pc'[d] = pc[d],
           lock' \in [Cells -> Calls \cup {None}],
           UNCHANGED <<backend, used, op, item, tries, saw, pin, before, bytes, faults>>
    PROVE  IInv'
<1>1. TypeOK /\ FilesInv /\ OwnInv /\ CallInv(c) /\ op[c] \in Ops[c]
  BY DEF IInv, TypeOK
<1>2. /\ files \in [Paths -> [data : Bytes, rev : Nat]] /\ revision \in Nat
      /\ Len(Items(c)) \in Nat /\ DOMAIN Items(c) = 1 .. Len(Items(c))
  BY <1>1, OpFacts DEF TypeOK, Items
<1>3. /\ files' = [p \in Paths |-> files'[p]] /\ revision' = revision + Len(Items(c))
      /\ \A p \in Paths :
            \/ files'[p] = files[p]
            \/ files'[p] = Missing
            \/ \E i \in DOMAIN Items(c) :
                  /\ Writes(Items(c)[i]) /\ Items(c)[i].to = p
                  /\ files'[p] = [data |-> Landed(c, Items(c)[i]), rev |-> revision + i]
  BY BatchFiles
<1>4. revision' \in Nat /\ revision' >= revision
  BY <1>2, <1>3
<1>5. ASSUME NEW p \in Paths
      PROVE  /\ files'[p] \in [data : Bytes, rev : Nat]
             /\ files'[p] = files[p] \/ files'[p].rev > revision \/ files'[p] = Missing
             /\ files'[p].rev <= revision' /\ (files'[p].rev = 0 <=> files'[p].data = {})
             /\ \A e \in files'[p].data : (e = c /\ bytes[c] > 0) \/ \E q \in Paths : e \in files[q].data \/ e \in saw[c][q]
  <2>1. CASE files'[p] = files[p]
    <3>1. files[p] \in [data : Bytes, rev : Nat] /\ files[p].rev <= revision /\ (files[p].rev = 0 <=> files[p].data = {})
      BY <1>1, <1>2 DEF FilesInv
    <3>2. files[p].rev \in Nat
      BY <3>1
    <3>3. files'[p].rev <= revision'
      BY <1>2, <1>4, <2>1, <3>1, <3>2
    <3> QED
      BY <2>1, <3>1, <3>3
  <2>2. CASE files'[p] = Missing
    <3>1. files'[p].data = {} /\ files'[p].rev = 0 /\ {} \in Bytes
      BY <2>2 DEF Missing, Bytes
    <3>2. files'[p] \in [data : Bytes, rev : Nat]
      BY <2>2, <3>1 DEF Missing
    <3> QED
      BY <1>4, <2>2, <3>1, <3>2
  <2>3. ASSUME NEW i \in DOMAIN Items(c), Writes(Items(c)[i]), Items(c)[i].to = p,
               files'[p] = [data |-> Landed(c, Items(c)[i]), rev |-> revision + i]
        PROVE  /\ files'[p] \in [data : Bytes, rev : Nat]
               /\ files'[p].rev > revision
               /\ files'[p].rev <= revision' /\ (files'[p].rev = 0 <=> files'[p].data = {})
               /\ \A e \in files'[p].data : (e = c /\ bytes[c] > 0) \/ \E q \in Paths : e \in files[q].data \/ e \in saw[c][q]
    <3>1. PICK v : v = Landed(c, Items(c)[i])
      OBVIOUS
    <3>2. /\ v \in Bytes /\ v # {}
          /\ \A e \in v : \/ e = c /\ bytes[c] > 0
                          \/ e \in files[Items(c)[i].p].data
                          \/ e \in saw[c][Items(c)[i].p]
      BY <2>3, <3>1, LandedFacts
    <3>3. files'[p] = [data |-> v, rev |-> revision + i]
      BY <2>3, <3>1
    <3>4. files'[p].data = v /\ files'[p].rev = revision + i
      BY <3>3
    <3>5. i \in 1 .. Len(Items(c)) /\ revision + i \in Nat /\ revision + i > revision /\ revision + i <= revision' /\ revision + i # 0
      BY <1>2, <1>3, <2>3
    <3>6. Items(c)[i].p \in Paths
      BY <1>1, ItemFacts DEF Items
    <3>7. files'[p] \in [data : Bytes, rev : Nat]
      BY <3>2, <3>3, <3>5
    <3>8. \A e \in files'[p].data : (e = c /\ bytes[c] > 0) \/ \E q \in Paths : e \in files[q].data \/ e \in saw[c][q]
      BY <3>2, <3>4, <3>6
    <3>9. files'[p].rev > revision /\ files'[p].rev <= revision' /\ (files'[p].rev = 0 <=> files'[p].data = {})
      BY <3>2, <3>4, <3>5
    <3> QED
      BY <3>7, <3>8, <3>9
  <2>4. CASE \E i \in DOMAIN Items(c) :
                /\ Writes(Items(c)[i]) /\ Items(c)[i].to = p
                /\ files'[p] = [data |-> Landed(c, Items(c)[i]), rev |-> revision + i]
    <3>1. PICK i \in DOMAIN Items(c) :
                /\ Writes(Items(c)[i]) /\ Items(c)[i].to = p
                /\ files'[p] = [data |-> Landed(c, Items(c)[i]), rev |-> revision + i]
      BY <2>4
    <3> QED
      BY <2>3, <3>1
  <2> QED
    BY <1>3, <2>1, <2>2, <2>4
<1>6. files' \in [Paths -> [data : Bytes, rev : Nat]]
  BY <1>3, <1>5
<1>7. FilesInv'
  BY <1>5 DEF FilesInv
<1>8. disturbed' = [d \in Calls |-> disturbed[d] \/ (d # c /\ \E q \in PathsOf(d) : files'[q] # files[q])]
  BY DEF ApplyBatch, Change
<1>9. disturbed' \in [Calls -> BOOLEAN]
  BY <1>8
<1>10. \A d \in Calls \ {c} :
          /\ disturbed[d] => disturbed'[d]
          /\ ~disturbed'[d] => \A q \in PathsOf(d) : files'[q] = files[q]
  BY <1>8
<1>11. TypeOK'
  BY <1>1, <1>4, <1>6, <1>9 DEF TypeOK
<1>12. Frame(c)
  <2>1. \A d \in Calls \ {c} : SameRow(d)
    BY DEF SameRow
  <2>2. \A p \in Paths : files'[p] = files[p] \/ files'[p].rev > revision \/ files'[p] = Missing
    BY <1>5
  <2> QED
    BY <1>4, <1>10, <2>1, <2>2 DEF Frame
<1>13. OwnInv'
  <2>1. \A e \in Calls : \A p \in Paths :
           /\ e \in files'[p].data =>
                 \/ e = c /\ pc'[c] = "ok" /\ bytes'[c] > 0
                 \/ \E q \in Paths : e \in files[q].data \/ e \in saw[c][q]
           /\ e \in saw'[c][p] => \E q \in Paths : e \in files[q].data \/ e \in saw[c][q]
    BY <1>5
  <2>2. pc[c] # "ok"
    OBVIOUS
  <2> QED
    BY <1>1, <1>11, <1>12, <2>1, <2>2, OwnStep
<1>14. Charge(c)' = Charge(c)
  BY DEF Charge
<1>15. CallInv(c)'
  <2>1. StageInv(c)' /\ HoldInv(c)' /\ UndoInv(c)'
    BY DEF StageInv, HoldInv, UndoInv, BatchStages, HalfStages, UndoStages, LostStages
  <2>2. LinkInv(c)'
    <3>1. \A p \in Paths : pin[c][p] <= revision /\ pin[c][p] \in Nat
      BY <1>1 DEF CallInv, LinkInv, TypeOK
    <3>2. \A p \in Paths : pin'[c][p] <= revision'
      BY <1>2, <1>4, <3>1
    <3> QED
      BY <3>2 DEF LinkInv
  <2> QED
    BY <2>1, <2>2 DEF CallInv
<1> QED
  BY <1>7, <1>11, <1>12, <1>13, <1>14, <1>15, HookedDone

\* A commit.
LEMMA CommitStep ==
    ASSUME IInv, NEW c \in Calls, Commit(c)
    PROVE  IInv'
<1>1. TypeOK /\ CallInv(c) /\ pc[c] = "commit" /\ backend' = backend /\ backend = "atomic"
  BY DEF IInv, Commit
<1>2. CASE BatchHolds(c) /\ ApplyBatch(c) /\ End(c, "ok") /\ UNCHANGED <<used, local, bytes, faults>>
  <2>1. "ok" \in Stages
    BY DEF Stages
  <2>2. /\ pc' \in [Calls -> Stages] /\ lock' \in [Cells -> Calls \cup {None}]
        /\ pc'[c] = "ok" /\ \A d \in Calls \ {c} : pc'[d] = pc[d]
    BY <1>1, <1>2, <2>1, EndTypes
  <2> QED
    BY <1>1, <1>2, <2>2, ApplyStep DEF local
<1>3. CASE ~BatchHolds(c) /\ (IF op[c].kind = "append" THEN Raced(c) ELSE FailReleasing(c)) /\ UNCHANGED faults
  <2>1. CASE op[c].kind = "append"
    BY <1>1, <1>3, <2>1, RacedStep
  <2>2. CASE op[c].kind # "append"
    BY <1>1, <1>3, <2>2, FailReleasingStep DEF Holding, TypeOK
  <2> QED
    BY <2>1, <2>2
<1>4. CASE Fault /\ End(c, "unknown") /\ UNCHANGED <<used, local, bytes, fs>>
  <2>1. UNCHANGED <<used, op, item, tries, saw, pin, before, bytes, files, revision, disturbed>>
    BY <1>4 DEF local, fs
  <2>2. "unknown" \in Stages
    BY DEF Stages
  <2>3. /\ pc' \in [Calls -> Stages] /\ lock' \in [Cells -> Calls \cup {None}]
        /\ pc'[c] = "unknown" /\ \A d \in Calls \ {c} : pc'[d] = pc[d]
    BY <1>1, <1>4, <2>2, EndTypes
  <2>4. faults' \in 0 .. MaxFaults
    BY <1>1, <1>4, SandboxAssumption DEF TypeOK, Fault, SandboxAssumption
  <2>5. TypeOK'
    BY <1>1, <2>1, <2>3, <2>4 DEF TypeOK
  <2>6. Quiet(c)
    BY <1>1, <2>1, <2>3 DEF Quiet, SameRow
  <2>7. Charge(c)' = Charge(c)
    BY <1>1, <2>1, <2>3 DEF Charge
  <2>8. Items(c)' = Items(c) /\ Adding(c)' = Adding(c)
    BY <2>1 DEF Items, Adding
  <2>9. StageInv(c)' /\ UndoInv(c)'
    BY <1>1, <2>3 DEF StageInv, UndoInv, BatchStages, HalfStages, UndoStages, LostStages
  <2>10. HoldInv(c)'
    BY <1>1, <2>1, <2>3, <2>8 DEF CallInv, HoldInv
  <2>11. LinkInv(c)'
    <3>1. \A p \in Paths : pin'[c][p] <= revision'
      BY <1>1, <2>1 DEF CallInv, LinkInv
    <3>2. ASSUME NEW i \in DOMAIN Items(c), Items(c)[i].k = "update"
          PROVE  pin'[c][Items(c)[i].p] > 0 /\ Linked(c, Items(c)[i].p)'
      <4>1. pin[c][Items(c)[i].p] > 0 /\ Linked(c, Items(c)[i].p)
        BY <1>1, <3>2 DEF CallInv, LinkInv
      <4> QED
        BY <2>1, <2>8, <4>1 DEF Linked
    <3>3. ASSUME NEW i \in DOMAIN Items(c), Items(c)[i].k = "append"
          PROVE  Linked(c, Items(c)[i].p)' /\ (pin'[c][Items(c)[i].p] = 0 => saw'[c][Items(c)[i].p] = {})
      <4>1. Linked(c, Items(c)[i].p) /\ (pin[c][Items(c)[i].p] = 0 => saw[c][Items(c)[i].p] = {})
        BY <1>1, <3>3 DEF CallInv, LinkInv
      <4> QED
        BY <2>1, <2>8, <4>1 DEF Linked
    <3> QED
      BY <2>3, <2>8, <3>1, <3>2, <3>3 DEF LinkInv
  <2> QED
    BY <1>1, <2>1, <2>5, <2>6, <2>7, <2>9, <2>10, <2>11, QuietStep DEF CallInv
<1> QED
  BY <1>2, <1>3, <1>4 DEF Commit

\* A commit whose answer was lost.
LEMMA LandLateStep ==
    ASSUME IInv, NEW c \in Calls, LandLate(c)
    PROVE  IInv'
<1>1. TypeOK /\ pc[c] = "unknown" /\ BatchHolds(c) /\ ApplyBatch(c) /\ Goto(c, "ok")
  BY DEF IInv, LandLate
<1>2. "ok" \in Stages /\ lock' \in [Cells -> Calls \cup {None}]
  BY <1>1 DEF Stages, LandLate, TypeOK
<1>3. pc' \in [Calls -> Stages] /\ pc'[c] = "ok" /\ \A d \in Calls \ {c} : pc'[d] = pc[d]
  BY <1>1, <1>2, GotoTypes
<1> QED
  BY <1>1, <1>2, <1>3, ApplyStep DEF LandLate, local

-----------------------------------------------------------------------------
(* The theorems.                                                             *)

\* Nothing is held at first.
LEMMA InitInvariant ==
    ASSUME Init
    PROVE  IInv
<1>1. /\ backend \in Backends /\ revision = 1 /\ faults = 0
      /\ files = [p \in Paths |-> IF p \in Seeded THEN [data |-> {Seed}, rev |-> 1] ELSE Missing]
      /\ used = [k \in Cells |-> 0] /\ lock = [k \in Cells |-> None] /\ bytes = [c \in Calls |-> 0]
      /\ pc = [c \in Calls |-> "idle"] /\ op = [c \in Calls |-> NoOperation]
      /\ item = [c \in Calls |-> 1] /\ tries = [c \in Calls |-> 1]
      /\ saw = [c \in Calls |-> [p \in Paths |-> {}]] /\ before = [c \in Calls |-> [p \in Paths |-> {}]]
      /\ pin = [c \in Calls |-> [p \in Paths |-> 0]] /\ disturbed = [c \in Calls |-> TRUE]
  BY DEF Init
<1>2. ASSUME NEW p \in Paths
      PROVE  /\ files[p] \in [data : Bytes, rev : Nat] /\ files[p].rev <= 1 /\ (files[p].rev = 0 <=> files[p].data = {})
             /\ files[p].data \subseteq {Seed}
  <2>1. {Seed} \in Bytes /\ {} \in Bytes
    BY DEF Bytes
  <2>2. CASE p \in Seeded
    <3>1. files[p] = [data |-> {Seed}, rev |-> 1]
      BY <1>1, <2>2
    <3>2. files[p].data = {Seed} /\ files[p].rev = 1
      BY <3>1
    <3> QED
      BY <2>1, <3>1, <3>2
  <2>3. CASE p \notin Seeded
    <3>1. files[p] = [data |-> {}, rev |-> 0]
      BY <1>1, <2>3 DEF Missing
    <3>2. files[p].data = {} /\ files[p].rev = 0
      BY <3>1
    <3> QED
      BY <2>1, <3>1, <3>2
  <2> QED
    BY <2>2, <2>3
<1>3. TypeOK
  <2>1. files \in [Paths -> [data : Bytes, rev : Nat]]
    <3>1. files = [p \in Paths |-> files[p]]
      BY <1>1
    <3> QED
      BY <1>2, <3>1
  <2>2. {} \in Bytes
    BY DEF Bytes
  <2>3. saw \in [Calls -> [Paths -> Bytes]] /\ before \in [Calls -> [Paths -> Bytes]] /\ pin \in [Calls -> [Paths -> Nat]]
    BY <1>1, <2>2
  <2>4. used \in [Cells -> Nat] /\ bytes \in [Calls -> Nat] /\ item \in [Calls -> Nat] /\ tries \in [Calls -> {1, 2}]
    BY <1>1
  <2>5. faults \in 0 .. MaxFaults
    BY <1>1, SandboxAssumption DEF SandboxAssumption
  <2>6. pc \in [Calls -> Stages] /\ \A c \in Calls : pc[c] = "idle"
    BY <1>1 DEF Stages
  <2>7. /\ op \in [Calls -> Operation \cup {NoOperation}] /\ lock \in [Cells -> Calls \cup {None}]
        /\ disturbed \in [Calls -> BOOLEAN] /\ revision \in Nat
    BY <1>1
  <2> QED
    BY <1>1, <2>1, <2>3, <2>4, <2>5, <2>6, <2>7 DEF TypeOK
<1>4. ASSUME NEW c \in Calls
      PROVE  CallInv(c)
  <2>1. /\ pc[c] = "idle" /\ item[c] = 1 /\ bytes[c] = 0 /\ disturbed[c] /\ op[c] = NoOperation
        /\ \A p \in Paths : pin[c][p] = 0
    BY <1>1
  <2>2. Items(c) = <<>> /\ DOMAIN Items(c) = {} /\ op[c].kind = "none"
    BY <2>1 DEF Items, NoOperation
  <2>3. StageInv(c) /\ HoldInv(c)
    BY <2>1 DEF StageInv, HoldInv, BatchStages, HalfStages, UndoStages, LostStages
  <2>4. LinkInv(c)
    BY <1>1, <2>1, <2>2 DEF LinkInv
  <2>5. UndoInv(c)
    BY <2>1, <2>2 DEF UndoInv
  <2> QED
    BY <2>3, <2>4, <2>5 DEF CallInv
<1>5. FilesInv
  BY <1>1, <1>2 DEF FilesInv
<1>6. OwnInv
  <2>1. \A c \in Calls, p \in Paths : c \notin files[p].data
    BY <1>2, SandboxAssumption DEF SandboxAssumption
  <2>2. \A d \in Calls, p \in Paths : saw[d][p] = {}
    BY <1>1
  <2> QED
    BY <2>1, <2>2 DEF OwnInv
<1>7. SumInv
  <2>1. \A c \in Calls : Charge(c) = 0
    BY <1>1 DEF Charge
  <2>2. \A k \in Cells : Held(k) = {}
    <3>1. 1 .. 0 = {}
      OBVIOUS
    <3>2. \A c \in Calls : {c} \X (1 .. Charge(c)) = {}
      BY <2>1, <3>1
    <3> QED
      BY <3>2 DEF Held
  <2>3. Cardinality({}) = 0
    BY FS_EmptySet
  <2>4. \A k \in Cells : used[k] = 0 /\ MaxBytes[k] \in Nat
    BY <1>1, SandboxAssumption DEF SandboxAssumption
  <2> QED
    BY <2>2, <2>3, <2>4 DEF SumInv
<1> QED
  BY <1>3, <1>4, <1>5, <1>6, <1>7 DEF IInv

\* Nothing happens.
LEMMA StutterInvariant ==
    ASSUME IInv, UNCHANGED vars
    PROVE  IInv'
<1>1. TypeOK' /\ FilesInv' /\ OwnInv'
  BY DEF IInv, vars, TypeOK, FilesInv, OwnInv
<1>2. SumInv'
  BY DEF IInv, vars, SumInv, Held, Charge
<1>3. ASSUME NEW c \in Calls
      PROVE  CallInv(c)'
  <2>1. CallInv(c)
    BY DEF IInv
  <2>2. UNCHANGED <<backend, files, revision, pc, op, item, saw, pin, before, bytes, disturbed>>
    BY DEF vars
  <2>3. Items(c)' = Items(c) /\ Here(c)' = Here(c) /\ Adding(c)' = Adding(c)
    BY <2>2 DEF Items, Here, Adding
  <2>4. StageInv(c)' /\ HoldInv(c)'
    BY <2>1, <2>2, <2>3 DEF CallInv, StageInv, HoldInv
  <2>5. LinkInv(c)'
    <3>1. \A p : Linked(c, p)' = Linked(c, p)
      BY <2>2 DEF Linked
    <3> QED
      BY <2>1, <2>2, <2>3, <3>1 DEF CallInv, LinkInv, Linked
  <2>6. UndoInv(c)'
    <3>1. \A i : UndoneTo(c, i)' = UndoneTo(c, i) /\ UndoneFrom(c, i)' = UndoneFrom(c, i)
      BY <2>2 DEF UndoneTo, UndoneFrom
    <3>2. ASSUME NEW i \in DOMAIN Items(c)
          PROVE  /\ OpenTo(c, Items(c)[i])' = OpenTo(c, Items(c)[i]) /\ OpenFrom(c, Items(c)[i])' = OpenFrom(c, Items(c)[i])
                 /\ SafeTo(c, Items(c)[i])' = SafeTo(c, Items(c)[i]) /\ SafeFrom(c, Items(c)[i])' = SafeFrom(c, Items(c)[i])
      BY <2>2, <2>3 DEF OpenTo, OpenFrom, SafeTo, SafeFrom, Composed
    <3> QED
      BY <2>1, <2>2, <2>3, <3>1, <3>2 DEF CallInv, UndoInv
  <2> QED
    BY <2>4, <2>5, <2>6 DEF CallInv
<1> QED
  BY <1>1, <1>2, <1>3 DEF IInv

\* Every step keeps the invariant.
LEMMA NextInvariant ==
    ASSUME IInv, [Next]_vars
    PROVE  IInv'
<1>1. CASE UNCHANGED vars
  BY <1>1, StutterInvariant
<1>2. ASSUME NEW c \in Calls, NEW o \in Ops[c], StartBatch(c, o)
      PROVE  IInv'
  BY <1>2, StartBatchStep
<1>3. ASSUME NEW c \in Calls, NEW o \in Ops[c], StartCall(c, o)
      PROVE  IInv'
  BY <1>3, StartCallStep
<1>4. ASSUME NEW c \in Calls, PlanItem(c) \/ Lock(c) \/ PinItem(c) \/ ValidateItem(c) \/ Capture(c)
      PROVE  IInv'
  BY <1>4, PlanItemStep, LockStep, PinItemStep, ValidateItemStep, CaptureStep
<1>5. ASSUME NEW c \in Calls, Commit(c) \/ LandLate(c) \/ Execute(c) \/ LandHalf(c) \/ Compensate(c) \/ Undo(c)
      PROVE  IInv'
  BY <1>5, CommitStep, LandLateStep, ExecuteStep, LandHalfStep, CompensateStep, UndoStep
<1>6. ASSUME NEW c \in Calls, Observe(c) \/ ReadFile(c) \/ ObserveAgain(c) \/ Inspect(c) \/ Copy(c)
      PROVE  IInv'
  BY <1>6, ObserveStep, ReadFileStep, ObserveAgainStep, InspectStep, CopyStep
<1> QED
  BY <1>1, <1>2, <1>3, <1>4, <1>5, <1>6 DEF Next

\* The invariant holds in every reachable state.
THEOREM Invariant == Spec => []IInv
<1>1. Init => IInv
  BY InitInvariant
<1>2. IInv /\ [Next]_vars => IInv'
  BY NextInvariant
<1> QED
  BY <1>1, <1>2, PTL DEF Spec

\* The state keeps its types; a call that has started performs an operation it
\* was given.
THEOREM TypeCorrect == Spec => []TypeOK
<1>1. IInv => TypeOK
  BY DEF IInv
<1> QED
  BY <1>1, Invariant, PTL

\* A batch that failed left its paths as it recorded them, unless another call
\* changed one of them since (apply_vfs_mutations and its rollback).
THEOREM FailedBatches == Spec => []FailedBatchLeavesNothing
<1>1. ASSUME IInv, NEW c \in Calls, pc[c] = "failed", op[c].kind = "batch", ~disturbed[c], NEW p \in PathsOf(c)
      PROVE  files[p].data = before[c][p]
  <2>1. UndoInv(c) /\ op[c] \in Ops[c]
    BY <1>1 DEF IInv, CallInv, TypeOK
  <2>2. PICK i \in DOMAIN Items(c) : p = Items(c)[i].p \/ p = Items(c)[i].to
    BY <1>1 DEF PathsOf
  <2>3. PICK it : it = Items(c)[i]
    OBVIOUS
  <2>4. SafeTo(c, it) /\ SafeFrom(c, it)
    BY <1>1, <2>1, <2>3 DEF UndoInv, UndoneTo, UndoneFrom
  <2>5. it.k \in PatchKinds /\ (it.k \in Moving <=> it.p # it.to)
    BY <1>1, <2>1, <2>3, ItemFacts DEF Items
  <2>6. CASE it.k \in Moving
    <3>1. Writes(it) /\ Removes(it)
      BY <2>6 DEF Writes, Removes, Moving
    <3> QED
      BY <2>2, <2>3, <2>4, <3>1 DEF SafeTo, SafeFrom
  <2>7. CASE it.k \notin Moving
    <3>1. Writes(it) \/ Removes(it)
      BY DEF Writes, Removes
    <3> QED
      BY <2>2, <2>3, <2>4, <2>5, <2>7, <3>1 DEF SafeTo, SafeFrom
  <2> QED
    BY <2>6, <2>7
<1>2. IInv => FailedBatchLeavesNothing
  BY <1>1 DEF FailedBatchLeavesNothing
<1> QED
  BY <1>2, Invariant, PTL

\* used_vfs_bytes is what the calls of the cell hold, within the limit, and
\* where batches are atomic bytes in files are paid for (guards.rs).
THEOREM BudgetExact == Spec => []BytesAccounted
<1>1. ASSUME IInv, backend = "atomic", NEW c \in Calls, NEW p \in Paths, c \in files[p].data
      PROVE  Charge(c) > 0
  <2>1. pc[c] = "ok" /\ bytes[c] > 0
    BY <1>1 DEF IInv, OwnInv
  <2> QED
    BY <2>1 DEF Charge
<1>2. IInv => SumInv
  BY DEF IInv
<1>3. IInv => BytesAccounted
  BY <1>1, <1>2 DEF BytesAccounted, SumInv
<1> QED
  BY <1>3, Invariant, PTL

\* On a file system with batches, files change when a batch is applied.
LEMMA OnlyCommits ==
    ASSUME IInv, NEW c \in Calls, backend = "atomic",
           \/ \E o \in Ops[c] : StartBatch(c, o) \/ StartCall(c, o)
           \/ PlanItem(c) \/ Lock(c) \/ PinItem(c) \/ ValidateItem(c) \/ Capture(c)
           \/ Commit(c) \/ LandLate(c) \/ Execute(c) \/ LandHalf(c) \/ Compensate(c) \/ Undo(c)
           \/ Observe(c) \/ ReadFile(c) \/ ObserveAgain(c) \/ Inspect(c) \/ Copy(c)
    PROVE  \/ files' = files
           \/ pc[c] \in {"commit", "unknown"} /\ BatchHolds(c) /\ ApplyBatch(c) /\ pc'[c] = "ok"
<1>1. TypeOK /\ StageInv(c)
  BY DEF IInv, CallInv
<1>2. FailReleasing(c) => files' = files
  BY DEF FailReleasing, fs
<1>3. Raced(c) => files' = files
  BY <1>2 DEF Raced, fs
<1>4. ASSUME NEW o \in Ops[c], StartBatch(c, o) \/ StartCall(c, o)
      PROVE  files' = files
  BY <1>4 DEF StartBatch, StartCall, fs
<1>5. CASE PlanItem(c) \/ Lock(c)
  BY <1>5 DEF PlanItem, Lock, fs
<1>6. CASE PinItem(c)
  BY <1>2, <1>6 DEF PinItem, fs
<1>7. CASE ValidateItem(c)
  BY <1>2, <1>7 DEF ValidateItem, fs
<1>8. CASE Capture(c)
  BY <1>2, <1>8 DEF Capture
<1>9. CASE Observe(c) \/ ReadFile(c) \/ Inspect(c) \/ Copy(c)
  BY <1>9 DEF Observe, ReadFile, Inspect, Copy, fs
<1>10. CASE ObserveAgain(c)
  BY <1>3, <1>10 DEF ObserveAgain, fs
<1>11. ~Execute(c) /\ ~LandHalf(c) /\ ~Compensate(c) /\ ~Undo(c)
  <2>1. pc[c] \notin HalfStages \cup UndoStages \cup LostStages
    BY <1>1 DEF StageInv
  <2> QED
    BY <2>1 DEF Execute, LandHalf, Compensate, Undo, HalfStages, UndoStages, LostStages
<1>12. CASE Commit(c)
  <2>1. CASE BatchHolds(c) /\ ApplyBatch(c) /\ End(c, "ok")
    BY <1>1, <1>12, <2>1 DEF Commit, End, Goto, TypeOK
  <2>2. CASE IF op[c].kind = "append" THEN Raced(c) ELSE FailReleasing(c)
    BY <1>2, <1>3, <2>2
  <2>3. CASE UNCHANGED fs
    BY <2>3 DEF fs
  <2> QED
    BY <1>12, <2>1, <2>2, <2>3 DEF Commit, fs
<1>13. CASE LandLate(c)
  BY <1>1, <1>13 DEF LandLate, Goto, TypeOK
<1> QED
  BY <1>4, <1>5, <1>6, <1>7, <1>8, <1>9, <1>10, <1>11, <1>12, <1>13

\* An item of a patch or an append is applied to a file that is there: it
\* builds on what it read, and that is what is there.
LEMMA BuildsOn ==
    ASSUME IInv, NEW c \in Calls, pc[c] \in {"commit", "unknown"}, BatchHolds(c), op[c].kind \notin {"write", "rename"},
           NEW i \in DOMAIN Items(c), Writes(Items(c)[i]), Exists(Items(c)[i].to)
    PROVE  files[Items(c)[i].to].data \subseteq Landed(c, Items(c)[i])
<1>1. TypeOK /\ LinkInv(c) /\ op[c] \in Ops[c]
  BY DEF IInv, CallInv, TypeOK
<1>2. PICK it : it = Items(c)[i]
  OBVIOUS
<1>3. /\ it.k \in PatchKinds \cup CallKinds /\ it.k \notin {"write", "rename"} /\ it.p \in Paths
      /\ it.k \in Moving <=> it.p # it.to
  <2>1. /\ it.k \in PatchKinds \cup CallKinds /\ it.p \in Paths
        /\ it.k \in Moving <=> it.p # it.to
        /\ op[c].kind = "batch" => it.k \in PatchKinds
        /\ op[c].kind # "batch" => it.k = op[c].kind
    BY <1>1, <1>2, ItemFacts DEF Items
  <2> QED
    BY <2>1 DEF PatchKinds
<1>4. Holds(c, it)
  BY <1>2 DEF BatchHolds
<1>5. it.k \in {"update", "append"}
  <2>1. it.k \in {"update", "append", "add", "move", "rewrite"}
    BY <1>2, <1>3 DEF Writes, PatchKinds, CallKinds
  <2>2. it.k # "add"
    <3>1. ASSUME it.k = "add"
          PROVE  FALSE
      <4>1. ~Exists(it.p) /\ it.p = it.to
        BY <1>3, <1>4, <3>1 DEF Holds, Moving
      <4> QED
        BY <1>2, <4>1
    <3> QED
      BY <3>1
  <2>3. it.k \notin {"move", "rewrite"}
    BY <1>2, <1>4 DEF Holds
  <2> QED
    BY <2>1, <2>2, <2>3
<1>6. it.to = it.p /\ Exists(it.p) /\ files[it.p].rev = pin[c][it.p] /\ pin[c][it.p] > 0
  <2>1. it.to = it.p
    BY <1>3, <1>5 DEF Moving
  <2>2. files[it.p].rev = pin[c][it.p]
    BY <1>4, <1>5 DEF Holds
  <2> QED
    BY <1>2, <2>1, <2>2 DEF Exists
<1>7. Linked(c, it.p)
  BY <1>1, <1>2, <1>5 DEF LinkInv
<1>8. files[it.p].data = saw[c][it.p]
  BY <1>6, <1>7 DEF Linked
<1>9. Landed(c, it) = saw[c][it.p] \cup {c}
  BY <1>5 DEF Landed, Composed
<1> QED
  BY <1>2, <1>6, <1>8, <1>9

\* Where the file system has revisions, nobody's bytes are dropped from a file
\* that stays, except by a write or a rename (memory_atomic.rs, fs_proxy*.rs).
THEOREM NothingDropped == Spec => BuildsOnWhatIsThere
<1> DEFINE A == backend = "atomic" =>
                  \A p \in Paths : Exists(p) /\ files'[p].rev > 0 =>
                     \/ files[p].data \subseteq files'[p].data
                     \/ \E c \in Calls : pc'[c] # pc[c] /\ op[c].kind \in {"write", "rename"}
<1>1. ASSUME IInv, Next, backend = "atomic", NEW p \in Paths, Exists(p), files'[p].rev > 0,
             ~(\E c \in Calls : pc'[c] # pc[c] /\ op[c].kind \in {"write", "rename"})
      PROVE  files[p].data \subseteq files'[p].data
  <2>1. PICK c \in Calls :
           \/ files' = files
           \/ pc[c] \in {"commit", "unknown"} /\ BatchHolds(c) /\ ApplyBatch(c) /\ pc'[c] = "ok"
    BY <1>1, OnlyCommits DEF Next
  <2>2. CASE files' = files
    BY <2>2
  <2>3. CASE pc[c] \in {"commit", "unknown"} /\ BatchHolds(c) /\ ApplyBatch(c) /\ pc'[c] = "ok"
    <3>1. op[c].kind \notin {"write", "rename"}
      BY <1>1, <2>3
    <3>2. \/ files'[p] = files[p]
          \/ files'[p] = Missing
          \/ \E i \in DOMAIN Items(c) :
                /\ Writes(Items(c)[i]) /\ Items(c)[i].to = p
                /\ files'[p] = [data |-> Landed(c, Items(c)[i]), rev |-> revision + i]
      BY <2>3, BatchFiles
    <3>3. files'[p] # Missing
      BY <1>1 DEF Missing
    <3>4. ASSUME NEW i \in DOMAIN Items(c), Writes(Items(c)[i]), Items(c)[i].to = p,
                 files'[p] = [data |-> Landed(c, Items(c)[i]), rev |-> revision + i]
          PROVE  files[p].data \subseteq files'[p].data
      <4>1. files[p].data \subseteq Landed(c, Items(c)[i])
        BY <1>1, <2>3, <3>1, <3>4, BuildsOn
      <4>2. files'[p].data = Landed(c, Items(c)[i])
        BY <3>4
      <4> QED
        BY <4>1, <4>2
    <3> QED
      BY <3>2, <3>3, <3>4
  <2> QED
    BY <2>1, <2>2, <2>3
<1>2. IInv /\ [Next]_vars => [A]_vars
  BY <1>1
<1> QED
  BY <1>2, Invariant, PTL DEF Spec, BuildsOnWhatIsThere

=============================================================================
