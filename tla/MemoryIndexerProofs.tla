------------------------- MODULE MemoryIndexerProofs -------------------------
(* Proofs about MemoryIndexer, for every set of paths, every capacity of the *)
(* channel and of the queue, every retry limit and any number of crashes.    *)
EXTENDS MemoryIndexer, TLAPS

-----------------------------------------------------------------------------
(* Sequences of events.                                                      *)

\* Events that fit the store still fit when one that fits is appended.
LEMMA FitAppend ==
    ASSUME NEW c, NEW s \in Seq(Events), NEW e \in Events, AllFit(c, s), Fits(c, e)
    PROVE  AllFit(c, Append(s, e))
    <1>1. ASSUME NEW i \in DOMAIN Append(s, e) PROVE Append(s, e)[i] = e \/ \E j \in DOMAIN s : Append(s, e)[i] = s[j]
        OBVIOUS
    <1> QED BY <1>1 DEF AllFit

\* The head of a sequence whose events fit the store fits it, and so does the rest.
LEMMA FitTail ==
    ASSUME NEW c, NEW s \in Seq(Events), s # <<>>, AllFit(c, s)
    PROVE  AllFit(c, Tail(s)) /\ Fits(c, Head(s))
    <1>1. ASSUME NEW i \in DOMAIN Tail(s) PROVE \E j \in DOMAIN s : Tail(s)[i] = s[j]
        OBVIOUS
    <1>2. Head(s) = s[1] /\ 1 \in DOMAIN s
        OBVIOUS
    <1> QED BY <1>1, <1>2 DEF AllFit

\* Versions are naturals.
LEMMA VersionTypes ==
    ASSUME TypeOK, NEW p \in Paths
    PROVE  /\ content[p].version \in Nat /\ chunks[p].version \in Nat /\ chunks[p].data \in Nat
           /\ backlog[p].version \in Nat /\ backlog[p].retry \in 0 .. MaxRetries /\ tombs[p] \in Nat
           /\ content[p].deleted \in BOOLEAN /\ chunks[p].embedded \in BOOLEAN
    BY DEF TypeOK, Versions

\* A write gives its path the next version and leaves the others alone.
LEMMA WriteContent ==
    ASSUME TypeOK, NEW p \in Paths, NEW op \in {"put", "delete"}, NEW b \in BOOLEAN, Write(p, op, b)
    PROVE  /\ content' \in [Paths -> [version : Versions, deleted : BOOLEAN, blank : BOOLEAN]]
           /\ content'[p].version = content[p].version + 1
           /\ content'[p].deleted <=> op = "delete"
           /\ \A q \in Paths \ {p} : content'[q] = content[q]
    <1> DEFINE d == op = "delete"
    <1>1. d \in BOOLEAN
        OBVIOUS
    <1>2. content' = [content EXCEPT ![p] = [version |-> content[p].version + 1, deleted |-> d, blank |-> b]]
        BY DEF Write
    <1>3. d <=> op = "delete"
        OBVIOUS
    <1> HIDE DEF d
    <1>4. [version |-> content[p].version + 1, deleted |-> d, blank |-> b]
            \in [version : Versions, deleted : BOOLEAN, blank : BOOLEAN]
        <2>1. content[p].version + 1 \in Nat
            BY VersionTypes
        <2> QED BY <1>1, <2>1 DEF Versions
    <1>5. content' \in [Paths -> [version : Versions, deleted : BOOLEAN, blank : BOOLEAN]]
        BY <1>2, <1>4 DEF TypeOK
    <1>6. content'[p].version = content[p].version + 1
        BY <1>1, <1>2 DEF TypeOK, Versions
    <1>7. content'[p].deleted = d
        BY <1>1, <1>2 DEF TypeOK, Versions
    <1>8. \A q \in Paths \ {p} : content'[q] = content[q]
        BY <1>1, <1>2 DEF TypeOK, Versions
    <1> QED BY <1>3, <1>5, <1>6, <1>7, <1>8

\* Events that fit the store still fit when a path is written again.
LEMMA FitWrite ==
    ASSUME TypeOK, NEW p \in Paths, NEW op \in {"put", "delete"}, NEW b \in BOOLEAN, Write(p, op, b),
           NEW s \in Seq(Events), AllFit(content, s)
    PROVE  AllFit(content', s)
    <1>1. ASSUME NEW e \in Events, Fits(content, e) PROVE Fits(content', e)
        <2>1. e.path \in Paths /\ e.version \in Nat /\ content[e.path].version \in Nat
            BY DEF Events, TypeOK, Versions
        <2>2. CASE e.path = p
            BY <1>1, <2>1, <2>2, WriteContent DEF Fits
        <2>3. CASE e.path # p
            BY <1>1, <2>1, <2>3, WriteContent DEF Fits
        <2> QED BY <2>2, <2>3
    <1>2. \A i \in DOMAIN s : s[i] \in Events
        OBVIOUS
    <1> QED BY <1>1, <1>2 DEF AllFit

\* What a write leaves: its event in the channel, and every event fits.
LEMMA WriteEffect ==
    ASSUME TypeOK, NEW p \in Paths, NEW op \in {"put", "delete"}, NEW b \in BOOLEAN, Write(p, op, b)
    PROVE  /\ content' \in [Paths -> [version : Versions, deleted : BOOLEAN, blank : BOOLEAN]]
           /\ channel' \in Seq(Events)
           /\ AllFit(content, channel) => AllFit(content', channel')
    <1> DEFINE e == [op |-> op, path |-> p, version |-> content[p].version + 1]
    <1>1. /\ content' \in [Paths -> [version : Versions, deleted : BOOLEAN, blank : BOOLEAN]]
          /\ e \in Events /\ Fits(content', e)
        <2>1. content[p].version + 1 \in Nat \ {0}
            BY VersionTypes
        <2>2. e.path = p /\ e.op = op /\ e.version = content[p].version + 1 /\ e \in Events
            BY <2>1 DEF Events, Versions
        <2> HIDE DEF e
        <2> QED BY <2>1, <2>2, WriteContent DEF Fits
    <1>2. Broadcast(e)
        BY DEF Write
    <1>3. channel \in Seq(Events)
        BY DEF TypeOK
    <1>5. AllFit(content, channel) => AllFit(content', channel)
        BY <1>3, FitWrite
    <1> HIDE DEF e
    <1>6. CASE Len(channel) < ChannelCapacity
        <2>1. channel' = Append(channel, e)
            BY <1>2, <1>6 DEF Broadcast
        <2> QED BY <1>1, <1>3, <1>5, <2>1, FitAppend
    <1>7. CASE ~(Len(channel) < ChannelCapacity)
        <2>1. channel' = Append(Tail(channel), e)
            BY <1>2, <1>7 DEF Broadcast
        <2>2. channel # <<>>
            BY <1>3, <1>7, MemoryAssumption
        <2>3. Tail(channel) \in Seq(Events)
            BY <1>3, <2>2
        <2>4. AllFit(content, channel) => AllFit(content', Tail(channel))
            BY <1>3, <1>5, <2>2, FitTail
        <2>5. AllFit(content, channel) => AllFit(content', channel')
            BY <1>1, <2>1, <2>3, <2>4, FitAppend
        <2>6. channel' \in Seq(Events)
            BY <1>1, <2>1, <2>3
        <2> QED BY <1>1, <2>5, <2>6
    <1> QED BY <1>6, <1>7

-----------------------------------------------------------------------------
(* Types.                                                                    *)

\* The dispatcher and the worker take the head of a sequence of events.
LEMMA HeadEvent ==
    ASSUME NEW s \in Seq(Events), s # <<>>
    PROVE  /\ Head(s) \in Events /\ Tail(s) \in Seq(Events)
           /\ Head(s).op \in {"put", "delete"} /\ Head(s).path \in Paths /\ Head(s).version \in Versions
    <1>1. Head(s) \in Events /\ Tail(s) \in Seq(Events)
        OBVIOUS
    <1> QED BY <1>1 DEF Events

\* Constants of the state's types.
LEMMA NoneTypes ==
    /\ NoChunks \in [version : Versions, data : Versions, embedded : BOOLEAN]
    /\ NoRow \in [version : Versions, retry : 0 .. MaxRetries]
    /\ NoJob \in [path : Paths, version : Versions, data : Versions]
    /\ Idle \in [at : {"idle", "stage", "embed", "done", "failed", "dead"},
                 path : Paths, version : Versions, data : Versions]
    /\ Dead \in [at : {"idle", "stage", "embed", "done", "failed", "dead"},
                 path : Paths, version : Versions, data : Versions]
    /\ Idle.at = "idle" /\ Dead.at = "dead" /\ NoJob.path \in Paths
    <1>1. (CHOOSE p \in Paths : TRUE) \in Paths
        BY MemoryAssumption
    <1> QED BY <1>1, MemoryAssumption DEF NoChunks, NoRow, NoJob, Idle, Dead, Versions

\* A delete applied to the index leaves it well typed.
LEMMA DeletePathTypes ==
    ASSUME TypeOK, NEW p \in Paths, NEW v \in Nat, DeletePath(p, v)
    PROVE  /\ tombs' \in [Paths -> Versions]
           /\ chunks' \in [Paths -> [version : Versions, data : Versions, embedded : BOOLEAN]]
           /\ unordered' \subseteq Paths
    BY NoneTypes DEF DeletePath, TypeOK, Versions

\* A row enqueued for a version is well typed.
LEMMA EnqueueTypes ==
    ASSUME TypeOK, NEW p \in Paths, NEW v \in Nat, EnqueueBacklog(p, v)
    PROVE  backlog' \in [Paths -> [version : Versions, retry : 0 .. MaxRetries]]
    <1>1. [version |-> v, retry |-> 0] \in [version : Versions, retry : 0 .. MaxRetries]
        BY MemoryAssumption DEF Versions
    <1> QED BY <1>1 DEF EnqueueBacklog, TypeOK

\* TypeOK is preserved by every step; the retry count stays within its limit
\* because the drainer counts an attempt once for a row it took below it.
LEMMA TypeInductive ==
    ASSUME TypeOK, DrainerOwnsRows, [Next]_vars
    PROVE  TypeOK'
    <1> USE NoneTypes
    <1>1. ASSUME NEW p \in Paths, Put(p) \/ Delete(p) PROVE TypeOK'
        <2>1. PICK op \in {"put", "delete"}, b \in BOOLEAN : Write(p, op, b)
            BY <1>1 DEF Put, Delete
        <2>2. /\ content' \in [Paths -> [version : Versions, deleted : BOOLEAN, blank : BOOLEAN]]
              /\ channel' \in Seq(Events)
            BY <2>1, WriteEffect
        <2> QED BY <1>1, <2>2 DEF TypeOK, Put, Delete, index, lane, drainer
    <1>2. ASSUME NEW p \in Paths, ReaperDelete(p) PROVE TypeOK'
        <2>1. Write(p, "delete", FALSE)
            BY <1>2 DEF ReaperDelete
        <2>2. reaper' \subseteq Rows
            <3>1. content[p].version + 1 \in Nat
                BY VersionTypes
            <3> QED BY <1>2, <3>1 DEF ReaperDelete, Versions, Rows
        <2> QED BY <1>2, <2>1, <2>2, WriteEffect DEF TypeOK, ReaperDelete, index, lane, drainer
    <1>3. CASE DispatchSend
        <2>1. channel' \in Seq(Events) /\ queue' \in Seq(Events)
            BY <1>3, HeadEvent DEF DispatchSend, TypeOK
        <2> QED BY <1>3, <2>1 DEF DispatchSend, TypeOK, index, drainer
    <1>4. CASE DispatchClosed
        <2>1. channel' \in Seq(Events)
            BY <1>4, HeadEvent DEF DispatchClosed, TypeOK
        <2> QED BY <1>4, <2>1 DEF DispatchClosed, TypeOK, index, drainer
    <1>5. CASE DispatchOverflow
        <2> DEFINE e == Head(channel)
        <2>1. /\ channel' \in Seq(Events) /\ e \in Events
              /\ e.path \in Paths /\ e.version \in Nat
            BY <1>5, HeadEvent DEF DispatchOverflow, TypeOK, Versions
        <2> HIDE DEF e
        <2>2. CASE e.op = "put" /\ EnqueueBacklog(e.path, e.version) /\ UNCHANGED <<index, unordered>>
            BY <1>5, <2>1, <2>2, EnqueueTypes DEF DispatchOverflow, TypeOK, index, lane, drainer
        <2>3. CASE e.op = "delete" /\ DeletePath(e.path, e.version) /\ UNCHANGED backlog
            BY <1>5, <2>1, <2>3, DeletePathTypes DEF DispatchOverflow, TypeOK, lane, drainer
        <2> QED BY <1>5, <2>2, <2>3 DEF DispatchOverflow, e
    <1>6. CASE WorkerDelete
        <2> DEFINE e == Head(queue)
        <2>1. /\ queue' \in Seq(Events) /\ e \in Events
              /\ e.path \in Paths /\ e.version \in Nat
            BY <1>6, HeadEvent DEF WorkerDelete, TypeOK, Versions
        <2>2. DeletePath(e.path, e.version)
            BY <1>6 DEF WorkerDelete
        <2> HIDE DEF e
        <2> QED BY <1>6, <2>1, <2>2, DeletePathTypes DEF WorkerDelete, TypeOK, drainer
    <1>7. CASE WorkerPut
        <2>1. /\ queue' \in Seq(Events) /\ Head(queue) \in Events
              /\ Head(queue).path \in Paths /\ Head(queue).version \in Versions
            BY <1>7, HeadEvent DEF WorkerPut, TypeOK
        <2>2. content[Head(queue).path].version \in Versions
            BY <2>1 DEF TypeOK
        <2>3. [path |-> Head(queue).path, version |-> Head(queue).version,
               data |-> content[Head(queue).path].version] \in [path : Paths, version : Versions, data : Versions]
            BY <2>1, <2>2
        <2>4. /\ worker' \in {"idle", "embedding"}
              /\ job' \in [path : Paths, version : Versions, data : Versions]
            BY <1>7, <2>1, <2>3 DEF WorkerPut, TypeOK
        <2> QED BY <1>7, <2>1, <2>4 DEF WorkerPut, TypeOK, index, drainer
    <1>8. CASE WorkerUpsert
        <2>1. UNCHANGED <<tombs, unordered>> /\ chunks' \in [Paths -> [version : Versions, data : Versions, embedded : BOOLEAN]]
            BY <1>8 DEF WorkerUpsert, Upsert, TypeOK, Versions
        <2> QED BY <1>8, <2>1 DEF WorkerUpsert, TypeOK, drainer
    <1>9. CASE WorkerEmbedFails \/ WorkerPanics
        <2>3. CASE WorkerEmbedFails
            BY <2>3 DEF WorkerEmbedFails, TypeOK, index, drainer
        <2>4. CASE WorkerPanics
            BY <2>4 DEF WorkerPanics, TypeOK, index, drainer
        <2> QED BY <1>9, <2>3, <2>4
    <1>10. CASE TakeBatch
        <2>1. batch' \subseteq Rows
            BY <1>10 DEF TakeBatch, TypeOK, Rows
        <2> QED BY <1>10, <2>1 DEF TakeBatch, TypeOK, store, index, lane
    <1>11. CASE DrainRow
        <2>1. PICK row \in batch :
                 /\ batch' = batch \ {row}
                 /\ \E step \in {"stage", "embed", "done"}, data \in {0, chunks[row[1]].data, content[row[1]].version} :
                      drain' = [at |-> step, path |-> row[1], version |-> row[2], data |-> data]
            BY <1>11 DEF DrainRow
        <2>2. row \in Rows /\ row[1] \in Paths /\ row[2] \in Versions
            BY DEF TypeOK, Rows
        <2>3. chunks[row[1]].data \in Versions /\ content[row[1]].version \in Versions /\ 0 \in Versions
            BY <2>2 DEF TypeOK, Versions
        <2>4. drain' \in [at : {"idle", "stage", "embed", "done", "failed", "dead"},
                          path : Paths, version : Versions, data : Versions]
            BY <2>1, <2>2, <2>3
        <2> QED BY <1>11, <2>1, <2>2, <2>4 DEF DrainRow, TypeOK, store, index, lane
    <1>12. CASE StageChunks
        BY <1>12 DEF StageChunks, UpsertChunksOnly, TypeOK, store, lane
    <1>19. CASE DrainPanics
        BY <1>19 DEF DrainPanics, TypeOK, store, index, lane
    <1>13. CASE WriteVectors \/ DrainEmbedFails
        <2>1. drain.path \in Paths /\ chunks[drain.path] \in [version : Versions, data : Versions, embedded : BOOLEAN]
            BY DEF TypeOK
        <2>2. [chunks[drain.path] EXCEPT !.embedded = TRUE] \in [version : Versions, data : Versions, embedded : BOOLEAN]
            BY <2>1
        <2>3. chunks' \in [Paths -> [version : Versions, data : Versions, embedded : BOOLEAN]]
            BY <1>13, <2>1, <2>2 DEF WriteVectors, DrainEmbedFails, TypeOK, index
        <2>4. drain' \in [at : {"idle", "stage", "embed", "done", "failed", "dead"},
                          path : Paths, version : Versions, data : Versions]
            BY <1>13 DEF WriteVectors, DrainEmbedFails, TypeOK
        <2> QED BY <1>13, <2>3, <2>4 DEF WriteVectors, DrainEmbedFails, TypeOK, store, index, lane
    <1>14. CASE DeleteRow
        BY <1>14 DEF DeleteRow, TypeOK, store, index, lane
    <1>15. CASE BumpRetry
        <2>1. drain.path \in Paths /\ backlog[drain.path] \in [version : Versions, retry : 0 .. MaxRetries]
            BY DEF TypeOK
        <2>2. backlog[drain.path].version = drain.version => backlog[drain.path].retry + 1 \in 0 .. MaxRetries
            BY <1>15, <2>1, MemoryAssumption DEF BumpRetry, DrainerOwnsRows, Versions
        <2>3. [backlog[drain.path] EXCEPT !.retry = IF backlog[drain.path].version = drain.version THEN @ + 1 ELSE @]
                \in [version : Versions, retry : 0 .. MaxRetries]
            BY <2>1, <2>2
        <2>4. backlog \in [Paths -> [version : Versions, retry : 0 .. MaxRetries]]
            BY DEF TypeOK
        <2>5. backlog' \in [Paths -> [version : Versions, retry : 0 .. MaxRetries]]
            BY <1>15, <2>1, <2>3, <2>4 DEF BumpRetry
        <2> QED BY <1>15, <2>5 DEF BumpRetry, TypeOK, store, index, lane
    <1>16. CASE ReaperClearsIndex
        <2>1. PICK row \in reaper : DeletePath(row[1], row[2])
            BY <1>16 DEF ReaperClearsIndex
        <2>2. row[1] \in Paths /\ row[2] \in Nat
            BY DEF TypeOK, Rows, Versions
        <2> QED BY <1>16, <2>1, <2>2, DeletePathTypes DEF ReaperClearsIndex, TypeOK, store, lane, drainer
    <1>17. CASE KeepIndex \/ ReindexBackground \/ WipeAndRebuild
        <2>1. Restart
            BY <1>17 DEF KeepIndex, ReindexBackground, WipeAndRebuild
        <2>4. crashes' \in 0 .. MaxCrashes
            BY <2>1, MemoryAssumption DEF Restart, TypeOK
        <2>5. chunks' \in [Paths -> [version : Versions, data : Versions, embedded : BOOLEAN]]
            <3>1. \A p \in Paths : [chunks[p] EXCEPT !.embedded = FALSE]
                                     \in [version : Versions, data : Versions, embedded : BOOLEAN]
                BY DEF TypeOK
            <3>2. CASE KeepIndex
                BY <3>2 DEF KeepIndex, TypeOK
            <3>3. CASE ReindexBackground
                BY <3>1, <3>3 DEF ReindexBackground
            <3>4. CASE WipeAndRebuild
                BY <3>4 DEF WipeAndRebuild
            <3> QED BY <1>17, <3>2, <3>3, <3>4
        <2>6. backlog' \in [Paths -> [version : Versions, retry : 0 .. MaxRetries]]
            <3>1. \A p \in Paths : /\ [version |-> chunks[p].version, retry |-> 0] \in [version : Versions, retry : 0 .. MaxRetries]
                                   /\ [version |-> content[p].version, retry |-> 0] \in [version : Versions, retry : 0 .. MaxRetries]
                                   /\ backlog[p] \in [version : Versions, retry : 0 .. MaxRetries]
                BY MemoryAssumption DEF TypeOK
            <3>2. CASE KeepIndex
                BY <3>2 DEF KeepIndex, TypeOK
            <3>3. CASE ReindexBackground
                BY <3>1, <3>3 DEF ReindexBackground
            <3>4. CASE WipeAndRebuild
                BY <3>1, <3>4 DEF WipeAndRebuild
            <3> QED BY <1>17, <3>2, <3>3, <3>4
        <2>7. unordered' \subseteq Paths
            BY <1>17 DEF KeepIndex, ReindexBackground, WipeAndRebuild, TypeOK
        <2> QED BY <2>1, <2>4, <2>5, <2>6, <2>7 DEF Restart, TypeOK
    <1>18. CASE UNCHANGED vars
        BY <1>18 DEF vars, TypeOK
    <1> QED BY <1>1, <1>2, <1>3, <1>4, <1>5, <1>6, <1>7, <1>8, <1>9, <1>10, <1>11, <1>12, <1>13, <1>14, <1>15,
               <1>16, <1>17, <1>18, <1>19 DEF Next, Drain, DrainStep, DrainEmbed

-----------------------------------------------------------------------------
(* What the shared writes do to the rows of each path.                       *)

\* delete_path: the chunks go, the tombstone takes the higher version, and a
\* newer version that is removed is recorded.
LEMMA DeletePathEffect ==
    ASSUME TypeOK, NEW p \in Paths, NEW v \in Nat, DeletePath(p, v)
    PROVE  /\ chunks'[p] = NoChunks /\ NoChunks.version = 0 /\ NoChunks.data = 0
           /\ tombs'[p] = IF v > tombs[p] THEN v ELSE tombs[p]
           /\ \A q \in Paths \ {p} : chunks'[q] = chunks[q] /\ tombs'[q] = tombs[q]
           /\ unordered \subseteq unordered' /\ unordered' \subseteq unordered \cup {p}
           /\ chunks[p].version > v => p \in unordered'
    BY DEF DeletePath, TypeOK, NoChunks

\* upsert: nothing, behind a tombstone or chunks as new; or the new version.
LEMMA UpsertEffect ==
    ASSUME TypeOK, NEW p \in Paths, NEW v \in Nat, NEW data \in Nat, Upsert(p, v, data)
    PROVE  /\ UNCHANGED <<tombs, unordered>>
           /\ \A q \in Paths \ {p} : chunks'[q] = chunks[q]
           /\ \/ chunks'[p] = chunks[p] /\ (tombs[p] >= v \/ (chunks[p].version >= v /\ chunks[p].version > 0))
              \/ /\ chunks'[p].version = v /\ chunks'[p].data = data /\ chunks'[p].embedded
                 /\ tombs[p] < v /\ (chunks[p].version < v \/ chunks[p].version = 0)
    <1>1. CASE tombs[p] >= v \/ (chunks[p].version >= v /\ chunks[p].version > 0)
        BY <1>1 DEF Upsert
    <1>2. CASE ~(tombs[p] >= v \/ (chunks[p].version >= v /\ chunks[p].version > 0))
        <2>1. chunks' = [chunks EXCEPT ![p] = [version |-> v, data |-> data, embedded |-> TRUE]]
            BY <1>2 DEF Upsert
        <2>2. chunks'[p] = [version |-> v, data |-> data, embedded |-> TRUE]
              /\ \A q \in Paths \ {p} : chunks'[q] = chunks[q]
            BY <2>1 DEF TypeOK
        <2>3. tombs[p] < v /\ (chunks[p].version < v \/ chunks[p].version = 0)
            BY <1>2, VersionTypes
        <2> QED BY <2>2, <2>3 DEF Upsert
    <1> QED BY <1>1, <1>2

\* upsert_chunks_only: the chunks of this version, whatever was there.
LEMMA ChunksOnlyEffect ==
    ASSUME TypeOK, NEW p \in Paths, NEW v \in Nat, NEW data \in Nat, UpsertChunksOnly(p, v, data)
    PROVE  /\ chunks'[p].version = v /\ chunks'[p].data = data /\ ~chunks'[p].embedded
           /\ \A q \in Paths \ {p} : chunks'[q] = chunks[q]
           /\ tombs' = tombs
           /\ unordered \subseteq unordered' /\ unordered' \subseteq unordered \cup {p}
           /\ chunks[p].version > v \/ tombs[p] >= v => p \in unordered'
    <1>1. chunks'[p] = [version |-> v, data |-> data, embedded |-> FALSE]
          /\ \A q \in Paths \ {p} : chunks'[q] = chunks[q]
        BY DEF UpsertChunksOnly, TypeOK
    <1> QED BY <1>1 DEF UpsertChunksOnly

\* enqueue_backlog_for: a strictly newer version, or the row there was.
LEMMA EnqueueEffect ==
    ASSUME TypeOK, NEW p \in Paths, NEW v \in Nat, EnqueueBacklog(p, v)
    PROVE  /\ \A q \in Paths \ {p} : backlog'[q] = backlog[q]
           /\ \/ v > backlog[p].version /\ backlog'[p].version = v /\ backlog'[p].retry = 0
              \/ v <= backlog[p].version /\ backlog'[p] = backlog[p]
    <1>1. CASE v > backlog[p].version
        <2>1. backlog'[p] = [version |-> v, retry |-> 0] /\ \A q \in Paths \ {p} : backlog'[q] = backlog[q]
            BY <1>1 DEF EnqueueBacklog, TypeOK
        <2> QED BY <1>1, <2>1
    <1>2. CASE ~(v > backlog[p].version)
        BY <1>2, VersionTypes DEF EnqueueBacklog
    <1> QED BY <1>1, <1>2

\* write_vectors_for_chunks: versions and data stay; the row is done only if the
\* chunks it was about are there and have their vectors.
LEMMA VectorsEffect ==
    ASSUME TypeOK, WriteVectors
    PROVE  /\ \A q \in Paths : /\ chunks'[q].version = chunks[q].version /\ chunks'[q].data = chunks[q].data
                               /\ chunks[q].embedded => chunks'[q].embedded
           /\ \A q \in Paths \ {drain.path} : chunks'[q] = chunks[q]
           /\ drain'.at = "done" => chunks[drain.path].version = drain.version /\ chunks'[drain.path].embedded
    <1>1. drain.path \in Paths /\ chunks[drain.path] \in [version : Versions, data : Versions, embedded : BOOLEAN]
        BY DEF TypeOK
    <1>2. CASE /\ chunks[drain.path].version = drain.version
               /\ chunks' = [chunks EXCEPT ![drain.path].embedded = TRUE]
        <2>1. chunks'[drain.path] = [chunks[drain.path] EXCEPT !.embedded = TRUE]
              /\ \A q \in Paths \ {drain.path} : chunks'[q] = chunks[q]
            BY <1>1, <1>2 DEF TypeOK
        <2>2. /\ chunks'[drain.path].version = chunks[drain.path].version
              /\ chunks'[drain.path].data = chunks[drain.path].data
              /\ chunks'[drain.path].embedded = TRUE
            BY <1>1, <2>1
        <2> QED BY <1>2, <2>1, <2>2
    <1>3. CASE UNCHANGED chunks /\ drain' = [drain EXCEPT !.at = "failed"]
        <2>1. drain'.at = "failed"
            BY <1>3 DEF TypeOK
        <2> QED BY <1>3, <2>1
    <1> QED BY <1>2, <1>3 DEF WriteVectors

\* delete_backlog_row: the row goes if it is still of the drained version.
LEMMA DeleteRowEffect ==
    ASSUME TypeOK, DeleteRow
    PROVE  /\ \A q \in Paths \ {drain.path} : backlog'[q] = backlog[q]
           /\ \/ /\ backlog[drain.path].version = drain.version
                 /\ backlog'[drain.path].version = 0 /\ backlog'[drain.path].retry = 0
              \/ backlog[drain.path].version # drain.version /\ backlog'[drain.path] = backlog[drain.path]
    <1>1. drain.path \in Paths
        BY DEF TypeOK
    <1>2. /\ backlog'[drain.path] = IF backlog[drain.path].version = drain.version THEN NoRow ELSE backlog[drain.path]
          /\ \A q \in Paths \ {drain.path} : backlog'[q] = backlog[q]
        BY <1>1 DEF DeleteRow, TypeOK
    <1> QED BY <1>2 DEF NoRow

\* bump_backlog_retry: versions stay.
LEMMA BumpEffect ==
    ASSUME TypeOK, BumpRetry
    PROVE  /\ \A q \in Paths \ {drain.path} : backlog'[q] = backlog[q]
           /\ backlog'[drain.path].version = backlog[drain.path].version
    <1>1. drain.path \in Paths /\ backlog[drain.path] \in [version : Versions, retry : 0 .. MaxRetries]
        BY DEF TypeOK
    <1>2. /\ backlog'[drain.path] = [backlog[drain.path] EXCEPT !.retry =
                                       IF backlog[drain.path].version = drain.version THEN @ + 1 ELSE @]
          /\ \A q \in Paths \ {drain.path} : backlog'[q] = backlog[q]
        BY <1>1 DEF BumpRetry, TypeOK
    <1> QED BY <1>1, <1>2

\* mark_tenant_stale: only the vectors go.
LEMMA ClearedEffect ==
    ASSUME TypeOK, ReindexBackground, NEW q \in Paths
    PROVE  chunks'[q].version = chunks[q].version /\ chunks'[q].data = chunks[q].data
    <1>1. chunks'[q] = [chunks[q] EXCEPT !.embedded = FALSE]
        BY DEF ReindexBackground
    <1>2. chunks[q] \in [version : Versions, data : Versions, embedded : BOOLEAN]
        BY DEF TypeOK
    <1> QED BY <1>1, <1>2

\* The head of the channel or of the queue, taken by the dispatcher or the
\* worker, fits the store.
LEMMA HeadFits ==
    ASSUME TypeOK, NEW s \in Seq(Events), s # <<>>, AllFit(content, s)
    PROVE  /\ Head(s).path \in Paths /\ Head(s).version \in Nat
           /\ Head(s).version > 0 /\ Head(s).version <= content[Head(s).path].version
           /\ Head(s).version = content[Head(s).path].version =>
                (Head(s).op = "delete" <=> content[Head(s).path].deleted)
           /\ Tail(s) \in Seq(Events) /\ AllFit(content, Tail(s))
    <1>1. Fits(content, Head(s)) /\ AllFit(content, Tail(s))
        BY FitTail
    <1>2. Head(s).path \in Paths /\ Head(s).version \in Nat /\ Tail(s) \in Seq(Events)
        BY HeadEvent DEF Versions
    <1> QED BY <1>1, <1>2, VersionTypes DEF Fits

-----------------------------------------------------------------------------
(* The store leads.                                                          *)

\* A delete of a version the store has reached leaves the index behind it.
LEMMA DeleteStaysBehind ==
    ASSUME TypeOK, StoreLeads, NEW p \in Paths, NEW v \in Nat, DeletePath(p, v), content' = content,
           v <= content[p].version, v = content[p].version => content[p].deleted
    PROVE  \A q \in Paths :
               /\ chunks'[q].version <= content[q].version
               /\ tombs'[q] <= content[q].version
               /\ content[q].version > 0 /\ tombs'[q] = content[q].version => content[q].deleted
    <1> SUFFICES ASSUME NEW q \in Paths
                 PROVE  /\ chunks'[q].version <= content[q].version
                        /\ tombs'[q] <= content[q].version
                        /\ content[q].version > 0 /\ tombs'[q] = content[q].version => content[q].deleted
        OBVIOUS
    <1>1. CASE q = p
        BY <1>1, DeletePathEffect, VersionTypes DEF StoreLeads
    <1>2. CASE q # p
        BY <1>2, DeletePathEffect DEF StoreLeads
    <1> QED BY <1>1, <1>2

\* A write of a path leaves everything behind it.
LEMMA WriteStaysAhead ==
    ASSUME TypeOK, StoreLeads, NEW p \in Paths, NEW op \in {"put", "delete"}, NEW b \in BOOLEAN, Write(p, op, b),
           UNCHANGED <<index, backlog, lane>>
    PROVE  /\ AllFit(content', channel') /\ AllFit(content', queue')
           /\ \A q \in Paths :
                /\ chunks'[q].version <= content'[q].version
                /\ backlog'[q].version <= content'[q].version
                /\ tombs'[q] <= content'[q].version
                /\ content'[q].version > 0 /\ tombs'[q] = content'[q].version => content'[q].deleted
           /\ worker' = "embedding" => job'.version <= content'[job'.path].version
           /\ \A row \in reaper :
                /\ row[2] <= content'[row[1]].version
                /\ row[2] = content'[row[1]].version => content'[row[1]].deleted
    <1>1. AllFit(content', channel') /\ AllFit(content', queue')
        <2>1. queue' = queue /\ queue \in Seq(Events) /\ AllFit(content, channel) /\ AllFit(content, queue)
            BY DEF StoreLeads, TypeOK, lane
        <2> QED BY <2>1, WriteEffect, FitWrite
    <1>2. ASSUME NEW q \in Paths
          PROVE  /\ content[q].version \in Nat /\ content'[q].version \in Nat
                 /\ \/ content'[q] = content[q]
                    \/ content'[q].version = content[q].version + 1
        BY WriteContent, VersionTypes DEF Versions
    <1>3. ASSUME NEW q \in Paths
          PROVE  /\ chunks'[q].version <= content'[q].version
                 /\ backlog'[q].version <= content'[q].version
                 /\ tombs'[q] <= content'[q].version
                 /\ content'[q].version > 0 /\ tombs'[q] = content'[q].version => content'[q].deleted
        BY <1>2, VersionTypes DEF StoreLeads, index
    <1>4. worker' = "embedding" => job'.version <= content'[job'.path].version
        <2>1. /\ UNCHANGED <<worker, job>> /\ job.path \in Paths /\ job.version \in Nat
              /\ worker = "embedding" => job.version <= content[job.path].version
            BY DEF StoreLeads, TypeOK, lane, Versions
        <2> QED BY <1>2, <2>1
    <1>5. ASSUME NEW row \in reaper
          PROVE  /\ row[2] <= content'[row[1]].version
                 /\ row[2] = content'[row[1]].version => content'[row[1]].deleted
        <2>1. row[1] \in Paths /\ row[2] \in Nat
            BY DEF TypeOK, Rows, Versions
        <2> QED BY <1>2, <2>1 DEF StoreLeads
    <1> QED BY <1>1, <1>3, <1>4, <1>5

\* Every step keeps the store ahead.
LEMMA StoreLeadsStep ==
    ASSUME TypeOK, StoreLeads, DrainerOwnsRows, [Next]_vars
    PROVE  StoreLeads'
    <1>1. ASSUME NEW p \in Paths, Put(p) \/ Delete(p) PROVE StoreLeads'
        <2>1. PICK op \in {"put", "delete"}, b \in BOOLEAN : Write(p, op, b)
            BY <1>1 DEF Put, Delete
        <2>2. UNCHANGED <<index, backlog, lane, reaper>>
            BY <1>1 DEF Put, Delete
        <2> QED BY <2>1, <2>2, WriteStaysAhead DEF StoreLeads
    <1>2. ASSUME NEW p \in Paths, ReaperDelete(p) PROVE StoreLeads'
        <2>1. Write(p, "delete", FALSE) /\ UNCHANGED <<index, backlog, lane>>
            BY <1>2 DEF ReaperDelete
        <2>4. content'[p].version = content[p].version + 1 /\ content'[p].deleted
            BY <2>1, WriteContent
        <2>2. reaper' = {<<p, content'[p].version>>} /\ content'[p].deleted /\ content'[p].version \in Nat
            BY <1>2, <2>4, VersionTypes DEF ReaperDelete
        <2>3. \A row \in reaper' : /\ row[2] <= content'[row[1]].version
                                   /\ row[2] = content'[row[1]].version => content'[row[1]].deleted
            BY <2>2
        <2> QED BY <2>1, <2>3, WriteStaysAhead DEF StoreLeads
    <1>3. CASE DispatchSend
        <2>1. AllFit(content, Tail(channel)) /\ AllFit(content, Append(queue, Head(channel)))
            BY <1>3, FitTail, FitAppend, HeadEvent DEF DispatchSend, StoreLeads, TypeOK
        <2>2. worker' = "embedding" <=> worker = "embedding"
            BY <1>3 DEF DispatchSend
        <2> QED BY <1>3, <2>1, <2>2 DEF DispatchSend, StoreLeads, index
    <1>4. CASE DispatchClosed
        <2>1. AllFit(content, Tail(channel))
            BY <1>4, FitTail DEF DispatchClosed, StoreLeads, TypeOK
        <2> QED BY <1>4, <2>1 DEF DispatchClosed, StoreLeads, index
    <1>5. CASE DispatchOverflow
        <2> DEFINE e == Head(channel)
        <2>1. /\ e.path \in Paths /\ e.version \in Nat /\ e.version <= content[e.path].version
              /\ e.version = content[e.path].version => (e.op = "delete" <=> content[e.path].deleted)
              /\ AllFit(content, channel')
            BY <1>5, HeadFits DEF DispatchOverflow, TypeOK, StoreLeads
        <2>2. UNCHANGED <<content, lane, reaper>>
            BY <1>5 DEF DispatchOverflow
        <2> HIDE DEF e
        <2>3. CASE e.op = "put" /\ EnqueueBacklog(e.path, e.version) /\ UNCHANGED <<index, unordered>>
            <3>1. ASSUME NEW q \in Paths PROVE backlog'[q].version <= content[q].version
                <4>1. CASE q = e.path
                    BY <2>1, <2>3, <4>1, EnqueueEffect DEF StoreLeads
                <4>2. CASE q # e.path
                    BY <2>1, <2>3, <4>2, EnqueueEffect DEF StoreLeads
                <4> QED BY <4>1, <4>2
            <3> QED BY <2>1, <2>2, <2>3, <3>1 DEF StoreLeads, index, lane
        <2>4. CASE e.op = "delete" /\ DeletePath(e.path, e.version) /\ UNCHANGED backlog
            BY <2>1, <2>2, <2>4, DeleteStaysBehind DEF StoreLeads, lane
        <2> QED BY <1>5, <2>3, <2>4 DEF DispatchOverflow, e
    <1>6. CASE WorkerDelete
        <2> DEFINE e == Head(queue)
        <2>1. /\ e.path \in Paths /\ e.version \in Nat /\ e.version <= content[e.path].version
              /\ e.version = content[e.path].version => content[e.path].deleted
              /\ AllFit(content, queue') /\ DeletePath(e.path, e.version)
            BY <1>6, HeadFits DEF WorkerDelete, TypeOK, StoreLeads
        <2>2. UNCHANGED <<content, backlog, channel, worker, job, reaper>>
            BY <1>6 DEF WorkerDelete
        <2> HIDE DEF e
        <2> QED BY <2>1, <2>2, DeleteStaysBehind DEF StoreLeads
    <1>7. CASE WorkerPut
        <2> DEFINE e == Head(queue)
        <2>1. /\ e.version <= content[e.path].version
              /\ AllFit(content, queue')
            BY <1>7, HeadFits DEF WorkerPut, TypeOK, StoreLeads
        <2>2. UNCHANGED <<content, index, backlog, channel, reaper>>
            BY <1>7 DEF WorkerPut
        <2>3. \/ worker' = "idle"
              \/ job' = [path |-> e.path, version |-> e.version, data |-> content[e.path].version]
            BY <1>7 DEF WorkerPut
        <2> HIDE DEF e
        <2>4. worker' = "embedding" => job'.version <= content[job'.path].version
            BY <2>1, <2>3
        <2> QED BY <2>1, <2>2, <2>4 DEF StoreLeads, index
    <1>8. CASE WorkerUpsert
        <2>1. /\ job.path \in Paths /\ job.version \in Nat /\ job.data \in Nat
              /\ job.version <= content[job.path].version /\ Upsert(job.path, job.version, job.data)
            BY <1>8 DEF WorkerUpsert, StoreLeads, TypeOK, Versions
        <2>2. \A q \in Paths : chunks'[q].version <= content[q].version /\ tombs' = tombs
            BY <2>1, UpsertEffect DEF StoreLeads
        <2> QED BY <1>8, <2>2 DEF WorkerUpsert, StoreLeads
    <1>9. CASE WorkerEmbedFails \/ WorkerPanics
        <2>1. AllFit(content, queue')
            BY <1>9 DEF WorkerEmbedFails, WorkerPanics, StoreLeads, AllFit
        <2> QED BY <1>9, <2>1 DEF WorkerEmbedFails, WorkerPanics, StoreLeads, index
    <1>10. CASE TakeBatch \/ DrainRow \/ DrainEmbedFails \/ DrainPanics
        BY <1>10 DEF TakeBatch, DrainRow, DrainEmbedFails, DrainPanics, StoreLeads, store, index, lane
    <1>11. CASE StageChunks
        <2>1. /\ drain.path \in Paths /\ drain.version \in Nat /\ drain.data \in Nat
              /\ UpsertChunksOnly(drain.path, drain.version, drain.data)
            BY <1>11 DEF StageChunks, TypeOK, Versions
        <2>2. drain.version <= content[drain.path].version
            BY <1>11, <2>1, VersionTypes DEF StageChunks, DrainerOwnsRows, StoreLeads
        <2>3. \A q \in Paths : chunks'[q].version <= content[q].version /\ tombs' = tombs
            BY <2>1, <2>2, ChunksOnlyEffect DEF StoreLeads
        <2> QED BY <1>11, <2>3 DEF StageChunks, StoreLeads, store, lane
    <1>12. CASE WriteVectors
        <2>1. \A q \in Paths : chunks'[q].version = chunks[q].version
            BY <1>12, VectorsEffect
        <2> QED BY <1>12, <2>1 DEF WriteVectors, StoreLeads, store, lane
    <1>13. CASE DeleteRow \/ BumpRetry
        <2>1. \A q \in Paths : backlog'[q].version <= backlog[q].version
            BY <1>13, DeleteRowEffect, BumpEffect, VersionTypes
        <2>2. \A q \in Paths : backlog'[q].version \in Nat
            BY <1>13, DeleteRowEffect, BumpEffect, VersionTypes
        <2>3. \A q \in Paths : backlog'[q].version <= content[q].version
            BY <2>1, <2>2, VersionTypes DEF StoreLeads
        <2> QED BY <1>13, <2>3 DEF DeleteRow, BumpRetry, StoreLeads, store, index, lane
    <1>14. CASE ReaperClearsIndex
        <2>1. PICK row \in reaper : DeletePath(row[1], row[2])
            BY <1>14 DEF ReaperClearsIndex
        <2>2. row[1] \in Paths /\ row[2] \in Nat
            BY DEF TypeOK, Rows, Versions
        <2> QED BY <1>14, <2>1, <2>2, DeleteStaysBehind DEF ReaperClearsIndex, StoreLeads, store, lane
    <1>15. CASE KeepIndex \/ ReindexBackground \/ WipeAndRebuild
        <2>1. Restart
            BY <1>15 DEF KeepIndex, ReindexBackground, WipeAndRebuild
        <2>2. AllFit(content', channel') /\ AllFit(content', queue')
            BY <2>1 DEF Restart, AllFit
        <2>3. \A q \in Paths : chunks'[q].version <= content[q].version
            BY <1>15, ClearedEffect, VersionTypes DEF KeepIndex, WipeAndRebuild, StoreLeads, NoChunks
        <2>4. \A q \in Paths : backlog'[q].version <= content[q].version
            BY <1>15, VersionTypes DEF KeepIndex, ReindexBackground, WipeAndRebuild, StoreLeads, NoRow
        <2> QED BY <2>1, <2>2, <2>3, <2>4 DEF Restart, StoreLeads
    <1>16. CASE UNCHANGED vars
        BY <1>16 DEF vars, StoreLeads
    <1> QED BY <1>1, <1>2, <1>3, <1>4, <1>5, <1>6, <1>7, <1>8, <1>9, <1>10, <1>11, <1>12, <1>13, <1>14, <1>15,
               <1>16 DEF Next, Drain, DrainStep, DrainEmbed

-----------------------------------------------------------------------------
(* Reads, chunks and tombstones.                                             *)

\* A write leaves the drainer done with what it was done with.
LEMMA DoneStays ==
    ASSUME TypeOK, StoreLeads, DrainerOwnsRows, ReadsAreCurrent,
           NEW p \in Paths, NEW op \in {"put", "delete"}, NEW b \in BOOLEAN, Write(p, op, b),
           UNCHANGED <<worker, job, drain>>
    PROVE  ReadsAreCurrent'
    <1>1. drain.path \in Paths /\ drain.version \in Nat
        BY DEF TypeOK, Versions
    <1>2. CASE drain.path = p /\ drain.at = "done"
        <2>1. drain.version <= content[p].version
            BY <1>1, <1>2, VersionTypes DEF DrainerOwnsRows, StoreLeads
        <2>2. content'[p].version # drain.version
            BY <1>1, <2>1, WriteContent, VersionTypes
        <2> QED BY <1>2, <2>2 DEF ReadsAreCurrent, IsCurrent
    <1>3. CASE drain.path # p
        <2>1. content'[drain.path] = content[drain.path]
            BY <1>1, <1>3, WriteContent
        <2> QED BY <2>1 DEF ReadsAreCurrent, IsCurrent, Live
    <1>4. CASE drain.at # "done"
        BY <1>4 DEF ReadsAreCurrent
    <1> QED BY <1>2, <1>3, <1>4

\* Every step keeps what a lane has read of the version it will write.
LEMMA ReadsStep ==
    ASSUME TypeOK, StoreLeads, DrainerOwnsRows, ReadsAreCurrent, ChunksAreOfTheirVersion, [Next]_vars
    PROVE  ReadsAreCurrent'
    <1>1. CASE WorkerPut
        <2> DEFINE e == Head(queue)
        <2>1. /\ e.path \in Paths /\ e.version \in Nat /\ e.version <= content[e.path].version
              /\ content[e.path].version \in Nat
            BY <1>1, HeadFits, VersionTypes DEF WorkerPut, TypeOK, StoreLeads
        <2>2. drain' = drain /\ content' = content
            BY <1>1 DEF WorkerPut, drainer
        <2>3. \/ worker' = "idle"
              \/ /\ ~(content[e.path].version > e.version)
                 /\ job' = [path |-> e.path, version |-> e.version, data |-> content[e.path].version]
            BY <1>1 DEF WorkerPut, TooNew
        <2> HIDE DEF e
        <2>4. worker' = "embedding" => job'.data = job'.version
            BY <2>1, <2>3
        <2> QED BY <2>2, <2>4 DEF ReadsAreCurrent, IsCurrent, Live
    <1>2. CASE DrainRow
        <2>1. UNCHANGED <<worker, job, content>>
            BY <1>2 DEF DrainRow, lane, store
        <2>2. PICK row \in batch :
                 \/ /\ drain'.at = "done" /\ drain'.path = row[1] /\ drain'.version = row[2]
                    /\ ~(IsCurrent(row[1], row[2]) /\ ~content[row[1]].blank)
                 \/ /\ content[row[1]].version = row[2]
                    /\ drain' = [at |-> "stage", path |-> row[1], version |-> row[2], data |-> content[row[1]].version]
                 \/ /\ chunks[row[1]].version = row[2]
                    /\ drain' = [at |-> "embed", path |-> row[1], version |-> row[2], data |-> chunks[row[1]].data]
            BY <1>2 DEF DrainRow, IsCurrent
        <2>3. row[1] \in Paths
            BY DEF TypeOK, Rows
        <2>4. drain'.at \in {"stage", "embed"} => drain'.data = drain'.version
            BY <2>2, <2>3 DEF ChunksAreOfTheirVersion
        <2>5. drain'.at = "done" => ~(IsCurrent(drain'.path, drain'.version) /\ ~content[drain'.path].blank)
            BY <2>2
        <2> QED BY <2>1, <2>4, <2>5 DEF ReadsAreCurrent, IsCurrent, Live
    <1>3. CASE StageChunks \/ WriteVectors
        <2>1. /\ UNCHANGED <<worker, job>> /\ drain.at \in {"stage", "embed"}
              /\ drain'.data = drain.data /\ drain'.version = drain.version
            BY <1>3 DEF StageChunks, WriteVectors, TypeOK, lane
        <2> QED BY <2>1 DEF ReadsAreCurrent
    <1>9. CASE DrainEmbedFails \/ DrainPanics \/ DeleteRow \/ BumpRetry
        <2>1. UNCHANGED <<worker, job>> /\ drain'.at \in {"failed", "dead", "idle"}
            BY <1>9, NoneTypes DEF DrainEmbedFails, DrainPanics, DeleteRow, BumpRetry, TypeOK, lane
        <2> QED BY <2>1 DEF ReadsAreCurrent
    <1>4. CASE KeepIndex \/ ReindexBackground \/ WipeAndRebuild
        <2>1. worker' # "embedding" /\ drain'.at = "idle"
            BY <1>4, NoneTypes DEF KeepIndex, ReindexBackground, WipeAndRebuild, Restart
        <2> QED BY <2>1 DEF ReadsAreCurrent
    <1>5. CASE WorkerUpsert \/ WorkerEmbedFails \/ WorkerPanics
        <2>1. worker' # "embedding" /\ drain' = drain /\ content' = content
            BY <1>5 DEF WorkerUpsert, WorkerEmbedFails, WorkerPanics, drainer
        <2> QED BY <2>1 DEF ReadsAreCurrent, IsCurrent, Live
    <1>6. CASE DispatchSend \/ DispatchClosed
        <2>1. (worker' = "embedding" => worker = "embedding") /\ UNCHANGED <<job, drain, content>>
            BY <1>6 DEF DispatchSend, DispatchClosed, drainer
        <2> QED BY <2>1 DEF ReadsAreCurrent, IsCurrent, Live
    <1>7. CASE DispatchOverflow \/ WorkerDelete \/ TakeBatch \/ ReaperClearsIndex \/ UNCHANGED vars
        <2>1. UNCHANGED <<worker, job, drain, content>>
            BY <1>7 DEF DispatchOverflow, WorkerDelete, TakeBatch, ReaperClearsIndex, vars, lane, drainer, store
        <2> QED BY <2>1 DEF ReadsAreCurrent, IsCurrent, Live
    <1>8. ASSUME NEW p \in Paths, Put(p) \/ Delete(p) \/ ReaperDelete(p) PROVE ReadsAreCurrent'
        <2>1. UNCHANGED <<worker, job, drain>>
            BY <1>8 DEF Put, Delete, ReaperDelete, lane, drainer
        <2>2. \E op \in {"put", "delete"}, b \in BOOLEAN : Write(p, op, b)
            BY <1>8 DEF Put, Delete, ReaperDelete
        <2> QED BY <2>1, <2>2, DoneStays
    <1> QED BY <1>1, <1>2, <1>3, <1>4, <1>5, <1>6, <1>7, <1>8, <1>9 DEF Next, Drain, DrainStep, DrainEmbed

\* The steps that write neither chunks nor tombstones nor the history of paths.
LEMMA IndexUntouched ==
    ASSUME [Next]_vars
    PROVE  \/ UNCHANGED <<chunks, tombs, unordered>>
           \/ DispatchOverflow \/ WorkerDelete \/ ReaperClearsIndex
           \/ WorkerUpsert \/ StageChunks \/ WriteVectors \/ ReindexBackground \/ WipeAndRebuild
    <1>1. ASSUME NEW p \in Paths, Put(p) \/ Delete(p) \/ ReaperDelete(p) PROVE UNCHANGED <<chunks, tombs, unordered>>
        BY <1>1 DEF Put, Delete, ReaperDelete, index
    <1>2. CASE DispatchSend \/ DispatchClosed \/ WorkerPut \/ WorkerEmbedFails \/ WorkerPanics
        BY <1>2 DEF DispatchSend, DispatchClosed, WorkerPut, WorkerEmbedFails, WorkerPanics, index
    <1>3. CASE TakeBatch \/ DrainRow \/ DrainEmbedFails \/ DrainPanics \/ DeleteRow \/ BumpRetry
        BY <1>3 DEF TakeBatch, DrainRow, DrainEmbedFails, DrainPanics, DeleteRow, BumpRetry, index
    <1>4. CASE KeepIndex
        BY <1>4 DEF KeepIndex, Restart
    <1>5. CASE UNCHANGED vars
        BY <1>5 DEF vars
    <1> QED BY <1>1, <1>2, <1>3, <1>4, <1>5 DEF Next, Drain, DrainStep, DrainEmbed

\* The delete a step applies to the index, if it applies one, is of a version
\* the store has reached, and of the current one only if that is deleted.
LEMMA DeleteStep ==
    ASSUME TypeOK, StoreLeads,
           WorkerDelete \/ ReaperClearsIndex \/ (DispatchOverflow /\ ~UNCHANGED <<chunks, tombs, unordered>>)
    PROVE  /\ \E p \in Paths, v \in Nat :
                 /\ DeletePath(p, v) /\ v <= content[p].version
                 /\ v = content[p].version => content[p].deleted
           /\ UNCHANGED <<content, backlog, drainer, worker, job>>
    <1>1. CASE WorkerDelete
        <2> DEFINE e == Head(queue)
        <2>1. /\ e.path \in Paths /\ e.version \in Nat /\ e.version <= content[e.path].version
              /\ e.version = content[e.path].version => content[e.path].deleted
              /\ DeletePath(e.path, e.version)
            BY <1>1, HeadFits DEF WorkerDelete, TypeOK, StoreLeads
        <2> QED BY <1>1, <2>1 DEF WorkerDelete
    <1>2. CASE ReaperClearsIndex
        <2>1. PICK row \in reaper : DeletePath(row[1], row[2])
            BY <1>2 DEF ReaperClearsIndex
        <2>2. row[1] \in Paths /\ row[2] \in Nat
            BY DEF TypeOK, Rows, Versions
        <2> QED BY <1>2, <2>1, <2>2 DEF ReaperClearsIndex, StoreLeads, store, lane
    <1>3. CASE DispatchOverflow /\ ~UNCHANGED <<chunks, tombs, unordered>>
        <2> DEFINE e == Head(channel)
        <2>1. /\ e.path \in Paths /\ e.version \in Nat /\ e.version <= content[e.path].version
              /\ e.version = content[e.path].version => (e.op = "delete" <=> content[e.path].deleted)
            BY <1>3, HeadFits DEF DispatchOverflow, TypeOK, StoreLeads
        <2>2. e.op = "delete" /\ DeletePath(e.path, e.version) /\ UNCHANGED backlog
            BY <1>3 DEF DispatchOverflow, index
        <2> HIDE DEF e
        <2> QED BY <1>3, <2>1, <2>2 DEF DispatchOverflow, lane
    <1> QED BY <1>1, <1>2, <1>3

\* Every step keeps the chunks of a path those of the version they are stored
\* under.
LEMMA ChunksStep ==
    ASSUME TypeOK, StoreLeads, ReadsAreCurrent, ChunksAreOfTheirVersion, [Next]_vars
    PROVE  ChunksAreOfTheirVersion'
    <1> SUFFICES ASSUME NEW q \in Paths PROVE chunks'[q].data = chunks'[q].version
        BY DEF ChunksAreOfTheirVersion
    <1>1. chunks[q].data = chunks[q].version
        BY DEF ChunksAreOfTheirVersion
    <1>2. CASE UNCHANGED <<chunks, tombs, unordered>>
        BY <1>1, <1>2
    <1>3. CASE WorkerDelete \/ ReaperClearsIndex \/ (DispatchOverflow /\ ~UNCHANGED <<chunks, tombs, unordered>>)
        <2>1. PICK p \in Paths, v \in Nat : DeletePath(p, v)
            BY <1>3, DeleteStep
        <2> QED BY <1>1, <2>1, DeletePathEffect
    <1>4. CASE WorkerUpsert
        <2>1. /\ job.path \in Paths /\ job.version \in Nat /\ job.data \in Nat
              /\ job.data = job.version /\ Upsert(job.path, job.version, job.data)
            BY <1>4 DEF WorkerUpsert, ReadsAreCurrent, TypeOK, Versions
        <2> QED BY <1>1, <2>1, UpsertEffect
    <1>5. CASE StageChunks
        <2>1. /\ drain.path \in Paths /\ drain.version \in Nat /\ drain.data \in Nat
              /\ drain.data = drain.version /\ UpsertChunksOnly(drain.path, drain.version, drain.data)
            BY <1>5 DEF StageChunks, ReadsAreCurrent, TypeOK, Versions
        <2> QED BY <1>1, <2>1, ChunksOnlyEffect
    <1>6. CASE WriteVectors
        BY <1>1, <1>6, VectorsEffect
    <1>7. CASE ReindexBackground
        BY <1>1, <1>7, ClearedEffect
    <1>8. CASE WipeAndRebuild
        BY <1>8 DEF WipeAndRebuild, NoChunks
    <1> QED BY <1>2, <1>3, <1>4, <1>5, <1>6, <1>7, <1>8, IndexUntouched

\* Every step keeps the chunks of a path newer than its tombstone.
LEMMA ResurrectionStep ==
    ASSUME TypeOK, StoreLeads, NoResurrection, [Next]_vars
    PROVE  NoResurrection'
    <1> SUFFICES ASSUME NEW q \in Paths, chunks'[q].version > 0, q \notin unordered'
                 PROVE  chunks'[q].version > tombs'[q]
        BY DEF NoResurrection
    <1>1. chunks[q].version > 0 /\ q \notin unordered => chunks[q].version > tombs[q]
        BY DEF NoResurrection
    <1>2. CASE UNCHANGED <<chunks, tombs, unordered>>
        BY <1>1, <1>2
    <1>3. CASE WorkerDelete \/ ReaperClearsIndex \/ (DispatchOverflow /\ ~UNCHANGED <<chunks, tombs, unordered>>)
        <2>1. PICK p \in Paths, v \in Nat : DeletePath(p, v)
            BY <1>3, DeleteStep
        <2>2. q # p
            BY <2>1, DeletePathEffect
        <2> QED BY <1>1, <2>1, <2>2, DeletePathEffect
    <1>4. CASE WorkerUpsert
        <2>1. /\ job.path \in Paths /\ job.version \in Nat /\ job.data \in Nat
              /\ Upsert(job.path, job.version, job.data)
            BY <1>4 DEF WorkerUpsert, TypeOK, Versions
        <2> QED BY <1>1, <2>1, UpsertEffect
    <1>5. CASE StageChunks
        <2>1. /\ drain.path \in Paths /\ drain.version \in Nat /\ drain.data \in Nat
              /\ UpsertChunksOnly(drain.path, drain.version, drain.data)
            BY <1>5 DEF StageChunks, TypeOK, Versions
        <2>2. CASE q = drain.path
            BY <2>1, <2>2, ChunksOnlyEffect, VersionTypes
        <2>3. CASE q # drain.path
            BY <1>1, <2>1, <2>3, ChunksOnlyEffect
        <2> QED BY <2>2, <2>3
    <1>6. CASE WriteVectors
        <2>1. UNCHANGED <<tombs, unordered>>
            BY <1>6 DEF WriteVectors
        <2> QED BY <1>1, <1>6, <2>1, VectorsEffect
    <1>7. CASE ReindexBackground
        <2>1. tombs' = tombs /\ unordered \subseteq unordered'
            BY <1>7 DEF ReindexBackground, Restart
        <2> QED BY <1>1, <1>7, <2>1, ClearedEffect
    <1>8. CASE WipeAndRebuild
        BY <1>8 DEF WipeAndRebuild, NoChunks
    <1> QED BY <1>2, <1>3, <1>4, <1>5, <1>6, <1>7, <1>8, IndexUntouched

-----------------------------------------------------------------------------
(* The drainer and its rows.                                                 *)

\* Rows that only a newer version replaces stay the drainer's.
LEMMA RowsKept ==
    ASSUME TypeOK, TypeOK', DrainerOwnsRows, UNCHANGED drainer,
           \A q \in Paths : \/ backlog'[q] = backlog[q]
                            \/ backlog'[q].version > backlog[q].version /\ backlog'[q].retry = 0
    PROVE  DrainerOwnsRows'
    <1>1. ASSUME NEW q \in Paths, NEW v \in Nat, v <= backlog[q].version,
                 v = backlog[q].version => backlog[q].retry < MaxRetries
          PROVE  v <= backlog'[q].version /\ (v = backlog'[q].version => backlog'[q].retry < MaxRetries)
        <2>1. CASE backlog'[q] = backlog[q]
            BY <1>1, <2>1
        <2>2. CASE backlog'[q].version > backlog[q].version /\ backlog'[q].retry = 0
            <3>1. backlog[q].version \in Nat /\ backlog'[q].version \in Nat
                BY DEF TypeOK, Versions
            <3>2. CASE v = backlog'[q].version
                BY <2>2, <3>2, MemoryAssumption
            <3>3. CASE v # backlog'[q].version
                BY <1>1, <2>2, <3>1, <3>3
            <3> QED BY <3>2, <3>3
        <2> QED BY <2>1, <2>2
    <1>2. \A row \in batch : row[1] \in Paths /\ row[2] \in Nat
        BY DEF TypeOK, Rows, Versions
    <1>3. drain.path \in Paths /\ drain.version \in Nat
        BY DEF TypeOK, Versions
    <1> QED BY <1>1, <1>2, <1>3 DEF DrainerOwnsRows, drainer

\* Every step keeps the drainer's rows its own.
LEMMA DrainerStep ==
    ASSUME TypeOK, TypeOK', DrainerOwnsRows, [Next]_vars
    PROVE  DrainerOwnsRows'
    <1>1. CASE UNCHANGED <<backlog, drainer>>
        BY <1>1, RowsKept
    <1>2. CASE DispatchOverflow
        <2>1. Head(channel).path \in Paths /\ Head(channel).version \in Nat /\ UNCHANGED drainer
            BY <1>2, HeadEvent DEF DispatchOverflow, TypeOK, Versions
        <2>2. EnqueueBacklog(Head(channel).path, Head(channel).version) \/ UNCHANGED backlog
            BY <1>2 DEF DispatchOverflow
        <2>3. \A q \in Paths : \/ backlog'[q] = backlog[q]
                               \/ backlog'[q].version > backlog[q].version /\ backlog'[q].retry = 0
            BY <2>1, <2>2, EnqueueEffect
        <2> QED BY <2>1, <2>3, RowsKept
    <1>3. CASE TakeBatch
        <2>1. drain' = Idle /\ drain'.at = "idle" /\ UNCHANGED backlog
            BY <1>3, NoneTypes DEF TakeBatch
        <2>2. ASSUME NEW row \in batch'
              PROVE  /\ row[1] \in Paths /\ row = <<row[1], backlog[row[1]].version>>
                     /\ row[2] > 0 /\ row[2] = backlog[row[1]].version
                     /\ backlog[row[1]].retry < MaxRetries
            BY <1>3, <2>2 DEF TakeBatch
        <2>3. \A row \in batch', other \in batch' : other[1] = row[1] => other = row
            BY <2>2
        <2>4. \A row \in batch' : row[2] <= backlog[row[1]].version
            BY <2>2, VersionTypes
        <2> QED BY <2>1, <2>2, <2>3, <2>4 DEF DrainerOwnsRows
    <1>4. CASE DrainRow
        <2>1. PICK row \in batch :
                 /\ batch' = batch \ {row}
                 /\ drain'.path = row[1] /\ drain'.version = row[2] /\ drain'.at \notin {"idle", "dead"}
            BY <1>4 DEF DrainRow
        <2>2. UNCHANGED backlog
            BY <1>4 DEF DrainRow
        <2> QED BY <2>1, <2>2 DEF DrainerOwnsRows
    <1>5. CASE StageChunks \/ WriteVectors \/ DrainEmbedFails
        <2>1. /\ drain.at \notin {"idle", "dead"} /\ drain'.at \notin {"idle", "dead"} /\ drain'.path = drain.path
              /\ drain'.version = drain.version
            BY <1>5 DEF StageChunks, WriteVectors, DrainEmbedFails, TypeOK
        <2>2. UNCHANGED <<backlog, batch>>
            BY <1>5 DEF StageChunks, WriteVectors, DrainEmbedFails
        <2> QED BY <2>1, <2>2 DEF DrainerOwnsRows
    <1>10. CASE DrainPanics
        BY <1>10, NoneTypes DEF DrainPanics, DrainerOwnsRows
    <1>6. CASE DeleteRow \/ BumpRetry
        <2>1. drain.at # "idle" /\ drain' = Idle /\ drain'.at = "idle" /\ UNCHANGED batch
            BY <1>6, NoneTypes DEF DeleteRow, BumpRetry
        <2>2. \A q \in Paths \ {drain.path} : backlog'[q] = backlog[q]
            BY <1>6, DeleteRowEffect, BumpEffect
        <2>3. \A row \in batch : row[1] \in Paths \ {drain.path}
            BY <2>1 DEF DrainerOwnsRows, TypeOK, Rows
        <2> QED BY <2>1, <2>2, <2>3 DEF DrainerOwnsRows
    <1>7. CASE KeepIndex \/ ReindexBackground \/ WipeAndRebuild
        <2>1. drain' = Idle /\ drain'.at = "idle" /\ batch' = {}
            BY <1>7, NoneTypes DEF KeepIndex, ReindexBackground, WipeAndRebuild, Restart
        <2> QED BY <2>1 DEF DrainerOwnsRows
    <1>8. ASSUME NEW p \in Paths, Put(p) \/ Delete(p) \/ ReaperDelete(p) PROVE UNCHANGED <<backlog, drainer>>
        BY <1>8 DEF Put, Delete, ReaperDelete
    <1>9. CASE DispatchSend \/ DispatchClosed \/ WorkerPut \/ WorkerEmbedFails \/ WorkerPanics
               \/ WorkerDelete \/ WorkerUpsert \/ ReaperClearsIndex \/ UNCHANGED vars
        <2>1. UNCHANGED <<backlog, drainer>>
            BY <1>9 DEF DispatchSend, DispatchClosed, WorkerPut, WorkerEmbedFails, WorkerPanics, WorkerDelete,
                        WorkerUpsert, ReaperClearsIndex, vars, drainer
        <2> QED BY <1>1, <2>1
    <1> QED BY <1>1, <1>2, <1>3, <1>4, <1>5, <1>6, <1>7, <1>8, <1>9, <1>10 DEF Next, Drain, DrainStep, DrainEmbed

-----------------------------------------------------------------------------

\* The inductive invariant holds in every reachable state.
THEOREM Invariant == Spec => []IInv
    <1>1. Init => IInv
        <2> SUFFICES ASSUME Init PROVE IInv
            OBVIOUS
        <2>1. TypeOK
            <3>1. \A p \in Paths : [version |-> 0, deleted |-> FALSE, blank |-> FALSE]
                                     \in [version : Versions, deleted : BOOLEAN, blank : BOOLEAN]
                BY DEF Versions
            <3> QED BY <3>1, NoneTypes, MemoryAssumption DEF Init, TypeOK, Versions
        <2>2. StoreLeads
            BY DEF Init, StoreLeads, AllFit, NoChunks, NoRow
        <2>3. ReadsAreCurrent /\ DrainerOwnsRows
            BY NoneTypes DEF Init, ReadsAreCurrent, DrainerOwnsRows
        <2>5. ChunksAreOfTheirVersion /\ NoResurrection
            BY DEF Init, ChunksAreOfTheirVersion, NoResurrection, NoChunks
        <2> QED BY <2>1, <2>2, <2>3, <2>5 DEF IInv
    <1>2. IInv /\ [Next]_vars => IInv'
        BY TypeInductive, StoreLeadsStep, ReadsStep, DrainerStep, ChunksStep, ResurrectionStep DEF IInv
    <1> QED BY <1>1, <1>2, PTL DEF Spec

\* Every reachable state is well typed; in particular no row of the backlog is
\* tried more than MaxRetries times.
THEOREM TypeCorrect == Spec => []TypeOK
    <1>1. IInv => TypeOK
        BY DEF IInv
    <1> QED BY <1>1, Invariant, PTL

\* What a search returns as version v of a path is what was written at v, for
\* any interleaving of the worker and the drainer with the writers.
THEOREM ChunksTheorem == Spec => []ChunksAreOfTheirVersion
    <1>1. IInv => ChunksAreOfTheirVersion
        BY DEF IInv
    <1> QED BY <1>1, Invariant, PTL

\* No embedding begun before a delete brings an older version back once the
\* delete has reached the index, outside the paths hit out of order.
THEOREM ResurrectionTheorem == Spec => []NoResurrection
    <1>1. IInv => NoResurrection
        BY DEF IInv
    <1> QED BY <1>1, Invariant, PTL

\* The step that takes the row of the current version of a path away, if any,
\* is the drainer's, done with that version.
LEMMA RowStep ==
    ASSUME IInv, [Next]_vars, NEW p \in Paths, IsCurrent(p, backlog[p].version), ~content[p].blank,
           backlog'[p].version # backlog[p].version
    PROVE  drain = [at |-> "done", path |-> p, version |-> backlog[p].version, data |-> backlog[p].version]
    <1> USE DEF IInv
    <1>1. ASSUME NEW q \in Paths, Put(q) \/ Delete(q) \/ ReaperDelete(q) PROVE UNCHANGED backlog
        BY <1>1 DEF Put, Delete, ReaperDelete
    <1>2. CASE DispatchOverflow
        <2>1. /\ Head(channel).path \in Paths /\ Head(channel).version \in Nat
              /\ Head(channel).version <= content[Head(channel).path].version
            BY <1>2, HeadFits DEF DispatchOverflow, TypeOK, StoreLeads
        <2>2. EnqueueBacklog(Head(channel).path, Head(channel).version) \/ UNCHANGED backlog
            BY <1>2 DEF DispatchOverflow
        <2>3. backlog'[p].version = backlog[p].version
            BY <2>1, <2>2, EnqueueEffect, VersionTypes DEF IsCurrent
        <2> QED BY <2>3
    <1>3. CASE DeleteRow
        <2>1. p = drain.path /\ backlog[p].version = drain.version /\ drain.at = "done"
            BY <1>3, DeleteRowEffect DEF DeleteRow
        <2>2. drain.data = drain.version
            BY <2>1 DEF ReadsAreCurrent
        <2> QED BY <2>1, <2>2 DEF TypeOK
    <1>4. CASE BumpRetry
        BY <1>4, BumpEffect
    <1>5. CASE KeepIndex
        BY <1>5 DEF KeepIndex
    <1>6. CASE ReindexBackground \/ WipeAndRebuild
        <2>1. Live(p) /\ content[p].version = backlog[p].version /\ backlog[p].version # 0
            BY VersionTypes DEF IsCurrent, Live
        <2> QED BY <1>6, <2>1 DEF ReindexBackground, WipeAndRebuild
    <1>7. CASE \/ DispatchSend \/ DispatchClosed \/ WorkerDelete \/ WorkerPut \/ WorkerUpsert \/ WorkerEmbedFails
               \/ WorkerPanics \/ TakeBatch \/ DrainRow \/ StageChunks \/ WriteVectors \/ DrainEmbedFails
               \/ DrainPanics \/ ReaperClearsIndex \/ UNCHANGED vars
        <2>1. UNCHANGED backlog
            BY <1>7 DEF DispatchSend, DispatchClosed, WorkerDelete, WorkerPut, WorkerUpsert, WorkerEmbedFails,
                        WorkerPanics, TakeBatch, DrainRow, StageChunks, WriteVectors, DrainEmbedFails, DrainPanics,
                        ReaperClearsIndex, vars
        <2> QED BY <2>1
    <1> QED BY <1>1, <1>2, <1>3, <1>4, <1>5, <1>6, <1>7 DEF Next, Drain, DrainStep, DrainEmbed

\* The backlog row of the current version of a path goes only when the drainer
\* has embedded that version: no overflow, retry, reindex or drained row of an
\* older version takes it away.
THEOREM RowsTheorem == Spec => RowsLeaveDone
    <1>1. IInv /\ [Next]_vars =>
            [\A p \in Paths :
               IsCurrent(p, backlog[p].version) /\ ~content[p].blank /\ backlog'[p].version # backlog[p].version =>
                   LET v == backlog[p].version
                   IN  drain = [at |-> "done", path |-> p, version |-> v, data |-> v]]_vars
        BY RowStep
    <1> QED BY <1>1, Invariant, PTL DEF Spec, RowsLeaveDone

=============================================================================
