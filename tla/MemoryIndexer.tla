---------------------------- MODULE MemoryIndexer ----------------------------
(* The memory store of one tenant and the background embedder that keeps its  *)
(* vector index (background.rs, sqlite_store.rs, sqlite_index.rs): the event  *)
(* channel, the dispatcher, the tenant's worker, the backlog drainer, the     *)
(* retention reaper, and the reindex policies applied at startup.             *)
EXTENDS Integers, Sequences, FiniteSets

CONSTANTS Paths,            \* indexed paths: not under dedup, with a chunker
          QueueCapacity,    \* BackgroundEmbedderConfig::queue_capacity
          ChannelCapacity,  \* events the broadcast channel keeps for a receiver
          MaxRetries,       \* BACKLOG_MAX_RETRIES
          MaxVersion,       \* bound: writes and deletes of each path
          MaxCrashes        \* bound: crashes, each followed by a startup

ASSUME MemoryAssumption ==
    /\ Paths # {}
    /\ QueueCapacity \in Nat \ {0} /\ ChannelCapacity \in Nat \ {0}
    /\ MaxRetries \in Nat \ {0} /\ MaxVersion \in [Paths -> Nat] /\ MaxCrashes \in Nat

VARIABLES content,    \* memory_content: version and deleted flag of each path; blank: no chunks in it
          chunks,     \* memory_chunks and memory_vectors of each path
          tombs,      \* memory_path_tombstones, 0 when there is none
          backlog,    \* memory_embed_backlog, version 0 when there is no row
          channel,    \* events broadcast and not yet received by the dispatcher
          queue,      \* events sent to the tenant's worker
          worker,     \* the tenant's worker: "absent", "idle", "embedding", "dead"
          job,        \* the Put the worker embeds and the version it read
          batch,      \* rows of the drainer's batch not yet processed
          drain,      \* progress of the drainer in the row it processes
          reaper,     \* deletes of the reaper not yet applied to the index
          crashes,    \* bound
          unordered   \* history: paths where an index write overrode a later one

store == <<content, channel>>
index == <<chunks, tombs>>
lane == <<queue, worker, job>>
drainer == <<batch, drain>>
vars == <<content, chunks, tombs, backlog, channel, queue, worker, job, batch, drain,
          reaper, crashes, unordered>>

Versions == Nat
Events == [op : {"put", "delete"}, path : Paths, version : Versions]
Rows == Paths \X Versions

NoChunks == [version |-> 0, data |-> 0, embedded |-> FALSE]
NoRow == [version |-> 0, retry |-> 0]
NoJob == [path |-> CHOOSE p \in Paths : TRUE, version |-> 0, data |-> 0]
Idle == [at |-> "idle", path |-> NoJob.path, version |-> 0, data |-> 0]
Dead == [at |-> "dead", path |-> NoJob.path, version |-> 0, data |-> 0]

(* store.get(path) at version v: the content is there and has not moved on. *)
Live(p) == content[p].version > 0 /\ ~content[p].deleted
IsCurrent(p, v) == Live(p) /\ content[p].version = v

(* The path is a search hit: search joins its chunks with their vectors. *)
Searchable(p) == chunks[p].version > 0 /\ chunks[p].embedded

-----------------------------------------------------------------------------
(* The store.                                                                *)

Init ==
    /\ content = [p \in Paths |-> [version |-> 0, deleted |-> FALSE, blank |-> FALSE]]
    /\ chunks = [p \in Paths |-> NoChunks]
    /\ tombs = [p \in Paths |-> 0]
    /\ backlog = [p \in Paths |-> NoRow]
    /\ channel = <<>> /\ queue = <<>> /\ worker = "absent" /\ job = NoJob
    /\ batch = {} /\ drain = Idle /\ reaper = {}
    /\ crashes = 0 /\ unordered = {}

(* Broadcast an event: a full channel drops its oldest one, and the dispatcher *)
(* only logs the gap (MemoryRecvOutcome::Lagged).                              *)
Broadcast(e) ==
    channel' = Append(IF Len(channel) < ChannelCapacity THEN channel ELSE Tail(channel), e)

(* Commit a new version of a path and broadcast it. *)
Write(p, op, blank) ==
    /\ content[p].version < MaxVersion[p]
    /\ content' = [content EXCEPT ![p] = [version |-> content[p].version + 1,
                                          deleted |-> op = "delete", blank |-> blank]]
    /\ Broadcast([op |-> op, path |-> p, version |-> content[p].version + 1])

Put(p) ==
    /\ \E blank \in BOOLEAN : Write(p, "put", blank)
    /\ UNCHANGED <<index, backlog, lane, drainer, reaper, crashes, unordered>>

(* A path that is already deleted can be deleted again. *)
Delete(p) ==
    /\ content[p].version > 0
    /\ Write(p, "delete", FALSE)
    /\ UNCHANGED <<index, backlog, lane, drainer, reaper, crashes, unordered>>

-----------------------------------------------------------------------------
(* The index.                                                                *)

(* delete_path: the tombstone never regresses and the chunks go, whatever     *)
(* their version.                                                             *)
DeletePath(p, v) ==
    /\ tombs' = [tombs EXCEPT ![p] = IF v > tombs[p] THEN v ELSE tombs[p]]
    /\ chunks' = [chunks EXCEPT ![p] = NoChunks]
    /\ unordered' = unordered \cup (IF chunks[p].version > v THEN {p} ELSE {})

(* Mutant: no tombstone guard. *)
UpsertDespiteTombstone(p, v, data) ==
    /\ chunks' = IF chunks[p].version >= v /\ chunks[p].version > 0 THEN chunks
                 ELSE [chunks EXCEPT ![p] = [version |-> v, data |-> data, embedded |-> TRUE]]
    /\ UNCHANGED <<tombs, unordered>>

(* upsert: Tombstoned, Stale or Applied. *)
Upsert(p, v, data) ==
    /\ chunks' = IF tombs[p] >= v \/ (chunks[p].version >= v /\ chunks[p].version > 0) THEN chunks
                 ELSE [chunks EXCEPT ![p] = [version |-> v, data |-> data, embedded |-> TRUE]]
    /\ UNCHANGED <<tombs, unordered>>

(* upsert_chunks_only: replaces whatever is there, tombstone or not. *)
UpsertChunksOnly(p, v, data) ==
    /\ chunks' = [chunks EXCEPT ![p] = [version |-> v, data |-> data, embedded |-> FALSE]]
    /\ unordered' = unordered \cup (IF chunks[p].version > v \/ tombs[p] >= v THEN {p} ELSE {})
    /\ UNCHANGED tombs

-----------------------------------------------------------------------------
(* The dispatcher.  The event it holds while it waits is the channel's head.  *)

(* A worker that is absent or finished is (re)spawned with an empty queue. *)
DispatchSend ==
    /\ channel # <<>>
    /\ Len(queue) < QueueCapacity
    /\ queue' = Append(queue, Head(channel))
    /\ worker' = IF worker \in {"absent", "dead"} THEN "idle" ELSE worker
    /\ channel' = Tail(channel)
    /\ UNCHANGED <<content, index, backlog, job, drainer, reaper, crashes, unordered>>

(* The worker died between the check and the send: evict it, drop the event. *)
DispatchClosed ==
    /\ channel # <<>>
    /\ worker = "dead"
    /\ worker' = "absent"
    /\ channel' = Tail(channel)
    /\ UNCHANGED <<content, index, backlog, queue, job, drainer, reaper, crashes, unordered>>

(* enqueue_backlog_for: a strictly newer version takes the row over. *)
EnqueueBacklog(p, v) ==
    backlog' = IF v > backlog[p].version
               THEN [backlog EXCEPT ![p] = [version |-> v, retry |-> 0]]
               ELSE backlog

(* The queue stayed full for enqueue_timeout. *)
DispatchOverflow ==
    /\ channel # <<>>
    /\ Len(queue) = QueueCapacity
    /\ LET e == Head(channel)
       IN \/ /\ e.op = "put"
             /\ EnqueueBacklog(e.path, e.version)
             /\ UNCHANGED <<index, unordered>>
          \/ /\ e.op = "delete"
             /\ DeletePath(e.path, e.version)
             /\ UNCHANGED backlog
    /\ channel' = Tail(channel)
    /\ UNCHANGED <<content, lane, drainer, reaper, crashes>>

-----------------------------------------------------------------------------
(* The tenant's worker.                                                      *)

WorkerDelete ==
    /\ worker = "idle" /\ queue # <<>>
    /\ Head(queue).op = "delete"
    /\ DeletePath(Head(queue).path, Head(queue).version)
    /\ queue' = Tail(queue)
    /\ UNCHANGED <<content, backlog, channel, worker, job, drainer, reaper, crashes>>

(* Mutant: the version read is not compared with the event's. *)
TooNewNever(e) == ~Live(e.path)

(* The content is gone, or a newer write has its own event under way. *)
TooNew(e) == ~Live(e.path) \/ content[e.path].version > e.version

(* handle_put up to the call of the embedder: the content is read and its     *)
(* version compared; content with no chunks leaves the index as it is.        *)
WorkerPut ==
    /\ worker = "idle" /\ queue # <<>>
    /\ Head(queue).op = "put"
    /\ LET e == Head(queue)
       IN \/ /\ ~TooNew(e) /\ ~content[e.path].blank
             /\ worker' = "embedding"
             /\ job' = [path |-> e.path, version |-> e.version, data |-> content[e.path].version]
          \/ /\ TooNew(e) \/ content[e.path].blank
             /\ UNCHANGED <<worker, job>>
    /\ queue' = Tail(queue)
    /\ UNCHANGED <<content, index, backlog, channel, drainer, reaper, crashes, unordered>>

(* handle_put after the embedder returned. *)
WorkerUpsert ==
    /\ worker = "embedding"
    /\ Upsert(job.path, job.version, job.data)
    /\ worker' = "idle" /\ job' = NoJob
    /\ UNCHANGED <<content, backlog, channel, queue, drainer, reaper, crashes>>

(* An error of the embedder is logged and the event dropped. *)
WorkerEmbedFails ==
    /\ worker = "embedding"
    /\ worker' = "idle" /\ job' = NoJob
    /\ UNCHANGED <<content, index, backlog, channel, queue, drainer, reaper, crashes, unordered>>

(* A panic of the embedder is raised again and ends the worker, queue and all. *)
WorkerPanics ==
    /\ worker = "embedding"
    /\ worker' = "dead" /\ job' = NoJob /\ queue' = <<>>
    /\ UNCHANGED <<content, index, backlog, channel, drainer, reaper, crashes, unordered>>

-----------------------------------------------------------------------------
(* The backlog drainer.                                                      *)

(* take_backlog_batch: dead-lettered rows are not in it. *)
TakeBatch ==
    /\ drain = Idle /\ batch = {}
    /\ batch' = {<<p, backlog[p].version>> : p \in {q \in Paths : /\ backlog[q].version > 0
                                                                  /\ backlog[q].retry < MaxRetries}}
    /\ batch' # {}
    /\ UNCHANGED <<store, index, backlog, lane, drain, reaper, crashes, unordered>>

(* process_backlog_row up to its first write: the chunks of this version are  *)
(* there (from an earlier attempt or before a reindex), or the content is read *)
(* and chunked, or there is nothing to do (gone, moved on, or no chunks).      *)
DrainRow ==
    /\ drain = Idle
    /\ \E row \in batch :
         /\ batch' = batch \ {row}
         /\ LET p == row[1]
                v == row[2]
                At(step, data) == drain' = [at |-> step, path |-> p, version |-> v, data |-> data]
            IN \/ /\ chunks[p].version = v
                  /\ At("embed", chunks[p].data)
               \/ /\ chunks[p].version # v /\ IsCurrent(p, v) /\ ~content[p].blank
                  /\ At("stage", content[p].version)
               \/ /\ chunks[p].version # v /\ ~(IsCurrent(p, v) /\ ~content[p].blank)
                  /\ At("done", 0)
    /\ UNCHANGED <<store, index, backlog, lane, reaper, crashes, unordered>>

StageChunks ==
    /\ drain.at = "stage"
    /\ UpsertChunksOnly(drain.path, drain.version, drain.data)
    /\ drain' = [drain EXCEPT !.at = "embed"]
    /\ UNCHANGED <<store, backlog, lane, batch, reaper, crashes>>

(* embed, then write_vectors_for_chunks: no chunks of this version left is an *)
(* error.                                                                     *)
WriteVectors ==
    /\ drain.at = "embed"
    /\ \/ /\ chunks[drain.path].version = drain.version
          /\ chunks' = [chunks EXCEPT ![drain.path].embedded = TRUE]
          /\ drain' = [drain EXCEPT !.at = "done"]
       \/ /\ chunks[drain.path].version # drain.version
          /\ drain' = [drain EXCEPT !.at = "failed"]
          /\ UNCHANGED chunks
    /\ UNCHANGED <<store, tombs, backlog, lane, batch, reaper, crashes, unordered>>

DrainEmbedFails ==
    /\ drain.at = "embed"
    /\ drain' = [drain EXCEPT !.at = "failed"]
    /\ UNCHANGED <<store, index, backlog, lane, batch, reaper, crashes, unordered>>

(* A panic of the embedder, called in place, ends the drainer's task: nothing  *)
(* catches it, and the task is started only with the process.                  *)
DrainPanics ==
    /\ drain.at = "embed"
    /\ drain' = Dead /\ batch' = {}
    /\ UNCHANGED <<store, index, backlog, lane, reaper, crashes, unordered>>

(* Mutant: the row of the path goes, whatever its version. *)
DeleteRowOfPath ==
    /\ drain.at = "done"
    /\ backlog' = [backlog EXCEPT ![drain.path] = NoRow]
    /\ drain' = Idle
    /\ UNCHANGED <<store, index, lane, batch, reaper, crashes, unordered>>

(* delete_backlog_row *)
DeleteRow ==
    /\ drain.at = "done"
    /\ backlog' = [backlog EXCEPT ![drain.path] = IF @.version = drain.version THEN NoRow ELSE @]
    /\ drain' = Idle
    /\ UNCHANGED <<store, index, lane, batch, reaper, crashes, unordered>>

(* Mutant: the error is recorded and not counted. *)
BumpNothing ==
    /\ drain.at = "failed"
    /\ drain' = Idle
    /\ UNCHANGED <<store, index, backlog, lane, batch, reaper, crashes, unordered>>

(* bump_backlog_retry *)
BumpRetry ==
    /\ drain.at = "failed"
    /\ backlog' = [backlog EXCEPT ![drain.path].retry = IF backlog[drain.path].version = drain.version
                                                        THEN @ + 1 ELSE @]
    /\ drain' = Idle
    /\ UNCHANGED <<store, index, lane, batch, reaper, crashes, unordered>>

-----------------------------------------------------------------------------
(* The retention reaper, crashes and startups.                               *)

(* A path found expired is deleted, whatever was written since it was listed. *)
ReaperDelete(p) ==
    /\ reaper = {}
    /\ content[p].version > 0
    /\ Write(p, "delete", FALSE)
    /\ reaper' = {<<p, content[p].version + 1>>}
    /\ UNCHANGED <<index, backlog, lane, drainer, crashes, unordered>>

ReaperClearsIndex ==
    /\ \E row \in reaper : DeletePath(row[1], row[2])
    /\ reaper' = {}
    /\ UNCHANGED <<store, backlog, lane, drainer, crashes>>

(* Everything that is not in the database goes.  The startup policy then keeps *)
(* the index, clears its vectors (mark_tenant_stale, enqueue_backlog_from_chunks) *)
(* or rebuilds it from the content (wipe_and_reopen).                          *)
Restart ==
    /\ crashes < MaxCrashes
    /\ crashes' = crashes + 1
    /\ channel' = <<>> /\ queue' = <<>> /\ worker' = "absent" /\ job' = NoJob
    /\ batch' = {} /\ drain' = Idle /\ reaper' = {}
    /\ UNCHANGED <<content, tombs>>

KeepIndex == Restart /\ UNCHANGED <<chunks, backlog, unordered>>

ReindexBackground ==
    /\ Restart
    /\ chunks' = [p \in Paths |-> [chunks[p] EXCEPT !.embedded = FALSE]]
    /\ backlog' = [p \in Paths |-> IF backlog[p].version = 0 /\ chunks[p].version > 0
                                   THEN [version |-> chunks[p].version, retry |-> 0]
                                   ELSE backlog[p]]
    /\ unordered' = unordered \cup {p \in Paths : backlog'[p].version < chunks[p].version}

WipeAndRebuild ==
    /\ Restart
    /\ chunks' = [p \in Paths |-> NoChunks]
    /\ backlog' = [p \in Paths |-> IF Live(p) THEN [version |-> content[p].version, retry |-> 0]
                                              ELSE NoRow]
    /\ UNCHANGED unordered

-----------------------------------------------------------------------------

(* What the drainer does by itself, and how its call of the embedder may end. *)
DrainStep == TakeBatch \/ DrainRow \/ StageChunks \/ DeleteRow \/ BumpRetry
DrainEmbed == WriteVectors \/ DrainEmbedFails \/ DrainPanics
Drain == DrainStep \/ DrainEmbed

Next ==
    \/ \E p \in Paths : Put(p) \/ Delete(p) \/ ReaperDelete(p)
    \/ DispatchSend \/ DispatchClosed \/ DispatchOverflow
    \/ WorkerDelete \/ WorkerPut \/ WorkerUpsert \/ WorkerEmbedFails \/ WorkerPanics
    \/ Drain
    \/ ReaperClearsIndex
    \/ KeepIndex \/ ReindexBackground \/ WipeAndRebuild

Spec == Init /\ [][Next]_vars

(* The drainer polls for ever and does its own steps; an embedding need never *)
(* return.                                                                    *)
FairSpec == Spec /\ WF_vars(DrainStep)

-----------------------------------------------------------------------------

(* Every variable holds a value of the type of what it models. *)
TypeOK ==
    /\ content \in [Paths -> [version : Versions, deleted : BOOLEAN, blank : BOOLEAN]]
    /\ chunks \in [Paths -> [version : Versions, data : Versions, embedded : BOOLEAN]]
    /\ tombs \in [Paths -> Versions]
    /\ backlog \in [Paths -> [version : Versions, retry : 0 .. MaxRetries]]
    /\ channel \in Seq(Events) /\ queue \in Seq(Events)
    /\ worker \in {"absent", "idle", "embedding", "dead"}
    /\ job \in [path : Paths, version : Versions, data : Versions]
    /\ batch \subseteq Rows
    /\ drain \in [at : {"idle", "stage", "embed", "done", "failed", "dead"},
                  path : Paths, version : Versions, data : Versions]
    /\ reaper \subseteq Rows
    /\ crashes \in 0 .. MaxCrashes
    /\ unordered \subseteq Paths

(* What a search returns as version v of a path is what was written at v,     *)
(* although reading, chunking, embedding and storing it are separate steps of *)
(* two lanes and the path is rewritten meanwhile.                             *)
ChunksAreOfTheirVersion == \A p \in Paths : chunks[p].data = chunks[p].version

(* Once a delete has reached the index, no embedding begun before it brings   *)
(* an older version back, outside the paths hit by an out-of-order write.     *)
NoResurrection ==
    \A p \in Paths : chunks[p].version > 0 /\ p \notin unordered => chunks[p].version > tombs[p]

(* Nothing is left to do: no event, embedding, row or delete under way. *)
Settled ==
    /\ channel = <<>> /\ queue = <<>> /\ worker # "embedding"
    /\ batch = {} /\ drain = Idle /\ reaper = {}
    /\ \A p \in Paths : backlog[p].version = 0

(* S037: "a queued upsert arriving after a delete does not resurrect the      *)
(* content".  upsert keeps that promise; the drainer's upsert_chunks_only has *)
(* no tombstone guard, and the deleted version stays a search hit.            *)
DeletedStaysDeleted ==
    Settled => \A p \in Paths : Searchable(p) => chunks[p].version > tombs[p]

(* The embedder does not return any more, or its panic ended the drainer. *)
DrainerStuck == drain.at \in {"embed", "dead"}

(* Every row of the backlog is drained or gives up after MaxRetries attempts, *)
(* unless an embedding hangs or panics: the drainer never goes round a failing *)
(* row for ever.                                                              *)
BacklogSettles ==
    \/ \A p \in Paths : []<>(backlog[p].version = 0 \/ backlog[p].retry >= MaxRetries)
    \/ <>[]DrainerStuck

(* The current version of p waits in the backlog for its vectors. *)
Deferred(p, v) ==
    /\ backlog[p].version = v /\ IsCurrent(p, v) /\ ~content[p].blank
    /\ ~(drain.at = "done" /\ drain.path = p /\ drain.version = v)

(* A deferred write is indexed: the current version of a path that waits in   *)
(* the backlog becomes a search hit, unless it stops being current first or   *)
(* its row is left for the operator after MaxRetries attempts, although the   *)
(* worker indexes and deletes the same path meanwhile, newer versions take    *)
(* rows over and the process may restart and reindex between any two steps of *)
(* the drainer.                                                               *)
DeferredIsIndexed ==
    \/ \A p \in Paths : \A v \in 1 .. MaxVersion[p] :
         Deferred(p, v) ~> \/ Searchable(p) /\ chunks[p].version = v
                           \/ ~IsCurrent(p, v)
                           \/ backlog[p].version = v /\ backlog[p].retry >= MaxRetries
    \/ <>[]DrainerStuck

(* The backlog row of the current version of a path goes only when the drainer *)
(* has embedded that very version: no overflow, retry, reindex or drained row  *)
(* of an older version takes it away.                                          *)
RowsLeaveDone ==
    [][\A p \in Paths :
         IsCurrent(p, backlog[p].version) /\ ~content[p].blank /\ backlog'[p].version # backlog[p].version =>
             LET v == backlog[p].version
             IN  drain = [at |-> "done", path |-> p, version |-> v, data |-> v]]_vars

-----------------------------------------------------------------------------
(* The inductive invariant of the proofs.                                    *)

(* An event tells of a version the store has reached, and of the current one  *)
(* what it is.                                                                *)
Fits(c, e) ==
    /\ e.version \in 1 .. c[e.path].version
    /\ e.version = c[e.path].version => (e.op = "delete" <=> c[e.path].deleted)

AllFit(c, s) == \A i \in DOMAIN s : Fits(c, s[i])

(* Nothing on its way to the index, nor the index itself, is ahead of the     *)
(* store, and what says that the current version is deleted is right.         *)
StoreLeads ==
    /\ AllFit(content, channel) /\ AllFit(content, queue)
    /\ \A p \in Paths :
         /\ chunks[p].version <= content[p].version
         /\ backlog[p].version <= content[p].version
         /\ tombs[p] <= content[p].version
         /\ content[p].version > 0 /\ tombs[p] = content[p].version => content[p].deleted
    /\ \A row \in reaper :
         /\ row[2] <= content[row[1]].version
         /\ row[2] = content[row[1]].version => content[row[1]].deleted
    /\ worker = "embedding" => job.version <= content[job.path].version

(* What a lane has read and not yet written is of the version it will write,  *)
(* and the drainer is done with a current version only once it has written it. *)
ReadsAreCurrent ==
    /\ worker = "embedding" => job.data = job.version
    /\ drain.at \in {"stage", "embed"} => drain.data = drain.version
    /\ drain.at = "done" /\ IsCurrent(drain.path, drain.version) /\ ~content[drain.path].blank =>
           drain.data = drain.version

(* The drainer works through rows of the backlog, one of each path, which only *)
(* a newer version replaces; it counts each attempt once.                      *)
DrainerOwnsRows ==
    /\ \A row \in batch :
         /\ row[2] > 0 /\ row[2] <= backlog[row[1]].version
         /\ row[2] = backlog[row[1]].version => backlog[row[1]].retry < MaxRetries
         /\ \A other \in batch : other[1] = row[1] => other = row
         /\ drain.at # "idle" => row[1] # drain.path
    /\ drain.at \notin {"idle", "dead"} =>
         /\ drain.version > 0 /\ drain.version <= backlog[drain.path].version
         /\ drain.version = backlog[drain.path].version => backlog[drain.path].retry < MaxRetries
    /\ drain.at = "idle" => drain = Idle
    /\ drain.at = "dead" => batch = {}

IInv ==
    /\ TypeOK /\ StoreLeads /\ ReadsAreCurrent /\ DrainerOwnsRows
    /\ ChunksAreOfTheirVersion /\ NoResurrection

=============================================================================
