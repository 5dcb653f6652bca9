------------------------------ MODULE JobQueue ------------------------------
(***************************************************************************)
(* The background job queue of the web server (class RagJobQueue): a pool  *)
(* of worker threads over one FIFO of jobs, the requests that enqueue and  *)
(* cancel jobs, the chats that hold index jobs back, the durable records a *)
(* restart recovers jobs from, and the graceful shutdown.                  *)
(*                                                                         *)
(* An action is one critical section of the queue's condition lock, one    *)
(* durable write, or one phase of a job; what the code does between two of *)
(* them can be interleaved with every other thread, or cut by a crash.     *)
(*                                                                         *)
(* A definition under a comment "Mutation:" is no part of the              *)
(* specification: it is the next definition with a slip in it that the     *)
(* properties have to notice.                                              *)
(***************************************************************************)
EXTENDS Naturals, FiniteSets

CONSTANTS
    Uploads,     \* ids of the jobs of kind "upload"
    Builds,      \* ids of the jobs that publish a staged build: reindex, rebuild
    Direct,      \* ids of the jobs that work on the live index in one phase
    Forced,      \* the uploads that replace an already indexed document
    Identity,    \* _job_identity of a job that is not an upload
    Workers,     \* the slots of the pool: max_workers of them
    MaxHistory,  \* MAX_JOB_HISTORY
    Watchdog,    \* is query_wait_timeout_seconds > 0?
    Lossy,       \* may a best-effort durable write fail (and be swallowed)?
    MaxQueries,  \* bound: chats in flight at once
    MaxCrashes,  \* bound: crashes of the server
    Stoppable,   \* bound: is the server shut down gracefully at some point?
    NoJob, NoWorker

Tracked == Builds \cup Direct
Jobs    == Uploads \cup Tracked

ASSUME JobKinds == /\ Uploads \cap Tracked = {}
                   /\ Builds \cap Direct = {}
                   /\ Forced \subseteq Uploads
ASSUME FiniteJobs == IsFiniteSet(Jobs)
ASSUME Pool == Workers # {}
ASSUME Nobody == NoJob \notin Jobs /\ NoWorker \notin Workers
ASSUME Bounds == /\ MaxHistory \in Nat /\ MaxQueries \in Nat /\ MaxCrashes \in Nat
                 /\ Watchdog \in BOOLEAN /\ Lossy \in BOOLEAN
                 /\ Stoppable \in BOOLEAN

VARIABLES
    known,       \* the keys of _jobs
    arrival,     \* position of a job in _jobs and _queue, which grow together
    arrivals,    \* how many jobs this run of the server has appended
    queue,       \* the ids in _queue (popped by arrival)
    status,      \* QueueJob.status; "fresh" before the request, "gone" after a crash
    cancelReq,   \* jobs whose cancel_requested flag and event are set
    ledger,      \* durable: the entries of the job ledger
    registry,    \* durable: status of an upload's document in the PDF registry
    staged,      \* durable: uploads whose staging directory exists
    processed,   \* durable: uploads whose processed Markdown exists
    pc, cur,     \* per worker: what it does next, and the job it holds
    indexLock,   \* holder of _index_write_lock
    queries,     \* active_query_count
    up,          \* is the server process running?
    accepting,   \* does it accept requests?
    finalizer,   \* progress of shutdown_finalize
    stopping,    \* shutdown_finalize: the jobs it found active
    forced,      \* shutdown_finalize: force-cancelled, bookkeeping still to do
    owed,        \* bookkeeping still to do by a cancel request or by recovery
    crashes

memory  == <<known, arrival, arrivals, queue>>
durable == <<ledger, registry, staged, processed>>
threads == <<pc, cur, indexLock>>
server  == <<queries, up, accepting, finalizer, stopping, forced, owed, crashes>>
vars    == <<memory, status, cancelReq, durable, threads, server>>

TerminalStatuses    == {"done", "failed", "cancelled"}
ActiveStatuses      == {"queued", "running", "paused_for_queries"}
RecoverableStatuses == {"queued", "saving_uploads", "ingesting", "ingested"}
RegistryStatuses    == RecoverableStatuses \cup
                       {"none", "indexed", "interrupted", "failed", "previous"}

Active(j)      == j \in known /\ status[j] \in ActiveStatuses
Terminal(j)    == status[j] \in TerminalStatuses
Recoverable(j) == IF j \in Uploads THEN registry[j] \in RecoverableStatuses
                                   ELSE j \in ledger

-----------------------------------------------------------------------------
(* Durable records.                                                        *)

\* What mark_job_status(status = s) leaves in the registry. "previous" is the
\* entry of the document a forced upload replaces: it carries another job id,
\* so later calls for this job skip it; reaching "ingested" forgets it.
Marked(u, s) ==
    LET r == registry[u]
        restores == u \in Forced /\ r \in RecoverableStatuses \ {"ingested"}
    IN  IF r \in {"none", "previous"} THEN r
        ELSE IF s = "failed" /\ r \in {"ingested", "indexed"} THEN r
        ELSE IF s \in {"interrupted", "failed"} /\ restores THEN "previous"
        ELSE s

Mark(u, s) == registry' = [registry EXCEPT ![u] = Marked(u, s)]

\* A best-effort write happens, or fails and is swallowed.
BestEffortMark(u, s)  == Mark(u, s) \/ (Lossy /\ registry' = registry)
BestEffortRemove(j)   == ledger' = ledger \ {j} \/ (Lossy /\ ledger' = ledger)

RecordInterrupted(j) ==
    IF j \in Uploads THEN BestEffortMark(j, "interrupted") ELSE registry' = registry
\* Mutation: the entry of an ended job stays.
LedgerKept(j) == ledger' = ledger
LedgerRemove(j) ==
    IF j \in Tracked THEN BestEffortRemove(j) ELSE ledger' = ledger

-----------------------------------------------------------------------------
(* The shared structures.                                                  *)

\* What popleft returns.
First(j) == j \in queue /\ \A k \in queue : arrival[j] <= arrival[k]

\* _prune_jobs_locked: beyond the cap, the oldest terminal jobs are dropped.
Pruned(js, st) ==
    LET ended == {j \in js : st[j] \in TerminalStatuses}
        older(j) == {k \in ended : arrival[k] < arrival[j]}
    IN  {j \in js : j \in ended =>
                        Cardinality(older(j)) + MaxHistory >= Cardinality(js)}

\* Mutation: only queued jobs are compared.
QueuedDuplicates(j) == {k \in known : /\ j \in Tracked /\ k \in Tracked
                                      /\ Identity[k] = Identity[j]
                                      /\ status[k] = "queued" /\ k \notin cancelReq}

\* _find_active_duplicate_locked: uploads are never coalesced, and a job that
\* is being cancelled is not joined.
Duplicates(j) == {k \in known : /\ j \in Tracked /\ k \in Tracked
                                /\ Identity[k] = Identity[j]
                                /\ ~Terminal(k) /\ k \notin cancelReq}

\* _ensure_worker_locked: a non-empty queue fills the pool.
Spawned == [w \in Workers |-> IF pc[w] = "idle" THEN "top" ELSE pc[w]]

-----------------------------------------------------------------------------
(* Requests.                                                               *)

Init ==
    /\ known = {} /\ queue = {} /\ arrivals = 0
    /\ arrival = [j \in Jobs |-> 0]
    /\ status = [j \in Jobs |-> "fresh"]
    /\ cancelReq = {}
    /\ ledger = {}
    /\ registry = [u \in Uploads |-> "none"]
    /\ staged = {} /\ processed = {}
    /\ pc = [w \in Workers |-> "idle"]
    /\ cur = [w \in Workers |-> NoJob]
    /\ indexLock = NoWorker
    /\ queries = 0
    /\ up = TRUE /\ accepting = TRUE
    /\ finalizer = "idle" /\ stopping = {} /\ forced = {}
    /\ owed = {}
    /\ crashes = 0

\* The upload endpoint stages the files and registers them before it enqueues.
RegisterUpload(u) ==
    /\ up /\ accepting
    /\ status[u] = "fresh" /\ registry[u] = "none"
    /\ registry' = [registry EXCEPT ![u] = "queued"]
    /\ staged' = staged \cup {u}
    /\ UNCHANGED <<memory, status, cancelReq, ledger, processed, threads, server>>

\* _enqueue, one critical section. A request that joins an active duplicate
\* changes nothing and is left out.
Enqueue(j) ==
    /\ up /\ accepting
    /\ status[j] = "fresh"
    /\ j \in Uploads => registry[j] = "queued"
    /\ Duplicates(j) = {}
    /\ IF j \in Tracked
         THEN ledger' = ledger \cup {j} \/ (Lossy /\ ledger' = ledger)
         ELSE ledger' = ledger
    /\ status' = [status EXCEPT ![j] = "queued"]
    /\ arrivals' = arrivals + 1
    /\ arrival' = [arrival EXCEPT ![j] = arrivals + 1]
    /\ queue' = queue \cup {j}
    /\ known' = Pruned(known \cup {j}, status')
    /\ pc' = Spawned
    /\ UNCHANGED <<cancelReq, registry, staged, processed, cur, indexLock, server>>

\* cancel_job, up to the release of the condition lock. A queued job ends
\* here, and its bookkeeping follows outside the lock; any other job is asked
\* to stop.
CancelJob(j) ==
    /\ up /\ accepting
    /\ Active(j)
    /\ cancelReq' = cancelReq \cup {j}
    /\ IF status[j] = "queued"
         THEN /\ queue' = queue \ {j}
              /\ status' = [status EXCEPT ![j] = "cancelled"]
              /\ owed' = owed \cup {j}
         ELSE /\ j \notin cancelReq
              /\ UNCHANGED <<queue, status, owed>>
    /\ UNCHANGED <<known, arrival, arrivals, durable, threads, queries, up,
                   accepting, finalizer, stopping, forced, crashes>>

\* The bookkeeping of cancel_job after the lock, and recovery's removal of a
\* duplicate's ledger entry.
Settle(j) ==
    /\ up
    /\ j \in owed
    /\ owed' = owed \ {j}
    /\ RecordInterrupted(j) /\ LedgerRemove(j)
    /\ UNCHANGED <<memory, status, cancelReq, staged, processed, threads, queries,
                   up, accepting, finalizer, stopping, forced, crashes>>

BeginQuery ==
    /\ up /\ accepting
    /\ queries < MaxQueries
    /\ queries' = queries + 1
    /\ UNCHANGED <<memory, status, cancelReq, durable, threads, up, accepting,
                   finalizer, stopping, forced, owed, crashes>>

\* Mutation: the count is not kept from going below zero.
FinishQueryTwice ==
    /\ up
    /\ queries' = queries - 1
    /\ UNCHANGED <<memory, status, cancelReq, durable, threads, up, accepting,
                   finalizer, stopping, forced, owed, crashes>>

FinishQuery ==
    /\ up
    /\ queries > 0
    /\ queries' = queries - 1
    /\ UNCHANGED <<memory, status, cancelReq, durable, threads, up, accepting,
                   finalizer, stopping, forced, owed, crashes>>

-----------------------------------------------------------------------------
(* The worker loop.                                                        *)

\* Moving worker w on, with the queue, the jobs and the records untouched.
Goto(w, next) == pc' = [pc EXCEPT ![w] = next]

At(w, here) == up /\ pc[w] = here

\* Mutation: the thread leaves without a last look at the queue.
LeaveUnseen(w) ==
    /\ At(w, "top")
    /\ Goto(w, "idle")
    /\ UNCHANGED <<memory, status, cancelReq, durable, cur, indexLock, server>>

\* _worker_loop finds the queue empty and takes itself off the pool.
Leave(w) ==
    /\ At(w, "top")
    /\ queue = {}
    /\ Goto(w, "idle")
    /\ UNCHANGED <<memory, status, cancelReq, durable, cur, indexLock, server>>

\* Mutation: the job is read from the queue but stays in it.
Peek(w) ==
    /\ At(w, "top")
    /\ \E j \in known :
         /\ First(j)
         /\ cur' = [cur EXCEPT ![w] = j]
         /\ status' = [status EXCEPT ![j] = "running"]
    /\ Goto(w, "dispatch")
    /\ UNCHANGED <<memory, cancelReq, durable, indexLock, server>>

\* _worker_loop takes the oldest job. A job cancelled while it was queued
\* ends here.
Pop(w) ==
    /\ At(w, "top")
    /\ \E j \in known :
         /\ First(j)
         /\ queue' = queue \ {j}
         /\ cur' = [cur EXCEPT ![w] = j]
         /\ IF j \in cancelReq
              THEN /\ status' = [status EXCEPT ![j] = "cancelled"]
                   /\ Goto(w, "interrupt_late")
              ELSE /\ status' = [status EXCEPT ![j] = "running"]
                   /\ Goto(w, "dispatch")
    /\ UNCHANGED <<known, arrival, arrivals, cancelReq, durable, indexLock, server>>

\* _worker_loop pops an id that pruning has dropped from _jobs: the KeyError
\* ends the thread.
PopUnknown(w) ==
    /\ At(w, "top")
    /\ \E j \in queue \ known : First(j) /\ queue' = queue \ {j}
    /\ Goto(w, "idle")
    /\ UNCHANGED <<known, arrival, arrivals, status, cancelReq, durable, cur,
                   indexLock, server>>

\* An exception leaves the phase and, on its way, the index lock.
Raise(w, handler) ==
    /\ Goto(w, handler)
    /\ indexLock' = IF indexLock = w THEN NoWorker ELSE indexLock
    /\ UNCHANGED <<memory, cancelReq, durable, cur, server>>

\* Where a phase looks at the cancel flag or event (not every kind of job does
\* while it works).
CheckPoints == {"dispatch", "save_gate", "ingest_gate", "index_gate",
                "publish_gate", "ingest", "work"}

NoticeCancel(w) ==
    /\ up
    /\ pc[w] \in CheckPoints
    /\ cur[w] \in cancelReq
    /\ Raise(w, "interrupt")
    /\ UNCHANGED status

\* Where a phase may fail: files missing, a full disk, a failed subprocess, a
\* lock timeout, a registry or membership that refuses the write.
FailPoints == {"dispatch", "save", "mark_saved", "mark_ingesting",
               "forced_clean", "ingest", "mark_ingested", "work", "publish",
               "mark_indexed"}

Fail(w) ==
    /\ up
    /\ pc[w] \in FailPoints
    /\ Raise(w, "raised")
    /\ UNCHANGED status

-----------------------------------------------------------------------------
(* The phases of a job: _run_job, _run_upload_job, _run_indexing.          *)

\* The start of _run_job. The registry still holds the status an upload was
\* recovered with, its resume_status.
Dispatch(w) ==
    /\ At(w, "dispatch")
    /\ LET j == cur[w] IN
         /\ j \notin cancelReq
         /\ Goto(w, IF j \in Tracked THEN "lock"
                    ELSE IF registry[j] = "ingested" /\ j \in processed THEN "lock"
                    ELSE IF j \in staged THEN "save_gate" ELSE "ingest_gate")
    /\ UNCHANGED <<memory, status, cancelReq, durable, cur, indexLock, server>>

\* What follows each of the waits for running chats.
Gates == {"save_gate", "ingest_gate", "index_gate", "publish_gate"}
AfterGate(gate) == CASE gate = "save_gate"    -> "save"
                     [] gate = "ingest_gate"  -> "mark_ingesting"
                     [] gate = "index_gate"   -> "work"
                     [] gate = "publish_gate" -> "publish"

\* Mutation: the wait does not look at the cancel flag.
GatePassCancelled(w) ==
    /\ up
    /\ pc[w] \in Gates
    /\ queries = 0
    /\ status' = [status EXCEPT ![cur[w]] = "running"]
    /\ Goto(w, AfterGate(pc[w]))
    /\ UNCHANGED <<memory, cancelReq, durable, cur, indexLock, server>>

\* _wait_for_no_queries finds no chat running.
GatePass(w) ==
    /\ up
    /\ pc[w] \in Gates
    /\ queries = 0
    /\ cur[w] \notin cancelReq
    /\ status' = [status EXCEPT ![cur[w]] = "running"]
    /\ Goto(w, AfterGate(pc[w]))
    /\ UNCHANGED <<memory, cancelReq, durable, cur, indexLock, server>>

\* _wait_for_no_queries waits, holding whatever lock its caller holds.
GatePause(w) ==
    /\ up
    /\ pc[w] \in Gates
    /\ queries > 0
    /\ cur[w] \notin cancelReq
    /\ status[cur[w]] # "paused_for_queries"
    /\ status' = [status EXCEPT ![cur[w]] = "paused_for_queries"]
    /\ UNCHANGED <<memory, cancelReq, durable, threads, server>>

\* Mutation: there is no watchdog.
GateWaitsForever(w) == FALSE

\* _wait_for_no_queries gives up after query_wait_timeout_seconds.
GateTimeout(w) ==
    /\ up
    /\ Watchdog
    /\ pc[w] \in Gates
    /\ queries > 0
    /\ cur[w] \notin cancelReq
    /\ status[cur[w]] = "paused_for_queries"
    /\ Raise(w, "raised")
    /\ UNCHANGED status

\* _save_staged_uploads moves the files and removes the staging directory.
SaveFiles(w) ==
    /\ At(w, "save")
    /\ staged' = staged \ {cur[w]}
    /\ Goto(w, "mark_saved")
    /\ UNCHANGED <<memory, status, cancelReq, ledger, registry, processed, cur,
                   indexLock, server>>

\* Registry writes of the upload phases; unlike the bookkeeping they may raise.
MarkPhase(w, here, s, next) ==
    /\ At(w, here)
    /\ Mark(cur[w], s)
    /\ Goto(w, next)
    /\ UNCHANGED <<memory, status, cancelReq, ledger, staged, processed, cur, server>>

MarkSaved(w) ==
    MarkPhase(w, "mark_saved", "saving_uploads", "ingest_gate") /\ UNCHANGED indexLock
MarkIngesting(w) ==
    /\ MarkPhase(w, "mark_ingesting", "ingesting",
                 IF cur[w] \in Forced THEN "forced_lock" ELSE "ingest")
    /\ UNCHANGED indexLock
\* Mutation: the document counts as indexed before it is.
MarkIngestedEarly(w) ==
    MarkPhase(w, "mark_ingested", "indexed", "lock") /\ UNCHANGED indexLock
MarkIngested(w) ==
    MarkPhase(w, "mark_ingested", "ingested", "lock") /\ UNCHANGED indexLock
MarkIndexed(w) ==
    /\ MarkPhase(w, "mark_indexed", "indexed", "finish")
    /\ indexLock' = NoWorker

\* Mutation: the forced cleanup does not wait for the lock.
AcquireMainLock(w) ==
    /\ up
    /\ pc[w] \in {"lock", "forced_lock"}
    /\ pc[w] = "lock" => indexLock = NoWorker
    /\ indexLock' = w
    /\ Goto(w, IF pc[w] = "lock" THEN "index_gate" ELSE "forced_clean")
    /\ UNCHANGED <<memory, status, cancelReq, durable, cur, server>>

\* _prepare_for_forced_duplicates, and the main _index_write_lock section.
AcquireIndexLock(w) ==
    /\ up
    /\ pc[w] \in {"lock", "forced_lock"}
    /\ indexLock = NoWorker
    /\ indexLock' = w
    /\ Goto(w, IF pc[w] = "lock" THEN "index_gate" ELSE "forced_clean")
    /\ UNCHANGED <<memory, status, cancelReq, durable, cur, server>>

ForcedClean(w) ==
    /\ At(w, "forced_clean")
    /\ processed' = processed \ {cur[w]}
    /\ indexLock' = NoWorker
    /\ Goto(w, "ingest")
    /\ UNCHANGED <<memory, status, cancelReq, ledger, registry, staged, cur, server>>

\* _run_ingestion succeeds; the check that follows it is the last one before
\* the registry write.
Ingest(w) ==
    /\ At(w, "ingest")
    /\ cur[w] \notin cancelReq
    /\ processed' = processed \cup {cur[w]}
    /\ Goto(w, "mark_ingested")
    /\ UNCHANGED <<memory, status, cancelReq, ledger, registry, staged, cur,
                   indexLock, server>>

\* The work under the index lock: for a staged build the subprocess, for an
\* upload the incremental indexing (which looks at the flag when it ends),
\* for the other kinds all of it.
Work(w) ==
    /\ At(w, "work")
    /\ cur[w] \in Uploads => cur[w] \notin cancelReq
    /\ Goto(w, CASE cur[w] \in Uploads -> "mark_indexed"
                 [] cur[w] \in Builds  -> "publish_gate"
                 [] OTHER              -> "finish")
    /\ indexLock' = IF cur[w] \in Direct THEN NoWorker ELSE indexLock
    /\ UNCHANGED <<memory, status, cancelReq, durable, cur, server>>

\* _publish_staged_index and _prune_to_membership.
Publish(w) ==
    /\ At(w, "publish")
    /\ indexLock' = NoWorker
    /\ Goto(w, "finish")
    /\ UNCHANGED <<memory, status, cancelReq, durable, cur, server>>

-----------------------------------------------------------------------------
(* How a job ends.                                                         *)

\* The handler of an exception that is no cancellation reads the cancel flag
\* without the condition lock.
Raised(w) ==
    /\ At(w, "raised")
    /\ Goto(w, IF cur[w] \in cancelReq THEN "raised_interrupt"
               ELSE IF cur[w] \in Uploads THEN "mark_failed" ELSE "set_failed")
    /\ UNCHANGED <<memory, status, cancelReq, durable, cur, indexLock, server>>

\* _record_interrupted: before the status is set when an exception ended the
\* job, after it when the flag was seen under the condition lock.
AfterInterrupt(here) == CASE here = "interrupt"        -> "set_cancelled"
                          [] here = "raised_interrupt" -> "raised_cancelled"
                          [] here = "interrupt_late"   -> "unledger"
BookInterrupted(w) ==
    /\ up
    /\ pc[w] \in {"interrupt", "raised_interrupt", "interrupt_late"}
    /\ RecordInterrupted(cur[w])
    /\ Goto(w, AfterInterrupt(pc[w]))
    /\ UNCHANGED <<memory, status, cancelReq, ledger, staged, processed, cur,
                   indexLock, server>>

SetCancelled(w) ==
    /\ up
    /\ pc[w] \in {"set_cancelled", "raised_cancelled"}
    /\ status' = [status EXCEPT ![cur[w]] = "cancelled"]
    /\ Goto(w, IF pc[w] = "set_cancelled" THEN "unledger" ELSE "raised_unledger")
    /\ UNCHANGED <<memory, cancelReq, durable, cur, indexLock, server>>

MarkFailed(w) ==
    /\ At(w, "mark_failed")
    /\ BestEffortMark(cur[w], "failed")
    /\ Goto(w, "set_failed")
    /\ UNCHANGED <<memory, status, cancelReq, ledger, staged, processed, cur,
                   indexLock, server>>

\* The flag is not read again before the status is overwritten.
SetFailed(w) ==
    /\ At(w, "set_failed")
    /\ status' = [status EXCEPT ![cur[w]] = "failed"]
    /\ Goto(w, "unledger")
    /\ UNCHANGED <<memory, cancelReq, durable, cur, indexLock, server>>

\* Mutation: the flag is not read under the condition lock.
FinishUnchecked(w) ==
    /\ At(w, "finish")
    /\ status' = [status EXCEPT ![cur[w]] = "done"]
    /\ Goto(w, "unledger")
    /\ UNCHANGED <<memory, cancelReq, durable, cur, indexLock, server>>

\* The else branch: the job ran to its end.
Finish(w) ==
    /\ At(w, "finish")
    /\ IF cur[w] \in cancelReq
         THEN /\ status' = [status EXCEPT ![cur[w]] = "cancelled"]
              /\ Goto(w, "interrupt_late")
         ELSE /\ status' = [status EXCEPT ![cur[w]] = "done"]
              /\ Goto(w, "unledger")
    /\ UNCHANGED <<memory, cancelReq, durable, cur, indexLock, server>>

\* The end of the bookkeeping. After an exception that met a cancellation the
\* loop continues at once, without pruning.
Unledger(w) ==
    /\ up
    /\ pc[w] \in {"unledger", "raised_unledger"}
    /\ LedgerRemove(cur[w])
    /\ IF pc[w] = "unledger"
         THEN Goto(w, "prune") /\ cur' = cur
         ELSE Goto(w, "top") /\ cur' = [cur EXCEPT ![w] = NoJob]
    /\ UNCHANGED <<memory, status, cancelReq, registry, staged, processed,
                   indexLock, server>>

PruneJobs(w) ==
    /\ At(w, "prune")
    /\ known' = Pruned(known, status)
    /\ Goto(w, "top")
    /\ cur' = [cur EXCEPT ![w] = NoJob]
    /\ UNCHANGED <<arrival, arrivals, queue, status, cancelReq, durable,
                   indexLock, server>>

-----------------------------------------------------------------------------
(* Shutdown, crash and restart.                                            *)

\* shutdown_finalize, first critical section: called by the armed countdown
\* while requests are still served, and by lifespan when they are not.
ShutdownRequest ==
    /\ up /\ finalizer = "idle"
    /\ Stoppable
    /\ stopping' = {j \in known : ~Terminal(j)}
    /\ cancelReq' = cancelReq \cup stopping'
    /\ finalizer' = IF stopping' = {} THEN "finished" ELSE "grace"
    /\ UNCHANGED <<memory, status, durable, threads, queries, up, accepting,
                   forced, owed, crashes>>

\* shutdown_finalize after the grace period: the stragglers are cancelled
\* where they are; a queued one stays in _queue.
ShutdownForce ==
    /\ up /\ finalizer = "grace"
    /\ forced' = {j \in stopping : ~Terminal(j)}
    /\ status' = [j \in Jobs |-> IF j \in forced' THEN "cancelled" ELSE status[j]]
    /\ finalizer' = "bookkeeping"
    /\ UNCHANGED <<memory, cancelReq, durable, threads, queries, up, accepting,
                   stopping, owed, crashes>>

ShutdownBookkeep(j) ==
    /\ up /\ finalizer = "bookkeeping"
    /\ j \in forced
    /\ forced' = forced \ {j}
    /\ RecordInterrupted(j) /\ LedgerRemove(j)
    /\ UNCHANGED <<memory, status, cancelReq, staged, processed, threads, queries,
                   up, accepting, finalizer, stopping, owed, crashes>>

ShutdownFinished ==
    /\ up /\ finalizer = "bookkeeping" /\ forced = {}
    /\ finalizer' = "finished"
    /\ stopping' = {}
    /\ UNCHANGED <<memory, status, cancelReq, durable, threads, queries, up,
                   accepting, forced, owed, crashes>>

\* The server leaves its serve loop when the requests in flight have drained;
\* lifespan finalizes once more.
StopAccepting ==
    /\ up /\ accepting /\ finalizer \in {"idle", "finished"}
    /\ Stoppable
    /\ queries = 0 /\ owed = {}
    /\ accepting' = FALSE
    /\ finalizer' = "idle"
    /\ UNCHANGED <<memory, status, cancelReq, durable, threads, queries, up,
                   stopping, forced, owed, crashes>>

\* The end of the process: only the durable records are left.
Down ==
    /\ up /\ up' = FALSE
    /\ known' = {} /\ queue' = {} /\ arrivals' = 0
    /\ arrival' = [j \in Jobs |-> 0]
    /\ status' = [j \in Jobs |-> IF status[j] = "fresh" /\ ~Recoverable(j)
                                   THEN "fresh" ELSE "gone"]
    /\ cancelReq' = {}
    /\ pc' = [w \in Workers |-> "idle"]
    /\ cur' = [w \in Workers |-> NoJob]
    /\ indexLock' = NoWorker
    /\ queries' = 0
    /\ accepting' = FALSE /\ finalizer' = "idle"
    /\ stopping' = {} /\ forced' = {} /\ owed' = {}
    /\ UNCHANGED durable

Crash == crashes < MaxCrashes /\ crashes' = crashes + 1 /\ Down

\* The end of lifespan, or the shutdown watchdog's os._exit while a request
\* still holds the server.
Exit == finalizer = "finished" /\ Down /\ UNCHANGED crashes

\* recover_pending_uploads at startup: the uploads of the registry, then the
\* entries of the ledger, one per identity. The removal of the other entries
\* follows outside the lock.
Restart ==
    /\ ~up /\ up' = TRUE /\ accepting' = TRUE
    /\ \E kept \in SUBSET ledger :
         /\ \A j \in ledger : \E k \in kept : Identity[k] = Identity[j]
         /\ \A j, k \in kept : Identity[k] = Identity[j] => j = k
         /\ known' = kept \cup {u \in Uploads : Recoverable(u)}
         /\ owed' = ledger \ kept
    /\ queue' = known'
    /\ arrivals' = Cardinality(known')
    /\ arrival' \in {a \in [Jobs -> 0 .. arrivals'] :
           /\ \A j \in Jobs : a[j] = 0 <=> j \notin known'
           /\ \A j, k \in known' : a[j] = a[k] => j = k
           /\ \A j \in known' \cap Uploads, k \in known' \ Uploads : a[j] < a[k]}
    /\ status' = [j \in Jobs |-> IF j \in known' THEN "queued" ELSE status[j]]
    /\ pc' = [w \in Workers |-> IF known' = {} THEN "idle" ELSE "top"]
    /\ UNCHANGED <<cancelReq, durable, cur, indexLock, queries, finalizer,
                   stopping, forced, crashes>>

-----------------------------------------------------------------------------
WorkerStep(w) ==
    \/ Leave(w) \/ Pop(w) \/ PopUnknown(w)
    \/ NoticeCancel(w) \/ Fail(w)
    \/ Dispatch(w) \/ GatePass(w) \/ GatePause(w) \/ GateTimeout(w)
    \/ SaveFiles(w) \/ MarkSaved(w) \/ MarkIngesting(w)
    \/ AcquireIndexLock(w) \/ ForcedClean(w) \/ Ingest(w) \/ MarkIngested(w)
    \/ Work(w) \/ Publish(w) \/ MarkIndexed(w)
    \/ Raised(w) \/ BookInterrupted(w) \/ SetCancelled(w)
    \/ MarkFailed(w) \/ SetFailed(w) \/ Finish(w) \/ Unledger(w) \/ PruneJobs(w)

Request ==
    \/ \E u \in Uploads : RegisterUpload(u)
    \/ \E j \in Jobs : Enqueue(j) \/ CancelJob(j)
    \/ BeginQuery \/ FinishQuery

Shutdown ==
    \/ ShutdownRequest \/ ShutdownForce
    \/ \E j \in Jobs : ShutdownBookkeep(j)
    \/ ShutdownFinished \/ StopAccepting \/ Exit

Next ==
    \/ Request
    \/ \E j \in Jobs : Settle(j)
    \/ \E w \in Workers : WorkerStep(w)
    \/ Shutdown
    \/ Crash
    \/ Restart

Spec == Init /\ [][Next]_vars

-----------------------------------------------------------------------------
(* Safety.                                                                 *)

Handlers == {"raised", "interrupt", "set_cancelled", "raised_interrupt",
             "raised_cancelled", "raised_unledger", "mark_failed", "set_failed",
             "interrupt_late", "unledger", "prune"}
LockedPhases == {"index_gate", "work", "publish_gate", "publish", "mark_indexed",
                 "forced_clean"}
PCs == {"idle", "top", "dispatch", "save_gate", "save", "mark_saved",
        "ingest_gate", "mark_ingesting", "forced_lock", "ingest",
        "mark_ingested", "lock", "finish"} \cup LockedPhases \cup Handlers

\* Every variable stays in its range.
TypeOK ==
    /\ known \subseteq Jobs /\ queue \subseteq Jobs
    /\ arrival \in [Jobs -> Nat] /\ arrivals \in Nat
    /\ status \in [Jobs -> {"fresh", "gone"} \cup ActiveStatuses \cup TerminalStatuses]
    /\ cancelReq \subseteq Jobs
    /\ ledger \subseteq Tracked
    /\ registry \in [Uploads -> RegistryStatuses]
    /\ staged \subseteq Uploads /\ processed \subseteq Uploads
    /\ pc \in [Workers -> PCs] /\ cur \in [Workers -> Jobs \cup {NoJob}]
    /\ indexLock \in Workers \cup {NoWorker}
    /\ queries \in Nat /\ crashes \in Nat
    /\ up \in BOOLEAN /\ accepting \in BOOLEAN
    /\ finalizer \in {"idle", "grace", "bookkeeping", "finished"}
    /\ stopping \subseteq Jobs /\ forced \subseteq Jobs /\ owed \subseteq Jobs

\* No two jobs touch an index at once (_index_write_lock: "only one may run at
\* a time"), forced-duplicate cleanup and the paused wait included.
OneIndexWriter ==
    \A v, w \in Workers : pc[v] \in LockedPhases /\ pc[w] \in LockedPhases => v = w

\* A job is worked on by one worker, is not queued any more while it is, and
\* a queued job is not active anywhere else: no job ever runs twice at once,
\* whatever cancel requests, forced shutdowns and restarts do to it.
OneRunPerJob ==
    /\ \A v, w \in Workers :
          cur[v] = cur[w] /\ cur[w] # NoJob => v = w
    /\ \A w \in Workers : cur[w] \notin queue

\* _find_active_duplicate_locked: at most one equivalent maintenance job is
\* under way, cancelled ones aside, through cancellations and through a
\* recovery that forgets which jobs were being cancelled.
Coalesced ==
    \A j, k \in known \cap Tracked :
        /\ Identity[j] = Identity[k]
        /\ Active(j) /\ Active(k)
        /\ j \notin cancelReq /\ k \notin cancelReq
        => j = k

\* _worker_loop and _ensure_worker_locked: while the queue holds a job, some
\* thread of the pool is alive to take it, so no wakeup is ever lost.
NoStrandedQueue ==
    up /\ queue # {} => \E w \in Workers : pc[w] # "idle"

\* The ledger and the registry: an accepted job that has not ended and is not
\* being cancelled survives a crash at this moment, unless its rows are
\* already published or its failure is already being recorded.
NothingLost ==
    \A j \in known :
        Active(j) /\ j \notin cancelReq /\ ~Recoverable(j) =>
            \E w \in Workers : cur[w] = j /\ pc[w] \in {"finish", "set_failed"}

\* Once a job has ended and its bookkeeping is over, a restart does not run it
\* again ("or startup recovery would re-enqueue the cancelled job on every
\* restart"). An upload that failed after it was ingested is meant to be
\* taken up again.
Owing(j) == \/ j \in owed \cup forced
            \/ \E w \in Workers : cur[w] = j /\ pc[w] # "prune"
NoResurrection ==
    \A j \in Jobs :
        Terminal(j) /\ Recoverable(j) /\ ~Owing(j) =>
            j \in Uploads /\ status[j] = "failed" /\ registry[j] = "ingested"

\* A cancellation that cancel_job accepted, or that a shutdown requested, is
\* never answered by a job that reports success.
CancelNeverDone == \A j \in cancelReq : status[j] # "done"

\* A job that has ended never becomes active again in the same run of the
\* server, though its worker may still be in the middle of a phase.
NeverRevived ==
    [][\A j \in Jobs : Terminal(j) => status'[j] \notin ActiveStatuses]_vars

-----------------------------------------------------------------------------
(* Liveness: every thread that can run does, the watchdog is armed, and a  *)
(* crashed server is started again. Chats need never end.                  *)

Fairness ==
    /\ \A w \in Workers : WF_vars(WorkerStep(w))
    /\ \A j \in Jobs : WF_vars(Settle(j)) /\ WF_vars(ShutdownBookkeep(j))
    /\ WF_vars(ShutdownForce) /\ WF_vars(ShutdownFinished) /\ WF_vars(Exit)
    /\ WF_vars(Restart)

FairSpec == Spec /\ Fairness

\* Every accepted job comes to an end: it ends itself, or a restart finds that
\* nothing of it is left to do, for a tracked job because an equivalent one
\* ended in its place.
Settled(j) ==
    \/ Terminal(j)
    \/ /\ up /\ status[j] = "gone" /\ ~Recoverable(j)
       /\ j \in Tracked => \E k \in Tracked : Identity[k] = Identity[j] /\ Terminal(k)
EveryJobSettles == \A j \in Jobs : Active(j) ~> Settled(j)

=============================================================================
