--------------------------- MODULE JobQueueProofs ---------------------------
(***************************************************************************)
(* Theorems about JobQueue, for every set of jobs and workers and every    *)
(* value of the other constants.                                           *)
(***************************************************************************)
EXTENDS JobQueue, TLAPS, FiniteSetTheorems

-----------------------------------------------------------------------------
(* Type correctness.                                                       *)

\* Workers only move between the locations of PCs.
LEMMA GotoType ==
    ASSUME pc \in [Workers -> PCs], NEW w \in Workers, NEW next \in PCs, Goto(w, next)
    PROVE  pc' \in [Workers -> PCs]
  BY DEF Goto

\* A registry mark stays among the registry statuses.
LEMMA MarkType ==
    ASSUME registry \in [Uploads -> RegistryStatuses],
           NEW u \in Uploads, NEW s \in RegistryStatuses,
           Mark(u, s) \/ BestEffortMark(u, s)
    PROVE  registry' \in [Uploads -> RegistryStatuses]
  <1>1. Marked(u, s) \in RegistryStatuses
    BY DEF Marked, RegistryStatuses
  <1> QED
    BY <1>1 DEF Mark, BestEffortMark

\* So do the best-effort records of an interrupted job and of the ledger.
LEMMA BookkeepingType ==
    ASSUME TypeOK, NEW j \in Jobs, RecordInterrupted(j) \/ LedgerRemove(j)
    PROVE  /\ RecordInterrupted(j) => registry' \in [Uploads -> RegistryStatuses]
           /\ LedgerRemove(j) => ledger' \subseteq Tracked
  <1>1. RecordInterrupted(j) => registry' \in [Uploads -> RegistryStatuses]
    BY MarkType DEF RecordInterrupted, TypeOK, RegistryStatuses
  <1>2. LedgerRemove(j) => ledger' \subseteq Tracked
    BY DEF LedgerRemove, BestEffortRemove, TypeOK
  <1> QED
    BY <1>1, <1>2

LEMMA InitType == Init => TypeOK
  BY Bounds DEF Init, TypeOK, RegistryStatuses, PCs

\* The requests, and the bookkeeping a cancel request leaves behind.
LEMMA RequestType ==
    ASSUME TypeOK, Request \/ \E j \in Jobs : Settle(j)
    PROVE  TypeOK'
  <1> USE DEF memory, durable, threads, server
  <1>1. ASSUME NEW u \in Uploads, RegisterUpload(u) PROVE TypeOK'
    BY <1>1 DEF RegisterUpload, TypeOK, RegistryStatuses, RecoverableStatuses
  <1>2. ASSUME NEW j \in Jobs, Enqueue(j) PROVE TypeOK'
    <2>1. known' \subseteq Jobs
      BY <1>2 DEF Enqueue, Pruned, TypeOK
    <2>2. pc' \in [Workers -> PCs]
      BY <1>2 DEF Enqueue, Spawned, TypeOK, PCs
    <2>3. ledger' \subseteq Tracked
      BY <1>2 DEF Enqueue, TypeOK
    <2>4. /\ arrival' \in [Jobs -> Nat] /\ arrivals' \in Nat /\ queue' \subseteq Jobs
          /\ status' \in [Jobs -> {"fresh", "gone"} \cup ActiveStatuses \cup TerminalStatuses]
      BY <1>2 DEF Enqueue, TypeOK, ActiveStatuses
    <2> QED
      BY <1>2, <2>1, <2>2, <2>3, <2>4 DEF Enqueue, TypeOK
  <1>3. ASSUME NEW j \in Jobs, CancelJob(j) PROVE TypeOK'
    BY <1>3 DEF CancelJob, TypeOK, TerminalStatuses
  <1>4. CASE BeginQuery
    BY <1>4 DEF BeginQuery, TypeOK
  <1>5. CASE FinishQuery
    BY <1>5 DEF FinishQuery, TypeOK
  <1>6. ASSUME NEW j \in Jobs, Settle(j) PROVE TypeOK'
    BY <1>6, BookkeepingType DEF Settle, TypeOK
  <1> QED
    BY <1>1, <1>2, <1>3, <1>4, <1>5, <1>6 DEF Request

\* Shutdown, crash and restart.
LEMMA ServerType ==
    ASSUME TypeOK, Shutdown \/ Crash \/ Restart
    PROVE  TypeOK'
  <1> USE DEF memory, durable, threads, server
  <1>1. CASE ShutdownRequest
    BY <1>1 DEF ShutdownRequest, TypeOK
  <1>2. CASE ShutdownForce
    BY <1>2 DEF ShutdownForce, TypeOK, TerminalStatuses
  <1>3. ASSUME NEW j \in Jobs, ShutdownBookkeep(j) PROVE TypeOK'
    BY <1>3, BookkeepingType DEF ShutdownBookkeep, TypeOK
  <1>4. CASE ShutdownFinished
    BY <1>4 DEF ShutdownFinished, TypeOK
  <1>5. CASE StopAccepting
    BY <1>5 DEF StopAccepting, TypeOK
  <1>6. ASSUME Down, crashes' \in Nat PROVE TypeOK'
    BY <1>6 DEF Down, TypeOK, PCs
  <1>7. CASE Exit
    BY <1>6, <1>7 DEF Exit, TypeOK
  <1>8. CASE Crash
    BY <1>6, <1>8 DEF Crash, TypeOK
  <1>9. CASE Restart
    <2>1. known' \subseteq Jobs /\ owed' \subseteq Jobs
      BY <1>9 DEF Restart, TypeOK, Jobs
    <2>2. arrivals' \in Nat
      BY <1>9, <2>1, FiniteJobs, FS_Subset, FS_CardinalityType DEF Restart
    <2>3. arrival' \in [Jobs -> Nat]
      BY <1>9, <2>2 DEF Restart
    <2>4. status' \in [Jobs -> {"fresh", "gone"} \cup ActiveStatuses \cup TerminalStatuses]
      BY <1>9 DEF Restart, TypeOK, ActiveStatuses
    <2>5. pc' \in [Workers -> PCs]
      BY <1>9 DEF Restart, PCs
    <2> QED
      BY <1>9, <2>1, <2>2, <2>3, <2>4, <2>5 DEF Restart, TypeOK
  <1> QED
    BY <1>1, <1>2, <1>3, <1>4, <1>5, <1>7, <1>8, <1>9 DEF Shutdown

-----------------------------------------------------------------------------
(* What holds between the worker threads and the jobs they hold.           *)

\* A worker holds a job unless it is off the pool or between two jobs, and the
\* phases of an upload are reached with an upload only.
UploadPhases == {"save_gate", "save", "mark_saved", "ingest_gate",
                 "mark_ingesting", "forced_lock", "forced_clean", "ingest",
                 "mark_ingested", "mark_indexed", "mark_failed"}
HoldsJob ==
    \A w \in Workers :
        /\ cur[w] = NoJob <=> pc[w] \in {"idle", "top"}
        /\ pc[w] \in UploadPhases => cur[w] \in Uploads

\* Type correctness and HoldsJob are preserved together.
LEMMA WorkerType ==
    ASSUME TypeOK, HoldsJob, NEW w \in Workers, WorkerStep(w)
    PROVE  TypeOK'
  <1> USE DEF memory, durable, threads, server, At
  <1>0. /\ pc[w] \notin {"idle", "top"} => cur[w] \in Jobs
        /\ pc[w] \in UploadPhases => cur[w] \in Uploads
    BY DEF TypeOK, HoldsJob
  <1>a. ASSUME NEW h \in Handlers, Raise(w, h), status' = status PROVE TypeOK'
    BY <1>a DEF Raise, Goto, TypeOK, PCs
  <1>b. ASSUME NEW here \in UploadPhases, NEW s \in RegistryStatuses, NEW n \in PCs,
               MarkPhase(w, here, s, n), indexLock' \in {indexLock, NoWorker}
        PROVE  TypeOK'
    <2>1. registry' \in [Uploads -> RegistryStatuses]
      BY <1>b, <1>0, MarkType DEF MarkPhase, TypeOK
    <2> QED
      BY <1>b, <2>1 DEF MarkPhase, Goto, TypeOK
  <1>1. CASE Leave(w)
    BY <1>1 DEF Leave, Goto, TypeOK, PCs
  <1>2. CASE Pop(w)
    BY <1>2 DEF Pop, Goto, TypeOK, PCs, Handlers, ActiveStatuses, TerminalStatuses
  <1>3. CASE PopUnknown(w)
    BY <1>3 DEF PopUnknown, Goto, TypeOK, PCs
  <1>4. CASE NoticeCancel(w)
    BY <1>4, <1>a DEF NoticeCancel, Handlers
  <1>5. CASE Fail(w)
    BY <1>5, <1>a DEF Fail, Handlers
  <1>6. CASE Dispatch(w)
    BY <1>6 DEF Dispatch, Goto, TypeOK, PCs
  <1>7. CASE GatePass(w)
    BY <1>7 DEF GatePass, Gates, AfterGate, Goto, TypeOK, PCs, LockedPhases, ActiveStatuses
  <1>8. CASE GatePause(w)
    BY <1>8 DEF GatePause, TypeOK, ActiveStatuses
  <1>9. CASE GateTimeout(w)
    BY <1>9, <1>a DEF GateTimeout, Handlers
  <1>10. CASE SaveFiles(w)
    BY <1>10, <1>0 DEF SaveFiles, Goto, TypeOK, PCs
  <1>11. CASE MarkSaved(w)
    BY <1>11, <1>b DEF MarkSaved, UploadPhases, RegistryStatuses, RecoverableStatuses, PCs
  <1>12. CASE MarkIngesting(w)
    BY <1>12, <1>b DEF MarkIngesting, UploadPhases, RegistryStatuses, RecoverableStatuses, PCs
  <1>13. CASE AcquireIndexLock(w)
    BY <1>13 DEF AcquireIndexLock, Goto, TypeOK, PCs, LockedPhases
  <1>14. CASE ForcedClean(w)
    BY <1>14 DEF ForcedClean, Goto, TypeOK, PCs
  <1>15. CASE Ingest(w)
    BY <1>15, <1>0 DEF Ingest, Goto, TypeOK, PCs, UploadPhases
  <1>16. CASE MarkIngested(w)
    BY <1>16, <1>b DEF MarkIngested, UploadPhases, RegistryStatuses, RecoverableStatuses, PCs
  <1>17. CASE Work(w)
    BY <1>17 DEF Work, Goto, TypeOK, PCs, LockedPhases
  <1>18. CASE Publish(w)
    BY <1>18 DEF Publish, Goto, TypeOK, PCs
  <1>19. CASE MarkIndexed(w)
    BY <1>19, <1>b DEF MarkIndexed, UploadPhases, RegistryStatuses, PCs
  <1>20. CASE Raised(w)
    BY <1>20 DEF Raised, Goto, TypeOK, PCs, Handlers
  <1>21. CASE BookInterrupted(w)
    <2>1. registry' \in [Uploads -> RegistryStatuses]
      BY <1>21, <1>0, BookkeepingType DEF BookInterrupted
    <2> QED
      BY <1>21, <2>1 DEF BookInterrupted, AfterInterrupt, Goto, TypeOK, PCs, Handlers
  <1>22. CASE SetCancelled(w)
    BY <1>22 DEF SetCancelled, Goto, TypeOK, PCs, Handlers, TerminalStatuses
  <1>23. CASE MarkFailed(w)
    <2>1. registry' \in [Uploads -> RegistryStatuses]
      BY <1>23, <1>0, MarkType DEF MarkFailed, UploadPhases, RegistryStatuses, TypeOK
    <2> QED
      BY <1>23, <2>1 DEF MarkFailed, Goto, TypeOK, PCs, Handlers
  <1>24. CASE SetFailed(w)
    BY <1>24 DEF SetFailed, Goto, TypeOK, PCs, Handlers, TerminalStatuses
  <1>25. CASE Finish(w)
    BY <1>25 DEF Finish, Goto, TypeOK, PCs, Handlers, TerminalStatuses
  <1>26. CASE Unledger(w)
    <2>1. ledger' \subseteq Tracked
      BY <1>26, <1>0, BookkeepingType DEF Unledger
    <2> QED
      BY <1>26, <2>1 DEF Unledger, Goto, TypeOK, PCs, Handlers
  <1>27. CASE PruneJobs(w)
    BY <1>27 DEF PruneJobs, Pruned, Goto, TypeOK, PCs
  <1> QED
    BY <1>1, <1>2, <1>3, <1>4, <1>5, <1>6, <1>7, <1>8, <1>9, <1>10, <1>11, <1>12,
       <1>13, <1>14, <1>15, <1>16, <1>17, <1>18, <1>19, <1>20, <1>21, <1>22, <1>23,
       <1>24, <1>25, <1>26, <1>27 DEF WorkerStep

-----------------------------------------------------------------------------
(* The inductive invariant.                                                *)

RunPhases == PCs \ (Handlers \cup {"idle", "top"})

\* Whoever works on an index holds the lock.
LockHeld == \A w \in Workers : pc[w] \in LockedPhases => indexLock = w

\* Only jobs that were enqueued by this run of the server are queued or worked
\* on; none of them is left when the server is down.
OwnJobs ==
    /\ \A j \in queue : status[j] \notin {"fresh", "gone"}
    /\ \A w \in Workers : cur[w] # NoJob => status[cur[w]] \notin {"fresh", "gone"}
    /\ ~up => /\ known = {} /\ queue = {} /\ cancelReq = {} /\ stopping = {}
              /\ \A w \in Workers : cur[w] = NoJob /\ pc[w] = "idle"
              /\ \A j \in Jobs : status[j] \in {"fresh", "gone"}

\* The status follows the thread, except that of a job being cancelled: it may
\* have been ended under the feet of its worker, or while it was queued.
StatusFollows ==
    /\ \A j \in queue : j \notin cancelReq => status[j] = "queued"
    /\ \A w \in Workers :
          pc[w] \in RunPhases /\ cur[w] \notin cancelReq =>
              status[cur[w]] \in {"running", "paused_for_queries"}

\* Shutdown ends only jobs it has asked to stop.
StopsCancelled == stopping \subseteq cancelReq

Inv ==
    /\ TypeOK /\ HoldsJob /\ LockHeld /\ OneRunPerJob
    /\ OwnJobs /\ StatusFollows /\ StopsCancelled

\* The parts of the invariant that relate threads and jobs.
Linked == HoldsJob /\ LockHeld /\ OneRunPerJob /\ OwnJobs /\ StatusFollows /\ StopsCancelled

\* A worker that holds a job moves on: it must not enter a running phase from a
\* handler, nor a locked phase without the lock.
Moves(w, n) ==
    /\ Goto(w, n) /\ up
    /\ UNCHANGED <<known, queue, cancelReq, cur, up, stopping>>
    /\ pc[w] \notin {"idle", "top"} /\ n \notin {"idle", "top"}
    /\ n \in UploadPhases => cur[w] \in Uploads
    /\ n \in RunPhases => pc[w] \in RunPhases
    /\ n \in LockedPhases => indexLock' = w
    /\ indexLock' = indexLock \/ indexLock \in {w, NoWorker}

\* Such a move keeps the parts together when the status does not change...
LEMMA MoveLinked ==
    ASSUME Inv, NEW w \in Workers, NEW n \in PCs, Moves(w, n), status' = status
    PROVE  Linked'
  <1> USE DEF Inv, Moves, Goto
  <1>1. pc' \in [Workers -> PCs] /\ \A v \in Workers : v # w => pc'[v] = pc[v]
    BY DEF TypeOK
  <1>2. pc'[w] = n
    BY DEF TypeOK
  <1>3. HoldsJob'
    BY <1>1, <1>2 DEF HoldsJob, TypeOK
  <1>4. LockHeld'
    BY <1>1, <1>2, Nobody DEF LockHeld, TypeOK
  <1>5. OneRunPerJob'
    BY DEF OneRunPerJob
  <1>6. OwnJobs'
    BY DEF OwnJobs
  <1>7. StatusFollows'
    BY <1>1, <1>2 DEF StatusFollows
  <1>8. StopsCancelled'
    BY DEF StopsCancelled
  <1> QED
    BY <1>3, <1>4, <1>5, <1>6, <1>7, <1>8 DEF Linked

\* ... and when the worker sets the status of the job it holds.
LEMMA MoveStatusLinked ==
    ASSUME Inv, NEW w \in Workers, NEW n \in PCs, Moves(w, n),
           NEW s \in ActiveStatuses \cup TerminalStatuses,
           status' = [status EXCEPT ![cur[w]] = s],
           n \in RunPhases => s \in {"running", "paused_for_queries"}
    PROVE  Linked'
  <1> USE DEF Inv, Moves, Goto
  <1>1. pc' \in [Workers -> PCs] /\ \A v \in Workers : v # w => pc'[v] = pc[v]
    BY DEF TypeOK
  <1>2. pc'[w] = n /\ cur[w] \in Jobs
    BY DEF TypeOK, HoldsJob
  <1>3. HoldsJob'
    BY <1>1, <1>2 DEF HoldsJob, TypeOK
  <1>4. LockHeld'
    BY <1>1, <1>2, Nobody DEF LockHeld, TypeOK
  <1>5. OneRunPerJob'
    BY DEF OneRunPerJob
  <1>6. OwnJobs'
    BY <1>2 DEF OwnJobs, TypeOK, ActiveStatuses, TerminalStatuses
  <1>7. StatusFollows'
    <2>1. cur[w] \notin queue /\ \A v \in Workers : v # w => cur[v] # cur[w]
      BY <1>2, Nobody DEF OneRunPerJob
    <2>2. \A j \in Jobs : j # cur[w] => status'[j] = status[j]
      BY DEF TypeOK
    <2>3. status'[cur[w]] = s
      BY <1>2 DEF TypeOK
    <2>4. \A j \in queue' : j \notin cancelReq' => status'[j] = "queued"
      BY <2>1, <2>2 DEF StatusFollows, TypeOK
    <2>5. ASSUME NEW v \in Workers, pc'[v] \in RunPhases, cur'[v] \notin cancelReq'
          PROVE  status'[cur'[v]] \in {"running", "paused_for_queries"}
      <3>1. CASE v = w
        BY <3>1, <2>3, <2>5, <1>2
      <3>2. CASE v # w
        <4>1. cur[v] # NoJob
          BY <3>2, <1>1, <2>5 DEF HoldsJob, RunPhases
        <4>2. status'[cur[v]] = status[cur[v]]
          BY <3>2, <4>1, <2>1, <2>2 DEF TypeOK
        <4> QED
          BY <3>2, <4>2, <1>1, <2>5 DEF StatusFollows
      <3> QED
        BY <3>1, <3>2
    <2> QED
      BY <2>4, <2>5 DEF StatusFollows
  <1>8. StopsCancelled'
    BY DEF StopsCancelled
  <1> QED
    BY <1>3, <1>4, <1>5, <1>6, <1>7, <1>8 DEF Linked

\* Every step of a worker keeps them together.
LEMMA WorkerLinked ==
    ASSUME Inv, NEW w \in Workers, WorkerStep(w)
    PROVE  Linked'
  <1> USE DEF memory, durable, threads, server, At
  <1>0. /\ pc[w] \in PCs
        /\ pc[w] \in UploadPhases => cur[w] \in Uploads
        /\ pc[w] \in LockedPhases => indexLock = w
        /\ pc[w] \notin {"idle", "top"} => cur[w] \in Jobs
    BY DEF Inv, TypeOK, HoldsJob, LockHeld
  <1>a. ASSUME NEW h \in Handlers \ {"mark_failed"}, pc[w] \in RunPhases,
               Raise(w, h), up, status' = status
        PROVE  Linked'
    <2>1. Moves(w, h) /\ h \in PCs
      BY <1>a, <1>0 DEF Raise, Moves, RunPhases, UploadPhases, LockedPhases, PCs, Handlers
    <2> QED
      BY <1>a, <2>1, MoveLinked
  <1>b. ASSUME NEW here \in RunPhases, NEW s, NEW n \in RunPhases,
               MarkPhase(w, here, s, n),
               n \in UploadPhases => here \in UploadPhases,
               n \notin LockedPhases,
               indexLock' = indexLock \/ here \in LockedPhases
        PROVE  Linked'
    <2>1. Moves(w, n) /\ n \in PCs
      BY <1>b, <1>0 DEF MarkPhase, Moves, RunPhases
    <2> QED
      BY <1>b, <2>1, MoveLinked DEF MarkPhase
  <1>c. ASSUME Goto(w, "top"), up, cur' = [cur EXCEPT ![w] = NoJob],
               UNCHANGED <<queue, status, cancelReq, indexLock, stopping, up>>
        PROVE  Linked'
    <2>1. /\ cur'[w] = NoJob /\ pc'[w] = "top"
          /\ \A v \in Workers : v # w => cur'[v] = cur[v] /\ pc'[v] = pc[v]
      BY <1>c DEF Goto, Inv, TypeOK
    <2>2. HoldsJob' /\ LockHeld' /\ StopsCancelled'
      BY <1>c, <2>1 DEF Inv, HoldsJob, LockHeld, StopsCancelled, UploadPhases, LockedPhases
    <2>3. OneRunPerJob' /\ OwnJobs'
      BY <1>c, <2>1, Nobody DEF Inv, OneRunPerJob, OwnJobs, TypeOK
    <2>4. StatusFollows'
      BY <1>c, <2>1 DEF Inv, StatusFollows, RunPhases
    <2> QED
      BY <2>2, <2>3, <2>4 DEF Linked
  <1>1. CASE Leave(w)
    BY <1>1 DEF Leave, Goto, Inv, Linked, TypeOK, HoldsJob, LockHeld, OneRunPerJob, OwnJobs,
                StatusFollows, StopsCancelled, RunPhases, PCs, UploadPhases, LockedPhases,
                Handlers
  <1>2. CASE Pop(w)
    <2>1. PICK j \in known :
             /\ First(j)
             /\ queue' = queue \ {j} /\ cur' = [cur EXCEPT ![w] = j]
             /\ \/ j \in cancelReq /\ Goto(w, "interrupt_late")
                                   /\ status' = [status EXCEPT ![j] = "cancelled"]
                \/ j \notin cancelReq /\ Goto(w, "dispatch")
                                      /\ status' = [status EXCEPT ![j] = "running"]
      BY <1>2 DEF Pop
    <2>2. j \in Jobs /\ j \in queue /\ j # NoJob /\ pc[w] = "top" /\ up
      BY <1>2, <2>1, Nobody DEF Pop, First, Inv, TypeOK
    <2>3. /\ UNCHANGED <<known, cancelReq, indexLock, stopping, up>>
          /\ cur' \in [Workers -> Jobs \cup {NoJob}] /\ cur'[w] = j
          /\ \A v \in Workers : v # w => cur'[v] = cur[v] /\ pc'[v] = pc[v]
          /\ pc'[w] \in {"interrupt_late", "dispatch"}
          /\ \A k \in Jobs : k # j => status'[k] = status[k]
          /\ status'[j] \in {"cancelled", "running"}
          /\ j \notin cancelReq => status'[j] = "running"
      BY <1>2, <2>1, <2>2 DEF Pop, Goto, Inv, TypeOK
    <2>4. \A v \in Workers : v # w => cur[v] # j
      BY <2>2 DEF Inv, OneRunPerJob
    <2>5. HoldsJob'
      BY <2>2, <2>3 DEF Inv, HoldsJob, UploadPhases
    <2>6. LockHeld'
      BY <2>3 DEF Inv, LockHeld, LockedPhases
    <2>7. OneRunPerJob'
      BY <2>1, <2>2, <2>3, <2>4 DEF Inv, OneRunPerJob
    <2>8. OwnJobs'
      BY <2>1, <2>2, <2>3 DEF Inv, OwnJobs, TypeOK
    <2>9. StatusFollows'
      <3>1. \A k \in queue' : k \notin cancelReq' => status'[k] = "queued"
        BY <2>1, <2>3 DEF Inv, StatusFollows, TypeOK
      <3>2. ASSUME NEW v \in Workers, pc'[v] \in RunPhases, cur'[v] \notin cancelReq'
            PROVE  status'[cur'[v]] \in {"running", "paused_for_queries"}
        <4>1. CASE v = w
          BY <4>1, <3>2, <2>3
        <4>2. CASE v # w
          BY <4>2, <3>2, <2>3, <2>4 DEF Inv, StatusFollows, HoldsJob, RunPhases, TypeOK
        <4> QED
          BY <4>1, <4>2
      <3> QED
        BY <3>1, <3>2 DEF StatusFollows
    <2>10. StopsCancelled'
      BY <2>3 DEF Inv, StopsCancelled
    <2> QED
      BY <2>5, <2>6, <2>7, <2>8, <2>9, <2>10 DEF Linked
  <1>3. CASE PopUnknown(w)
    BY <1>3 DEF PopUnknown, Goto, Inv, Linked, TypeOK, HoldsJob, LockHeld, OneRunPerJob, OwnJobs,
                StatusFollows, StopsCancelled, RunPhases, PCs, UploadPhases, LockedPhases,
                Handlers
  <1>4. CASE NoticeCancel(w)
    BY <1>4, <1>a DEF NoticeCancel, CheckPoints, RunPhases, PCs, Handlers, LockedPhases
  <1>5. CASE Fail(w)
    BY <1>5, <1>a DEF Fail, FailPoints, RunPhases, PCs, Handlers, LockedPhases
  <1>6. CASE Dispatch(w)
    <2>1. \E n \in PCs : Moves(w, n)
      BY <1>6, <1>0 DEF Dispatch, Moves, RunPhases, PCs, Handlers, LockedPhases, UploadPhases, Jobs
    <2> QED
      BY <1>6, <2>1, MoveLinked DEF Dispatch
  <1>7. CASE GatePass(w)
    <2>1. Moves(w, AfterGate(pc[w])) /\ AfterGate(pc[w]) \in PCs
      BY <1>7, <1>0 DEF GatePass, Gates, AfterGate, Moves, RunPhases, PCs, Handlers,
                        LockedPhases, UploadPhases
    <2> QED
      BY <1>7, <2>1, MoveStatusLinked DEF GatePass, ActiveStatuses
  <1>8. CASE GatePause(w)
    <2>1. Moves(w, pc[w])
      BY <1>8, <1>0 DEF GatePause, Gates, Goto, Moves, RunPhases, PCs, Handlers, LockedPhases,
                        UploadPhases, Inv, TypeOK
    <2> QED
      BY <1>8, <1>0, <2>1, MoveStatusLinked DEF GatePause, ActiveStatuses
  <1>9. CASE GateTimeout(w)
    BY <1>9, <1>a DEF GateTimeout, Gates, RunPhases, PCs, Handlers, LockedPhases
  <1>10. CASE SaveFiles(w)
    <2>1. Moves(w, "mark_saved") /\ "mark_saved" \in PCs
      BY <1>10, <1>0 DEF SaveFiles, Moves, RunPhases, PCs, Handlers, LockedPhases, UploadPhases
    <2> QED
      BY <1>10, <2>1, MoveLinked DEF SaveFiles
  <1>11. CASE MarkSaved(w)
    BY <1>11, <1>b DEF MarkSaved, UploadPhases, RunPhases, PCs, Handlers, LockedPhases
  <1>12. CASE MarkIngesting(w)
    BY <1>12, <1>b DEF MarkIngesting, UploadPhases, RunPhases, PCs, Handlers, LockedPhases
  <1>13. CASE AcquireIndexLock(w)
    <2>1. \E n \in PCs : Moves(w, n)
      BY <1>13, <1>0 DEF AcquireIndexLock, Moves, RunPhases, PCs, Handlers, LockedPhases,
                         UploadPhases
    <2> QED
      BY <1>13, <2>1, MoveLinked DEF AcquireIndexLock
  <1>14. CASE ForcedClean(w)
    <2>1. Moves(w, "ingest") /\ "ingest" \in PCs
      BY <1>14, <1>0 DEF ForcedClean, Moves, RunPhases, PCs, Handlers, LockedPhases, UploadPhases
    <2> QED
      BY <1>14, <2>1, MoveLinked DEF ForcedClean
  <1>15. CASE Ingest(w)
    <2>1. Moves(w, "mark_ingested") /\ "mark_ingested" \in PCs
      BY <1>15, <1>0 DEF Ingest, Moves, RunPhases, PCs, Handlers, LockedPhases, UploadPhases
    <2> QED
      BY <1>15, <2>1, MoveLinked DEF Ingest
  <1>16. CASE MarkIngested(w)
    BY <1>16, <1>b DEF MarkIngested, UploadPhases, RunPhases, PCs, Handlers, LockedPhases
  <1>17. CASE Work(w)
    <2>1. \E n \in PCs : Moves(w, n)
      <3>1. /\ pc[w] = "work" /\ up /\ cur[w] \in Jobs /\ indexLock = w
            /\ UNCHANGED <<known, queue, cancelReq, cur, up, stopping>>
        BY <1>17, <1>0 DEF Work, LockedPhases
      <3>2. CASE cur[w] \in Uploads
        <4>1. Goto(w, "mark_indexed") /\ indexLock' = w
          BY <1>17, <3>1, <3>2, JobKinds DEF Work, Tracked
        <4> QED
          BY <3>1, <3>2, <4>1 DEF Moves, RunPhases, PCs, Handlers, LockedPhases, UploadPhases
      <3>3. CASE cur[w] \in Builds
        <4>1. Goto(w, "publish_gate") /\ indexLock' = w
          BY <1>17, <3>1, <3>3, JobKinds DEF Work, Tracked
        <4> QED
          BY <3>1, <3>3, <4>1 DEF Moves, RunPhases, PCs, Handlers, LockedPhases, UploadPhases
      <3>4. CASE cur[w] \in Direct
        <4>1. Goto(w, "finish") /\ indexLock' = NoWorker
          BY <1>17, <3>1, <3>4, JobKinds DEF Work, Tracked
        <4> QED
          BY <3>1, <3>4, <4>1 DEF Moves, RunPhases, PCs, Handlers, LockedPhases, UploadPhases
      <3> QED
        BY <3>1, <3>2, <3>3, <3>4 DEF Jobs, Tracked
    <2> QED
      BY <1>17, <2>1, MoveLinked DEF Work
  <1>18. CASE Publish(w)
    <2>1. Moves(w, "finish") /\ "finish" \in PCs
      BY <1>18, <1>0 DEF Publish, Moves, RunPhases, PCs, Handlers, LockedPhases, UploadPhases
    <2> QED
      BY <1>18, <2>1, MoveLinked DEF Publish
  <1>19. CASE MarkIndexed(w)
    BY <1>19, <1>b DEF MarkIndexed, UploadPhases, RunPhases, PCs, Handlers, LockedPhases
  <1>20. CASE Raised(w)
    <2>1. \E n \in PCs : Moves(w, n)
      BY <1>20, <1>0 DEF Raised, Moves, RunPhases, PCs, Handlers, LockedPhases, UploadPhases
    <2> QED
      BY <1>20, <2>1, MoveLinked DEF Raised
  <1>21. CASE BookInterrupted(w)
    <2>1. Moves(w, AfterInterrupt(pc[w])) /\ AfterInterrupt(pc[w]) \in PCs
      BY <1>21, <1>0 DEF BookInterrupted, AfterInterrupt, Moves, RunPhases, PCs, Handlers,
                         LockedPhases, UploadPhases
    <2> QED
      BY <1>21, <2>1, MoveLinked DEF BookInterrupted
  <1>22. CASE SetCancelled(w)
    <2>1. \E n \in PCs \ RunPhases : Moves(w, n)
      BY <1>22, <1>0 DEF SetCancelled, Moves, RunPhases, PCs, Handlers, LockedPhases,
                         UploadPhases
    <2> QED
      BY <1>22, <2>1, MoveStatusLinked DEF SetCancelled, TerminalStatuses
  <1>23. CASE MarkFailed(w)
    <2>1. Moves(w, "set_failed") /\ "set_failed" \in PCs
      BY <1>23, <1>0 DEF MarkFailed, Moves, RunPhases, PCs, Handlers, LockedPhases, UploadPhases
    <2> QED
      BY <1>23, <2>1, MoveLinked DEF MarkFailed
  <1>24. CASE SetFailed(w)
    <2>1. Moves(w, "unledger") /\ "unledger" \in PCs \ RunPhases
      BY <1>24, <1>0 DEF SetFailed, Moves, RunPhases, PCs, Handlers, LockedPhases, UploadPhases
    <2> QED
      BY <1>24, <2>1, MoveStatusLinked DEF SetFailed, TerminalStatuses
  <1>25. CASE Finish(w)
    <2>1. \E n \in PCs \ RunPhases : Moves(w, n)
      BY <1>25, <1>0 DEF Finish, Moves, RunPhases, PCs, Handlers, LockedPhases, UploadPhases
    <2> QED
      BY <1>25, <2>1, MoveStatusLinked DEF Finish, TerminalStatuses
  <1>26. CASE Unledger(w)
    <2>1. CASE pc[w] = "unledger"
      <3>1. Moves(w, "prune") /\ "prune" \in PCs
        BY <1>26, <2>1, <1>0 DEF Unledger, Moves, RunPhases, PCs, Handlers, LockedPhases,
                                 UploadPhases
      <3> QED
        BY <1>26, <3>1, MoveLinked DEF Unledger
    <2>2. CASE pc[w] # "unledger"
      BY <1>26, <2>2, <1>c DEF Unledger
    <2> QED
      BY <2>1, <2>2
  <1>27. CASE PruneJobs(w)
    BY <1>27, <1>c DEF PruneJobs, Pruned
  <1> QED
    BY <1>1, <1>2, <1>3, <1>4, <1>5, <1>6, <1>7, <1>8, <1>9, <1>10, <1>11, <1>12,
       <1>13, <1>14, <1>15, <1>16, <1>17, <1>18, <1>19, <1>20, <1>21, <1>22, <1>23,
       <1>24, <1>25, <1>26, <1>27 DEF WorkerStep

\* Requests and late bookkeeping keep them together.
LEMMA RequestLinked ==
    ASSUME Inv, Request \/ \E j \in Jobs : Settle(j)
    PROVE  Linked'
  <1> USE DEF memory, durable, threads, server
  <1>a. ASSUME UNCHANGED <<known, queue, status, cancelReq, threads, up, stopping>>
        PROVE  Linked'
    BY <1>a DEF Inv, Linked, HoldsJob, LockHeld, OneRunPerJob, OwnJobs, StatusFollows,
                StopsCancelled
  <1>1. ASSUME NEW u \in Uploads, RegisterUpload(u) PROVE Linked'
    BY <1>1, <1>a DEF RegisterUpload
  <1>2. ASSUME NEW j \in Jobs, Enqueue(j) PROVE Linked'
    <2>1. /\ up /\ status[j] = "fresh"
          /\ queue' = queue \cup {j}
          /\ UNCHANGED <<cancelReq, cur, indexLock, up, stopping>>
          /\ \A k \in Jobs : k # j => status'[k] = status[k]
          /\ status'[j] = "queued"
      BY <1>2 DEF Enqueue, Inv, TypeOK
    <2>2. \A w \in Workers : pc'[w] = IF pc[w] = "idle" THEN "top" ELSE pc[w]
      BY <1>2 DEF Enqueue, Spawned
    <2>3. \A w \in Workers : cur[w] # j
      BY <2>1, Nobody DEF Inv, OwnJobs
    <2>4. HoldsJob' /\ LockHeld' /\ StopsCancelled'
      BY <2>1, <2>2 DEF Inv, HoldsJob, LockHeld, StopsCancelled, UploadPhases, LockedPhases
    <2>5. OneRunPerJob'
      BY <2>1, <2>3 DEF Inv, OneRunPerJob
    <2>6. OwnJobs'
      BY <2>1, <2>3 DEF Inv, OwnJobs, TypeOK
    <2>7. StatusFollows'
      <3>1. \A k \in queue' : k \notin cancelReq' => status'[k] = "queued"
        BY <2>1 DEF Inv, StatusFollows, TypeOK
      <3>2. ASSUME NEW v \in Workers, pc'[v] \in RunPhases, cur'[v] \notin cancelReq'
            PROVE  status'[cur'[v]] \in {"running", "paused_for_queries"}
        <4>1. pc[v] \in RunPhases /\ cur[v] \in Jobs
          BY <3>2, <2>2 DEF RunPhases, Inv, HoldsJob, TypeOK
        <4> QED
          BY <4>1, <3>2, <2>1, <2>3 DEF Inv, StatusFollows
      <3> QED
        BY <3>1, <3>2 DEF StatusFollows
    <2> QED
      BY <2>4, <2>5, <2>6, <2>7 DEF Linked
  <1>3. ASSUME NEW j \in Jobs, CancelJob(j) PROVE Linked'
    <2>1. /\ up /\ status[j] \in ActiveStatuses
          /\ queue' \subseteq queue /\ cancelReq' = cancelReq \cup {j}
          /\ UNCHANGED <<known, pc, cur, indexLock, up, stopping>>
          /\ \A k \in Jobs : k # j => status'[k] = status[k]
          /\ status'[j] \in {status[j], "cancelled"}
      BY <1>3 DEF CancelJob, Active, Inv, TypeOK
    <2>2. HoldsJob' /\ LockHeld' /\ StopsCancelled' /\ OneRunPerJob'
      BY <2>1 DEF Inv, HoldsJob, LockHeld, StopsCancelled, OneRunPerJob
    <2>3. OwnJobs'
      BY <2>1 DEF Inv, OwnJobs, TypeOK
    <2>4. StatusFollows'
      BY <2>1 DEF Inv, StatusFollows, TypeOK, HoldsJob, RunPhases
    <2> QED
      BY <2>2, <2>3, <2>4 DEF Linked
  <1>4. CASE BeginQuery
    BY <1>4, <1>a DEF BeginQuery
  <1>5. CASE FinishQuery
    BY <1>5, <1>a DEF FinishQuery
  <1>6. ASSUME NEW j \in Jobs, Settle(j) PROVE Linked'
    BY <1>6, <1>a DEF Settle
  <1> QED
    BY <1>1, <1>2, <1>3, <1>4, <1>5, <1>6 DEF Request

\* Shutdown, crash and restart keep them together.
LEMMA ServerLinked ==
    ASSUME Inv, Shutdown \/ Crash \/ Restart
    PROVE  Linked'
  <1> USE DEF memory, durable, threads, server
  <1>1. CASE ShutdownRequest
    BY <1>1 DEF ShutdownRequest, Inv, Linked, HoldsJob, LockHeld, OneRunPerJob, OwnJobs,
                StatusFollows, StopsCancelled
  <1>2. CASE ShutdownForce
    <2>1. /\ up
          /\ UNCHANGED <<known, queue, cancelReq, pc, cur, indexLock, up, stopping>>
          /\ \A j \in Jobs : \/ status'[j] = status[j]
                             \/ j \in cancelReq /\ status'[j] = "cancelled"
      BY <1>2 DEF ShutdownForce, Inv, StopsCancelled
    <2>2. HoldsJob' /\ LockHeld' /\ StopsCancelled' /\ OneRunPerJob'
      BY <2>1 DEF Inv, HoldsJob, LockHeld, StopsCancelled, OneRunPerJob
    <2>3. OwnJobs'
      BY <2>1 DEF Inv, OwnJobs, TypeOK
    <2>4. StatusFollows'
      BY <2>1 DEF Inv, StatusFollows, TypeOK, HoldsJob, RunPhases
    <2> QED
      BY <2>2, <2>3, <2>4 DEF Linked
  <1>3. ASSUME NEW j \in Jobs, ShutdownBookkeep(j) PROVE Linked'
    BY <1>3 DEF ShutdownBookkeep, Inv, Linked, HoldsJob, LockHeld, OneRunPerJob, OwnJobs,
                StatusFollows, StopsCancelled
  <1>4. CASE ShutdownFinished
    BY <1>4 DEF ShutdownFinished, Inv, Linked, HoldsJob, LockHeld, OneRunPerJob, OwnJobs,
                StatusFollows, StopsCancelled
  <1>5. CASE StopAccepting
    BY <1>5 DEF StopAccepting, Inv, Linked, HoldsJob, LockHeld, OneRunPerJob, OwnJobs,
                StatusFollows, StopsCancelled
  <1>6. ASSUME Down PROVE Linked'
    BY <1>6 DEF Down, Inv, Linked, HoldsJob, LockHeld, OneRunPerJob, OwnJobs,
                StatusFollows, StopsCancelled, RunPhases, LockedPhases, UploadPhases
  <1>7. CASE Restart
    <2>1. /\ ~up /\ up'
          /\ queue' = known'
          /\ \A j \in Jobs : j \in known' => status'[j] = "queued"
          /\ UNCHANGED <<cancelReq, cur, indexLock, stopping>>
          /\ \A w \in Workers : pc'[w] \in {"idle", "top"}
      BY <1>7 DEF Restart
    <2>2. queue' \subseteq Jobs
      BY <1>7, ServerType, <2>1 DEF Inv, TypeOK
    <2>3. \A w \in Workers : cur[w] = NoJob
      BY <2>1 DEF Inv, OwnJobs
    <2> QED
      BY <2>1, <2>2, <2>3, Nobody DEF Inv, Linked, HoldsJob, LockHeld, OneRunPerJob, OwnJobs,
                StatusFollows, StopsCancelled, RunPhases, LockedPhases, UploadPhases
  <1> QED
    BY <1>1, <1>2, <1>3, <1>4, <1>5, <1>6, <1>7 DEF Shutdown, Exit, Crash

-----------------------------------------------------------------------------
(* The theorems.                                                           *)

\* The invariant holds initially and every step keeps it.
LEMMA InitInv == Init => Inv
  BY InitType, Nobody DEF Init, Inv, HoldsJob, LockHeld, OneRunPerJob, OwnJobs,
     StatusFollows, StopsCancelled, RunPhases, LockedPhases, UploadPhases

LEMMA NextInv == Inv /\ [Next]_vars => Inv'
  <1> SUFFICES ASSUME Inv, [Next]_vars PROVE Inv'
    OBVIOUS
  <1>1. CASE Request \/ \E j \in Jobs : Settle(j)
    BY <1>1, RequestType, RequestLinked DEF Inv, Linked
  <1>2. ASSUME NEW w \in Workers, WorkerStep(w) PROVE Inv'
    BY <1>2, WorkerType, WorkerLinked DEF Inv, Linked
  <1>3. CASE Shutdown \/ Crash \/ Restart
    BY <1>3, ServerType, ServerLinked DEF Inv, Linked
  <1>4. CASE UNCHANGED vars
    BY <1>4 DEF vars, memory, durable, threads, server, Inv, TypeOK, HoldsJob, LockHeld,
                OneRunPerJob, OwnJobs, StatusFollows, StopsCancelled
  <1> QED
    BY <1>1, <1>2, <1>3, <1>4 DEF Next

THEOREM Invariance == Spec => []Inv
  BY InitInv, NextInv, PTL DEF Spec

\* Every variable keeps its type, however many jobs, workers, crashes and
\* shutdowns there are.
THEOREM TypeCorrect == Spec => []TypeOK
  <1>1. Inv => TypeOK
    BY DEF Inv
  <1> QED
    BY <1>1, Invariance, PTL

\* _index_write_lock: no two workers are ever in an index-mutating phase.
THEOREM IndexExclusion == Spec => []OneIndexWriter
  <1>1. Inv => OneIndexWriter
    BY DEF Inv, LockHeld, OneIndexWriter
  <1> QED
    BY <1>1, Invariance, PTL

\* No job is worked on twice at once, or worked on while it is queued.
THEOREM SingleRun == Spec => []OneRunPerJob
  <1>1. Inv => OneRunPerJob
    BY DEF Inv
  <1> QED
    BY <1>1, Invariance, PTL

\* A job that has ended stays ended while the server runs.
LEMMA EndedStays ==
    ASSUME Inv, [Next]_vars, ~Down, NEW j \in Jobs, Terminal(j)
    PROVE  Terminal(j)'
  <1> USE DEF memory, durable, threads, server
  <1>0. TypeOK
    BY DEF Inv
  <1>a. ASSUME \A k \in Jobs : status'[k] \in {status[k]} \cup TerminalStatuses
        PROVE  Terminal(j)'
    BY <1>a DEF Terminal
  <1>b. ASSUME NEW k \in Jobs, ~Terminal(k), NEW s, status' = [status EXCEPT ![k] = s]
        PROVE  Terminal(j)'
    BY <1>b, <1>0 DEF TypeOK, Terminal
  <1>1. CASE Request \/ \E k \in Jobs : Settle(k)
    <2>1. ASSUME NEW k \in Jobs, Enqueue(k) PROVE Terminal(j)'
      BY <2>1, <1>b DEF Enqueue, Terminal, TerminalStatuses
    <2>2. ASSUME NEW k \in Jobs, CancelJob(k) PROVE Terminal(j)'
      BY <2>2, <1>a, <1>0 DEF CancelJob, TypeOK, TerminalStatuses
    <2>3. CASE UNCHANGED status
      BY <2>3, <1>a
    <2> QED
      BY <1>1, <2>1, <2>2, <2>3 DEF Request, RegisterUpload, BeginQuery, FinishQuery, Settle
  <1>2. ASSUME NEW w \in Workers, WorkerStep(w) PROVE Terminal(j)'
    <2>1. CASE Pop(w)
      <3>1. PICK k \in known :
               /\ First(k)
               /\ \/ k \in cancelReq /\ status' = [status EXCEPT ![k] = "cancelled"]
                  \/ k \notin cancelReq /\ status' = [status EXCEPT ![k] = "running"]
        BY <2>1 DEF Pop
      <3>2. CASE k \in cancelReq
        BY <3>1, <3>2, <1>a, <1>0 DEF TypeOK, TerminalStatuses
      <3>3. CASE k \notin cancelReq
        <4>1. status[k] = "queued" /\ k \in Jobs
          BY <3>1, <3>3 DEF Inv, StatusFollows, First, TypeOK
        <4> QED
          BY <3>1, <3>3, <4>1, <1>b DEF Terminal, TerminalStatuses
      <3> QED
        BY <3>2, <3>3
    <2>2. CASE GatePass(w) \/ GatePause(w)
      <3>1. pc[w] \in RunPhases /\ cur[w] \in Jobs /\ cur[w] \notin cancelReq
        BY <2>2 DEF GatePass, GatePause, Gates, RunPhases, PCs, Handlers, LockedPhases,
                    Inv, HoldsJob, TypeOK
      <3>2. ~Terminal(cur[w])
        BY <3>1 DEF Inv, StatusFollows, Terminal, TerminalStatuses
      <3> QED
        BY <2>2, <3>1, <3>2, <1>b DEF GatePass, GatePause
    <2>3. CASE SetCancelled(w) \/ SetFailed(w) \/ Finish(w)
      BY <2>3, <1>a, <1>0 DEF SetCancelled, SetFailed, Finish, TypeOK, TerminalStatuses
    <2>4. CASE UNCHANGED status
      BY <2>4, <1>a
    <2> QED
      BY <1>2, <2>1, <2>2, <2>3, <2>4
         DEF WorkerStep, Leave, PopUnknown, NoticeCancel, Fail, Dispatch, GateTimeout,
             SaveFiles, MarkSaved, MarkIngesting, MarkPhase, AcquireIndexLock, ForcedClean,
             Ingest, MarkIngested, Work, Publish, MarkIndexed, Raised, BookInterrupted,
             MarkFailed, Unledger, PruneJobs
  <1>3. CASE Shutdown \/ Crash \/ Restart
    <2>1. CASE ShutdownForce
      BY <2>1, <1>a, <1>0 DEF ShutdownForce, TypeOK, TerminalStatuses
    <2>2. CASE Restart
      BY <2>2 DEF Restart, Inv, OwnJobs, Terminal, TerminalStatuses
    <2>3. CASE UNCHANGED status
      BY <2>3, <1>a
    <2> QED
      BY <1>3, <2>1, <2>2, <2>3
         DEF Shutdown, ShutdownRequest, ShutdownBookkeep, ShutdownFinished, StopAccepting,
             Exit, Crash
  <1>4. CASE UNCHANGED vars
    BY <1>4, <1>a DEF vars
  <1> QED
    BY <1>1, <1>2, <1>3, <1>4 DEF Next

\* A job that has ended stays ended while the server runs, even when it was
\* force-cancelled in the middle of a phase of its worker.
THEOREM NoRevival == Spec => NeverRevived
  <1>1. ASSUME Inv, [Next]_vars, NEW j \in Jobs, Terminal(j)
        PROVE  status'[j] \notin ActiveStatuses
    <2>1. CASE Down
      BY <1>1, <2>1 DEF Down, ActiveStatuses
    <2>2. CASE ~Down
      BY <1>1, <2>2, EndedStays DEF Terminal, TerminalStatuses, ActiveStatuses
    <2> QED
      BY <2>1, <2>2
  <1>2. Inv /\ [Next]_vars => [\A j \in Jobs : Terminal(j) => status'[j] \notin ActiveStatuses]_vars
    BY <1>1
  <1> QED
    BY <1>2, Invariance, PTL DEF Spec, NeverRevived

-----------------------------------------------------------------------------
(* Coalescing.                                                             *)

\* The jobs that _find_active_duplicate_locked would join.
Joinable(j) == j \in known /\ j \in Tracked /\ Active(j) /\ j \notin cancelReq

\* No step but Enqueue and Restart makes a job joinable, so none of them can
\* bring a second equivalent one about.
LEMMA StillCoalesced ==
    ASSUME Coalesced, \A j \in Jobs : Joinable(j)' => Joinable(j)
    PROVE  Coalesced'
  BY DEF Coalesced, Joinable, Active, Jobs

\* Every step keeps equivalent jobs coalesced.
LEMMA NextCoalesced ==
    ASSUME Inv, Coalesced, [Next]_vars
    PROVE  Coalesced'
  <1> USE DEF memory, durable, threads, server
  <1>0. TypeOK
    BY DEF Inv
  <1>a. ASSUME known' \subseteq known, cancelReq \subseteq cancelReq',
               \A j \in Jobs : status'[j] \in {status[j], "fresh", "gone"} \cup TerminalStatuses
        PROVE  Coalesced'
    BY <1>a, <1>0, StillCoalesced DEF Joinable, Active, ActiveStatuses, TerminalStatuses
  <1>b. ASSUME UNCHANGED <<known, cancelReq>>, NEW k \in Jobs, NEW s,
               k \notin cancelReq => status[k] \in ActiveStatuses,
               status' = [status EXCEPT ![k] = s]
        PROVE  Coalesced'
    BY <1>b, <1>0, StillCoalesced DEF Joinable, Active, TypeOK
  <1>1. CASE Request \/ \E j \in Jobs : Settle(j)
    <2>1. ASSUME NEW j \in Jobs, Enqueue(j) PROVE Coalesced'
      <3>1. /\ known' \subseteq known \cup {j}
            /\ UNCHANGED cancelReq
            /\ \A k \in Jobs : k # j => status'[k] = status[k]
            /\ Duplicates(j) = {}
        BY <2>1, <1>0 DEF Enqueue, Pruned, TypeOK
      <3>2. \A k \in Jobs : Joinable(k)' /\ k # j => Joinable(k)
        BY <3>1 DEF Joinable, Active
      <3>3. \A k \in Jobs : j \in Tracked /\ Joinable(k) => Identity[k] # Identity[j]
        BY <3>1 DEF Joinable, Duplicates, Active, Terminal, ActiveStatuses, TerminalStatuses
      <3> QED
        BY <3>2, <3>3 DEF Coalesced, Joinable, Active, Jobs
    <2>2. ASSUME NEW j \in Jobs, CancelJob(j) PROVE Coalesced'
      BY <2>2, <1>a, <1>0 DEF CancelJob, TypeOK, TerminalStatuses
    <2>3. CASE UNCHANGED <<known, status, cancelReq>>
      BY <2>3, <1>a
    <2> QED
      BY <1>1, <2>1, <2>2, <2>3 DEF Request, RegisterUpload, BeginQuery, FinishQuery, Settle
  <1>2. ASSUME NEW w \in Workers, WorkerStep(w) PROVE Coalesced'
    <2>1. CASE Pop(w)
      <3>1. PICK j \in known :
               /\ First(j)
               /\ \/ status' = [status EXCEPT ![j] = "cancelled"]
                  \/ status' = [status EXCEPT ![j] = "running"]
        BY <2>1 DEF Pop
      <3>2. j \in Jobs /\ (j \notin cancelReq => status[j] \in ActiveStatuses)
        BY <3>1 DEF Inv, StatusFollows, First, TypeOK, ActiveStatuses
      <3> QED
        BY <2>1, <3>1, <3>2, <1>b DEF Pop
    <2>2. CASE GatePass(w) \/ GatePause(w)
      <3>1. /\ cur[w] \in Jobs
            /\ cur[w] \notin cancelReq => status[cur[w]] \in ActiveStatuses
        BY <2>2 DEF GatePass, GatePause, Gates, RunPhases, PCs, Handlers, LockedPhases, Inv,
                    HoldsJob, TypeOK, StatusFollows, ActiveStatuses
      <3> QED
        BY <2>2, <3>1, <1>b DEF GatePass, GatePause
    <2>3. CASE SetCancelled(w) \/ SetFailed(w) \/ Finish(w)
      BY <2>3, <1>a, <1>0 DEF SetCancelled, SetFailed, Finish, TypeOK, TerminalStatuses
    <2>4. CASE PruneJobs(w)
      BY <2>4, <1>a DEF PruneJobs, Pruned
    <2>5. CASE UNCHANGED <<known, status, cancelReq>>
      BY <2>5, <1>a
    <2> QED
      BY <1>2, <2>1, <2>2, <2>3, <2>4, <2>5
         DEF WorkerStep, Leave, PopUnknown, NoticeCancel, Fail, Raise, Dispatch, GateTimeout,
             SaveFiles, MarkSaved, MarkIngesting, MarkPhase, AcquireIndexLock, ForcedClean,
             Ingest, MarkIngested, Work, Publish, MarkIndexed, Raised, BookInterrupted,
             MarkFailed, Unledger
  <1>3. CASE Shutdown \/ Crash \/ Restart
    <2>1. CASE ShutdownRequest
      BY <2>1, <1>a DEF ShutdownRequest
    <2>2. CASE ShutdownForce
      BY <2>2, <1>a DEF ShutdownForce, TerminalStatuses
    <2>3. CASE Down
      BY <2>3 DEF Down, Coalesced
    <2>4. CASE Restart
      <3>1. PICK kept \in SUBSET ledger :
               /\ \A j, k \in kept : Identity[k] = Identity[j] => j = k
               /\ known' = kept \cup {u \in Uploads : Recoverable(u)}
        BY <2>4 DEF Restart
      <3> QED
        BY <3>1, JobKinds DEF Coalesced
    <2>5. CASE UNCHANGED <<known, status, cancelReq>>
      BY <2>5, <1>a
    <2> QED
      BY <1>3, <2>1, <2>2, <2>3, <2>4, <2>5
         DEF Shutdown, ShutdownBookkeep, ShutdownFinished, StopAccepting, Exit, Crash
  <1>4. CASE UNCHANGED vars
    BY <1>4 DEF vars, Coalesced, Active
  <1> QED
    BY <1>1, <1>2, <1>3, <1>4 DEF Next

\* At most one maintenance job per identity is under way, cancelled ones
\* aside, across cancellations, prunings, crashes and recoveries.
THEOREM Coalescing == Spec => []Coalesced
  <1>1. Init => Coalesced
    BY DEF Init, Coalesced
  <1>2. Inv /\ Coalesced /\ [Next]_vars => Coalesced'
    BY NextCoalesced
  <1> QED
    BY <1>1, <1>2, Invariance, PTL DEF Spec

-----------------------------------------------------------------------------
(* Cancellation.                                                           *)

\* Only Finish makes a job done, after a look at the flag, and no request sets
\* the flag of a job that is done.
LEMMA NextCancelNeverDone ==
    ASSUME TypeOK, CancelNeverDone, [Next]_vars
    PROVE  CancelNeverDone'
  <1> USE DEF memory, durable, threads, server
  <1>a. ASSUME cancelReq' \subseteq cancelReq,
               \A j \in Jobs : status'[j] = "done" => status[j] = "done"
        PROVE  CancelNeverDone'
    BY <1>a DEF CancelNeverDone, TypeOK
  <1>1. CASE Request \/ \E j \in Jobs : Settle(j)
    <2>1. ASSUME NEW j \in Jobs, Enqueue(j) PROVE CancelNeverDone'
      BY <2>1, <1>a DEF Enqueue, TypeOK
    <2>2. ASSUME NEW j \in Jobs, CancelJob(j) PROVE CancelNeverDone'
      BY <2>2 DEF CancelJob, Active, ActiveStatuses, CancelNeverDone, TypeOK
    <2>3. CASE UNCHANGED <<status, cancelReq>>
      BY <2>3, <1>a
    <2> QED
      BY <1>1, <2>1, <2>2, <2>3 DEF Request, RegisterUpload, BeginQuery, FinishQuery, Settle
  <1>2. ASSUME NEW w \in Workers, WorkerStep(w) PROVE CancelNeverDone'
    <2>1. CASE Pop(w) \/ GatePass(w) \/ GatePause(w) \/ SetCancelled(w) \/ SetFailed(w)
      BY <2>1, <1>a DEF Pop, GatePass, GatePause, SetCancelled, SetFailed, TypeOK
    <2>2. CASE Finish(w)
      BY <2>2 DEF Finish, CancelNeverDone, TypeOK
    <2>3. CASE UNCHANGED <<status, cancelReq>>
      BY <2>3, <1>a
    <2> QED
      BY <1>2, <2>1, <2>2, <2>3
         DEF WorkerStep, Leave, PopUnknown, NoticeCancel, Fail, Raise, Dispatch, GateTimeout,
             SaveFiles, MarkSaved, MarkIngesting, MarkPhase, AcquireIndexLock, ForcedClean,
             Ingest, MarkIngested, Work, Publish, MarkIndexed, Raised, BookInterrupted,
             MarkFailed, Unledger, PruneJobs
  <1>3. CASE Shutdown \/ Crash \/ Restart
    <2>1. CASE ShutdownRequest
      BY <2>1 DEF ShutdownRequest, Terminal, TerminalStatuses, CancelNeverDone
    <2>2. CASE ShutdownForce
      BY <2>2, <1>a DEF ShutdownForce
    <2>3. CASE Down
      BY <2>3 DEF Down, CancelNeverDone
    <2>4. CASE Restart
      BY <2>4, <1>a DEF Restart
    <2>5. CASE UNCHANGED <<status, cancelReq>>
      BY <2>5, <1>a
    <2> QED
      BY <1>3, <2>1, <2>2, <2>3, <2>4, <2>5
         DEF Shutdown, ShutdownBookkeep, ShutdownFinished, StopAccepting, Exit, Crash
  <1>4. CASE UNCHANGED vars
    BY <1>4, <1>a DEF vars
  <1> QED
    BY <1>1, <1>2, <1>3, <1>4 DEF Next

\* No job whose cancellation was accepted or forced reports success, however
\* requests, workers and shutdowns interleave.
THEOREM CancelAnswered == Spec => []CancelNeverDone
  <1>1. Init => CancelNeverDone
    BY DEF Init, CancelNeverDone
  <1>2. Inv /\ CancelNeverDone /\ [Next]_vars => CancelNeverDone'
    BY NextCancelNeverDone DEF Inv
  <1> QED
    BY <1>1, <1>2, Invariance, PTL DEF Spec

-----------------------------------------------------------------------------
(* What survives a crash, and what a restart does not bring back.          *)

\* What the location of a thread says of its job: the handlers of a
\* cancellation hold one that was asked to stop, the end of the bookkeeping one
\* that has ended, and only builds are published.
Located ==
    \A w \in Workers :
        /\ pc[w] \in {"interrupt", "set_cancelled", "raised_interrupt", "raised_cancelled"}
              => cur[w] \in cancelReq
        /\ pc[w] \in {"interrupt_late", "unledger", "raised_unledger", "prune"}
              => Terminal(cur[w])
        /\ pc[w] \in {"publish_gate", "publish"} => cur[w] \in Builds

\* Bookkeeping outside a worker is owed for jobs that have ended only, or that
\* recovery did not take; a job of the records is never requested anew after a
\* crash.
OwedEnded ==
    /\ \A j \in owed : status[j] \in TerminalStatuses \cup {"gone"}
    /\ \A j \in forced : Terminal(j)
    /\ finalizer # "bookkeeping" => forced = {}
    /\ ~up => \A j \in Jobs : Recoverable(j) => status[j] = "gone"

\* What a step of worker w leaves alone: the other workers and the jobs they
\* hold, the flags, and the records of any job but its own.
Aside(w) ==
    /\ up /\ UNCHANGED <<cancelReq, server>>
    /\ \A v \in Workers \ {w} : pc'[v] = pc[v] /\ cur'[v] = cur[v]
    /\ known' \subseteq known /\ queue' \subseteq queue /\ ledger' \subseteq ledger
    /\ \A j \in Jobs \ {cur[w]} : /\ j \in Uploads => registry'[j] = registry[j]
                                  /\ j \in ledger => j \in ledger'
                                  /\ j \notin queue => status'[j] = status[j]
LEMMA WorkerAside ==
    ASSUME Inv, NEW w \in Workers, WorkerStep(w)
    PROVE  Aside(w)
  <1> USE DEF memory, durable, threads, server, At
  <1>0. TypeOK
    BY DEF Inv
  <1>a. ASSUME up, UNCHANGED <<memory, cancelReq, durable, cur, server>>, NEW n, Goto(w, n),
               \/ status' = status
               \/ \E s : status' = [status EXCEPT ![cur[w]] = s]
        PROVE  Aside(w)
    BY <1>a, <1>0 DEF Aside, Goto, TypeOK
  <1>b. ASSUME up, UNCHANGED <<memory, status, cancelReq, ledger, cur, server>>, NEW n, Goto(w, n),
               \/ registry' = registry
               \/ \E s : registry' = [registry EXCEPT ![cur[w]] = s]
        PROVE  Aside(w)
    BY <1>b, <1>0 DEF Aside, Goto, TypeOK
  <1>1. CASE Pop(w)
    BY <1>1, <1>0 DEF Pop, First, Aside, Goto, TypeOK
  <1>2. CASE PopUnknown(w)
    BY <1>2, <1>0 DEF PopUnknown, Aside, Goto, TypeOK
  <1>3. CASE Leave(w) \/ Dispatch(w) \/ AcquireIndexLock(w) \/ Work(w) \/ Publish(w) \/ Raised(w)
    BY <1>3, <1>a DEF Leave, Dispatch, AcquireIndexLock, Work, Publish, Raised
  <1>4. CASE NoticeCancel(w) \/ Fail(w) \/ GateTimeout(w)
    BY <1>4, <1>a DEF NoticeCancel, Fail, GateTimeout, Raise
  <1>5. CASE GatePass(w) \/ SetCancelled(w) \/ SetFailed(w) \/ Finish(w)
    BY <1>5, <1>a DEF GatePass, SetCancelled, SetFailed, Finish
  <1>6. CASE GatePause(w)
    BY <1>6, <1>0 DEF GatePause, Aside, TypeOK
  <1>7. CASE SaveFiles(w) \/ ForcedClean(w) \/ Ingest(w)
    BY <1>7, <1>b DEF SaveFiles, ForcedClean, Ingest
  <1>8. CASE MarkSaved(w) \/ MarkIngesting(w) \/ MarkIngested(w) \/ MarkIndexed(w)
    BY <1>8, <1>b DEF MarkSaved, MarkIngesting, MarkIngested, MarkIndexed, MarkPhase, Mark
  <1>9. CASE BookInterrupted(w)
    BY <1>9, <1>b DEF BookInterrupted, RecordInterrupted, BestEffortMark, Mark
  <1>10. CASE MarkFailed(w)
    BY <1>10, <1>b DEF MarkFailed, BestEffortMark, Mark
  <1>11. CASE Unledger(w)
    BY <1>11, <1>0 DEF Unledger, LedgerRemove, BestEffortRemove, Aside, Goto, TypeOK
  <1>12. CASE PruneJobs(w)
    BY <1>12, <1>0 DEF PruneJobs, Pruned, Aside, Goto, TypeOK
  <1> QED
    BY <1>1, <1>2, <1>3, <1>4, <1>5, <1>6, <1>7, <1>8, <1>9, <1>10, <1>11, <1>12 DEF WorkerStep

\* Every step keeps Located.
LEMMA NextLocated ==
    ASSUME Inv, Located, [Next]_vars
    PROVE  Located'
  <1> USE DEF memory, durable, threads, server, At
  <1>0. TypeOK /\ HoldsJob
    BY DEF Inv
  <1>a. ASSUME ~Down, \A v \in Workers : pc'[v] = pc[v] \/ pc'[v] \in {"idle", "top"},
               UNCHANGED cur, cancelReq \subseteq cancelReq'
        PROVE  Located'
    <2>1. \A v \in Workers : pc[v] \notin {"idle", "top"} => cur[v] \in Jobs
      BY <1>0 DEF HoldsJob, TypeOK
    <2>2. \A v \in Workers : pc[v] \notin {"idle", "top"} /\ Terminal(cur[v]) => Terminal(cur[v])'
      BY <1>a, <2>1, EndedStays
    <2> QED
      BY <1>a, <2>2 DEF Located, Terminal
  <1>1. CASE Request \/ \E j \in Jobs : Settle(j)
    <2>1. ~Down
      BY <1>1 DEF Down, Request, RegisterUpload, Enqueue, CancelJob, BeginQuery, FinishQuery, Settle
    <2>2. ASSUME NEW j \in Jobs, Enqueue(j) PROVE Located'
      BY <2>1, <2>2, <1>a, <1>0 DEF Enqueue, Spawned, TypeOK
    <2>3. ASSUME NEW j \in Jobs, CancelJob(j) PROVE Located'
      BY <2>1, <2>3, <1>a DEF CancelJob
    <2>4. CASE UNCHANGED <<threads, cancelReq>>
      BY <2>1, <2>4, <1>a
    <2> QED
      BY <1>1, <2>2, <2>3, <2>4 DEF Request, RegisterUpload, BeginQuery, FinishQuery, Settle
  <1>2. ASSUME NEW w \in Workers, WorkerStep(w) PROVE Located'
    <2> DEFINE Seen(v) ==
          /\ pc'[v] \in {"interrupt", "set_cancelled", "raised_interrupt", "raised_cancelled"}
                => cur'[v] \in cancelReq'
          /\ pc'[v] \in {"interrupt_late", "unledger", "raised_unledger", "prune"}
                => status'[cur'[v]] \in TerminalStatuses
          /\ pc'[v] \in {"publish_gate", "publish"} => cur'[v] \in Builds
    <2>0. Aside(w) /\ ~Down
      BY <1>2, WorkerAside DEF Aside, Down
    <2>1. \A v \in Workers \ {w} : Seen(v)
      <3> SUFFICES ASSUME NEW v \in Workers \ {w} PROVE Seen(v)
        OBVIOUS
      <3>1. pc[v] \notin {"idle", "top"} => cur[v] \in Jobs
        BY <1>0 DEF HoldsJob, TypeOK
      <3>2. pc[v] \notin {"idle", "top"} /\ Terminal(cur[v]) => status'[cur[v]] \in TerminalStatuses
        BY <2>0, <3>1, EndedStays DEF Terminal
      <3> QED
        BY <2>0, <3>2 DEF Located, Terminal, Aside
    <2>2. Seen(w)
      <3>a. ASSUME NEW n \in PCs \ {"interrupt", "set_cancelled", "raised_interrupt",
                                    "raised_cancelled", "interrupt_late", "unledger",
                                    "raised_unledger", "prune", "publish_gate",
                                    "publish"}, Goto(w, n)
            PROVE  Seen(w)
        BY <3>a, <1>0 DEF Goto, TypeOK
      <3> HIDE DEF Seen
      <3>1. CASE Leave(w) \/ PopUnknown(w)
        BY <3>1, <3>a DEF Leave, PopUnknown, PCs
      <3>2. CASE Pop(w)
        BY <3>2, <1>0 DEF Pop, Goto, Seen, Terminal, TerminalStatuses, TypeOK
      <3>3. CASE NoticeCancel(w)
        BY <3>3, <1>0 DEF NoticeCancel, Raise, Goto, Seen, TypeOK
      <3>4. CASE Fail(w) \/ GateTimeout(w)
        BY <3>4, <3>a DEF Fail, GateTimeout, Raise, PCs, Handlers
      <3>5. CASE Dispatch(w)
        BY <3>5, <3>a DEF Dispatch, PCs
      <3>6. CASE GatePass(w)
        <4>1. CASE pc[w] = "publish_gate"
          BY <3>6, <4>1, <1>0 DEF GatePass, AfterGate, Goto, Seen, Located, TypeOK
        <4>2. CASE pc[w] # "publish_gate"
          BY <3>6, <4>2, <3>a DEF GatePass, Gates, AfterGate, PCs, LockedPhases
        <4> QED
          BY <4>1, <4>2
      <3>7. CASE GatePause(w)
        BY <3>7 DEF GatePause, Gates, Seen, Located
      <3>8. CASE SaveFiles(w) \/ ForcedClean(w) \/ Ingest(w)
        BY <3>8, <3>a DEF SaveFiles, ForcedClean, Ingest, PCs
      <3>9. CASE MarkSaved(w)
        BY <3>9, <3>a DEF MarkSaved, MarkPhase, PCs
      <3>10. CASE MarkIngesting(w)
        BY <3>10, <3>a DEF MarkIngesting, MarkPhase, PCs
      <3>11. CASE MarkIngested(w)
        BY <3>11, <3>a DEF MarkIngested, MarkPhase, PCs
      <3>12. CASE MarkIndexed(w)
        BY <3>12, <3>a DEF MarkIndexed, MarkPhase, PCs
      <3>13. CASE AcquireIndexLock(w)
        BY <3>13, <3>a DEF AcquireIndexLock, PCs, LockedPhases
      <3>14. CASE Work(w) \/ Publish(w)
        BY <3>14, <1>0 DEF Work, Publish, Goto, Seen, TypeOK
      <3>15. CASE Raised(w)
        BY <3>15, <1>0 DEF Raised, Goto, Seen, TypeOK
      <3>16. CASE BookInterrupted(w)
        BY <3>16, <1>0 DEF BookInterrupted, AfterInterrupt, Goto, Seen, Located, Terminal, TypeOK
      <3>17. CASE SetCancelled(w)
        BY <3>17, <1>0 DEF SetCancelled, Goto, Seen, Terminal, TerminalStatuses, TypeOK, HoldsJob
      <3>18. CASE MarkFailed(w)
        BY <3>18, <3>a DEF MarkFailed, PCs, Handlers
      <3>19. CASE SetFailed(w)
        BY <3>19, <1>0 DEF SetFailed, Goto, Seen, Terminal, TerminalStatuses, TypeOK, HoldsJob
      <3>20. CASE Finish(w)
        BY <3>20, <1>0 DEF Finish, Goto, Seen, Terminal, TerminalStatuses, TypeOK, HoldsJob
      <3>21. CASE Unledger(w)
        BY <3>21, <1>0 DEF Unledger, Goto, Seen, Located, Terminal, TypeOK
      <3>22. CASE PruneJobs(w)
        BY <3>22, <3>a DEF PruneJobs, PCs
      <3> QED
        BY <1>2, <3>1, <3>2, <3>3, <3>4, <3>5, <3>6, <3>7, <3>8, <3>9, <3>10, <3>11, <3>12,
           <3>13, <3>14, <3>15, <3>16, <3>17, <3>18, <3>19, <3>20, <3>21, <3>22 DEF WorkerStep
    <2> QED
      BY <2>1, <2>2 DEF Located, Terminal
  <1>3. CASE Shutdown \/ Crash \/ Restart
    <2>1. CASE Down
      BY <2>1 DEF Down, Located
    <2>2. CASE Restart
      BY <2>2 DEF Restart, Located
    <2>3. CASE ~Down /\ UNCHANGED threads /\ cancelReq \subseteq cancelReq'
      BY <2>3, <1>a
    <2> QED
      BY <1>3, <2>1, <2>2, <2>3
         DEF Shutdown, ShutdownRequest, ShutdownForce, ShutdownBookkeep, ShutdownFinished,
             StopAccepting, Exit, Crash
  <1>4. CASE UNCHANGED vars
    <2>1. \A j : Terminal(j)' <=> Terminal(j)
      BY <1>4 DEF vars, Terminal
    <2> QED
      BY <1>4, <2>1 DEF vars, Located, Terminal
  <1> QED
    BY <1>1, <1>2, <1>3, <1>4 DEF Next

\* A record that has been marked interrupted is not recovered again.
LEMMA InterruptedSettled ==
    ASSUME TypeOK, NEW j \in Uploads, Mark(j, "interrupted")
    PROVE  registry'[j] \notin RecoverableStatuses
  BY DEF TypeOK, Mark, Marked, RecoverableStatuses

\* Every step keeps OwedEnded.
LEMMA NextOwedEnded ==
    ASSUME Inv, OwedEnded, [Next]_vars
    PROVE  OwedEnded'
  <1> USE DEF memory, durable, threads, server, At
  <1>0. TypeOK
    BY DEF Inv
  <1>a. ASSUME up, up', owed' \subseteq owed, forced' \subseteq forced,
               finalizer' # "bookkeeping" => finalizer # "bookkeeping" \/ forced = {},
               \A j \in owed : status[j] = "gone" => status'[j] \in TerminalStatuses \cup {"gone"}
        PROVE  OwedEnded'
    <2>1. ~Down /\ owed \subseteq Jobs /\ forced \subseteq Jobs
      BY <1>a, <1>0 DEF Down, TypeOK
    <2>2. \A j \in Jobs : Terminal(j) => Terminal(j)'
      BY <2>1, EndedStays
    <2> QED
      BY <1>a, <2>1, <2>2 DEF OwedEnded, Terminal
  <1>b. ASSUME Down PROVE OwedEnded'
    BY <1>b, <1>0 DEF Down, OwedEnded, Recoverable
  <1>1. CASE Request \/ \E j \in Jobs : Settle(j)
    <2>1. ASSUME NEW j \in Jobs, Enqueue(j) PROVE OwedEnded'
      BY <2>1, <1>a, <1>0 DEF Enqueue, TypeOK
    <2>2. ASSUME NEW j \in Jobs, CancelJob(j) PROVE OwedEnded'
      <3>1. ~Down /\ \A k \in Jobs : Terminal(k) => Terminal(k)'
        BY <2>2, <1>1, EndedStays DEF CancelJob, Down
      <3>2. /\ owed' \subseteq owed \cup {k \in Jobs : status'[k] = "cancelled"}
            /\ \A k \in owed : status[k] = "gone" => status'[k] \in TerminalStatuses \cup {"gone"}
        BY <2>2, <1>0 DEF CancelJob, TypeOK, TerminalStatuses
      <3> QED
        BY <2>2, <3>1, <3>2, <1>0 DEF CancelJob, OwedEnded, Terminal, TerminalStatuses, TypeOK
    <2>3. ASSUME NEW u \in Uploads, RegisterUpload(u) PROVE OwedEnded'
      BY <2>3, <1>a DEF RegisterUpload
    <2>4. ASSUME NEW j \in Jobs, Settle(j) PROVE OwedEnded'
      BY <2>4, <1>a DEF Settle
    <2>5. CASE BeginQuery \/ FinishQuery
      BY <2>5, <1>a DEF BeginQuery, FinishQuery
    <2> QED
      BY <1>1, <2>1, <2>2, <2>3, <2>4, <2>5 DEF Request
  <1>2. ASSUME NEW w \in Workers, WorkerStep(w) PROVE OwedEnded'
    <2>1. Aside(w)
      BY <1>2, WorkerAside
    <2>2. \A j \in owed : status[j] = "gone" => j \notin queue /\ j # cur[w]
      BY <1>0, Nobody DEF Inv, OwnJobs, TypeOK
    <2>3. \A j \in owed : status[j] = "gone" => status'[j] = "gone"
      BY <2>1, <2>2, <1>0 DEF Aside, TypeOK
    <2> QED
      BY <2>1, <2>3, <1>a DEF Aside
  <1>3. CASE Shutdown \/ Crash \/ Restart
    <2>1. CASE ShutdownRequest
      BY <2>1, <1>a DEF ShutdownRequest
    <2>2. CASE ShutdownForce
      BY <2>2, <1>0 DEF ShutdownForce, OwedEnded, Terminal, TerminalStatuses, TypeOK
    <2>3. ASSUME NEW j \in Jobs, ShutdownBookkeep(j) PROVE OwedEnded'
      BY <2>3, <1>a DEF ShutdownBookkeep
    <2>4. CASE ShutdownFinished \/ StopAccepting
      BY <2>4, <1>a DEF ShutdownFinished, StopAccepting
    <2>5. CASE Exit \/ Crash
      BY <2>5, <1>b DEF Exit, Crash
    <2>6. CASE Restart
      <3>1. /\ up' /\ UNCHANGED <<forced, finalizer>> /\ owed' \subseteq ledger
            /\ \A j \in owed' : j \notin known'
            /\ \A j \in Jobs : j \notin known' => status'[j] = status[j]
        BY <2>6, <1>0, JobKinds DEF Restart, TypeOK, Jobs
      <3>2. forced = {} /\ \A j \in ledger : status[j] = "gone"
        BY <2>6, <1>0, JobKinds DEF Restart, OwedEnded, Recoverable, TypeOK, Jobs, Inv, OwnJobs,
                          Terminal, TerminalStatuses
      <3> QED
        BY <3>1, <3>2, <1>0 DEF OwedEnded, TypeOK, Jobs
    <2> QED
      BY <1>3, <2>1, <2>2, <2>3, <2>4, <2>5, <2>6 DEF Shutdown
  <1>4. CASE UNCHANGED vars
    BY <1>4 DEF vars, OwedEnded, Terminal, Recoverable
  <1> QED
    BY <1>1, <1>2, <1>3, <1>4 DEF Next

\* The jobs whose durable record cannot be missing: every job, or only the
\* uploads when a ledger write may fail.
Durables == IF Lossy THEN Uploads ELSE Jobs

\* Where a worker may hold an active job that the records have let go.
LetGo(j) == \E w \in Workers : cur[w] = j /\ pc[w] \in {"finish", "set_failed"}
Kept ==
    \A j \in known \cap Durables :
        Active(j) /\ j \notin cancelReq /\ ~Recoverable(j) => LetGo(j)

\* Apart from marks of the job itself, nothing takes the record of an active job.
LEMMA StillKept ==
    ASSUME TypeOK, Kept, known' \subseteq known, cancelReq \subseteq cancelReq',
           NEW j \in known', j \in Durables, Active(j), j \notin cancelReq',
           Recoverable(j) => Recoverable(j)', ~Recoverable(j)',
           \A w \in Workers : cur[w] = j => pc'[w] = pc[w] /\ cur'[w] = cur[w]
    PROVE  LetGo(j)'
  BY DEF Kept, LetGo

LEMMA WorkerKept ==
    ASSUME Inv, Located, Kept, [Next]_vars, NEW w \in Workers, WorkerStep(w)
    PROVE  Kept'
  <1> USE DEF memory, durable, threads, server, At
  <1>0. TypeOK /\ HoldsJob /\ Aside(w)
    BY WorkerAside DEF Inv
  <1> SUFFICES ASSUME NEW j \in known', j \in Durables, Active(j)', j \notin cancelReq',
                      ~Recoverable(j)'
               PROVE  LetGo(j)'
    BY DEF Kept
  <1>1. j \in known /\ j \in Jobs /\ j \notin cancelReq
    BY <1>0 DEF Aside, TypeOK
  <1>2. Active(j)
    <2>1. ~Down /\ ~Terminal(j)
      BY <1>0, <1>1, EndedStays DEF Aside, Down, Active, Terminal, ActiveStatuses, TerminalStatuses
    <2>2. status[j] \notin {"fresh", "gone"}
      <3>1. CASE j \in queue \/ j = cur[w]
        BY <3>1, <1>1, Nobody DEF Inv, OwnJobs
      <3>2. CASE j \notin queue /\ j # cur[w]
        BY <3>2, <1>0, <1>1 DEF Aside, Active, ActiveStatuses
      <3> QED
        BY <3>1, <3>2
    <2> QED
      BY <1>0, <1>1, <2>1, <2>2 DEF Active, Terminal, TypeOK
  <1>3. CASE j # cur[w]
    <2>1. Recoverable(j) => Recoverable(j)'
      BY <1>0, <1>1, <1>3 DEF Aside, Recoverable
    <2>2. PICK v \in Workers : cur[v] = j /\ pc[v] \in {"finish", "set_failed"}
      BY <1>1, <1>2, <2>1 DEF Kept, LetGo
    <2> QED
      BY <1>0, <1>3, <2>2 DEF Aside, LetGo
  <1>4. CASE j = cur[w]
    <2>0. pc[w] \in PCs \ {"idle", "top"} /\ cur[w] # NoJob
      BY <1>0, <1>1, <1>4, Nobody DEF HoldsJob, TypeOK
    <2>a. ASSUME UNCHANGED <<registry, ledger>>, pc[w] \notin {"finish", "set_failed"}
          PROVE  LetGo(j)'
      <3>1. PICK v \in Workers : cur[v] = j /\ pc[v] \in {"finish", "set_failed"}
        BY <2>a, <1>1, <1>2 DEF Kept, LetGo, Recoverable
      <3>2. v = w
        BY <3>1, <1>4, <2>0 DEF Inv, OneRunPerJob
      <3> QED
        BY <2>a, <3>1, <3>2
    <2>b. ASSUME NEW here \in UploadPhases, NEW s \in RecoverableStatuses, NEW n,
                 MarkPhase(w, here, s, n)
          PROVE  LetGo(j)'
      <3>1. j \in Uploads /\ pc[w] \notin {"finish", "set_failed"}
        BY <2>b, <1>0, <1>4 DEF MarkPhase, HoldsJob, UploadPhases
      <3>2. Recoverable(j)
        <4>1. SUFFICES ASSUME ~Recoverable(j) PROVE FALSE
          OBVIOUS
        <4>2. PICK v \in Workers : cur[v] = j /\ pc[v] \in {"finish", "set_failed"}
          BY <4>1, <1>1, <1>2 DEF Kept, LetGo
        <4> QED
          BY <4>2, <1>4, <2>0, <3>1 DEF Inv, OneRunPerJob
      <3>3. Marked(j, s) \in RecoverableStatuses
        BY <3>1, <3>2 DEF Marked, Recoverable, RecoverableStatuses
      <3> QED
        BY <2>b, <3>1, <3>3, <1>0, <1>4 DEF MarkPhase, Mark, Recoverable, TypeOK
    <2>1. CASE Leave(w) \/ Pop(w) \/ PopUnknown(w)
      BY <2>1, <2>0 DEF Leave, Pop, PopUnknown
    <2>2. CASE NoticeCancel(w) \/ Fail(w) \/ GateTimeout(w)
      BY <2>2, <2>a DEF NoticeCancel, CheckPoints, Fail, FailPoints, GateTimeout, Gates, Raise
    <2>3. CASE Dispatch(w) \/ AcquireIndexLock(w) \/ Work(w) \/ Publish(w) \/ Raised(w)
      BY <2>3, <2>a DEF Dispatch, AcquireIndexLock, Work, Publish, Raised
    <2>4. CASE GatePass(w) \/ GatePause(w)
      BY <2>4, <2>a DEF GatePass, GatePause, Gates
    <2>5. CASE SaveFiles(w) \/ ForcedClean(w) \/ Ingest(w)
      BY <2>5, <2>a DEF SaveFiles, ForcedClean, Ingest
    <2>6. CASE MarkSaved(w)
      BY <2>6, <2>b DEF MarkSaved, UploadPhases, RecoverableStatuses
    <2>7. CASE MarkIngesting(w)
      BY <2>7, <2>b DEF MarkIngesting, UploadPhases, RecoverableStatuses
    <2>8. CASE MarkIngested(w)
      BY <2>8, <2>b DEF MarkIngested, UploadPhases, RecoverableStatuses
    <2>9. CASE MarkIndexed(w)
      BY <2>9, <1>0, <1>4 DEF MarkIndexed, MarkPhase, Goto, LetGo, TypeOK
    <2>10. CASE MarkFailed(w)
      BY <2>10, <1>0, <1>4 DEF MarkFailed, Goto, LetGo, TypeOK
    <2>11. CASE SetCancelled(w) \/ SetFailed(w) \/ Finish(w)
      BY <2>11, <1>0, <1>1, <1>4 DEF SetCancelled, SetFailed, Finish, Active, ActiveStatuses, TypeOK
    <2>12. CASE BookInterrupted(w) \/ Unledger(w) \/ PruneJobs(w)
      BY <2>12, <1>1, <1>2, <1>4 DEF BookInterrupted, Unledger, PruneJobs, Located, Terminal,
                                     Active, ActiveStatuses, TerminalStatuses
    <2> QED
      BY <2>1, <2>2, <2>3, <2>4, <2>5, <2>6, <2>7, <2>8, <2>9, <2>10, <2>11, <2>12 DEF WorkerStep
  <1> QED
    BY <1>3, <1>4

\* The other steps.
LEMMA NextKept ==
    ASSUME Inv, Located, OwedEnded, Kept, [Next]_vars
    PROVE  Kept'
  <1> USE DEF memory, durable, threads, server
  <1>0. TypeOK
    BY DEF Inv
  <1>a. ASSUME known' \subseteq known, cancelReq \subseteq cancelReq', UNCHANGED threads,
               \A j \in known : Active(j)' => Active(j),
               \A j \in known : Active(j) => (Recoverable(j) => Recoverable(j)')
        PROVE  Kept'
    BY <1>a, <1>0, StillKept DEF Kept, TypeOK
  <1>b. ASSUME UNCHANGED <<memory, status, cancelReq, threads>>, NEW k \in Jobs,
               ~Active(k), RecordInterrupted(k) /\ LedgerRemove(k)
        PROVE  Kept'
    <2>1. \A j \in known : j # k => (Recoverable(j) => Recoverable(j)')
      BY <1>b, <1>0 DEF RecordInterrupted, LedgerRemove, BestEffortMark, BestEffortRemove, Mark,
                        Recoverable, TypeOK
    <2> QED
      BY <1>b, <2>1, <1>a DEF Active
  <1>1. CASE Request \/ \E j \in Jobs : Settle(j)
    <2>1. ASSUME NEW j \in Jobs, Enqueue(j) PROVE Kept'
      <3> SUFFICES ASSUME NEW k \in known', k \in Durables, Active(k)', k \notin cancelReq',
                          ~Recoverable(k)'
                   PROVE  LetGo(k)'
        BY DEF Kept
      <3>1. known' \subseteq known \cup {j} /\ UNCHANGED cancelReq /\ k \in Jobs
        BY <2>1, <1>0 DEF Enqueue, Pruned, TypeOK
      <3>2. k # j
        BY <2>1 DEF Enqueue, Durables, Recoverable, RecoverableStatuses, Jobs
      <3>3. k \in known /\ Active(k) /\ (Recoverable(k) => Recoverable(k)')
        BY <2>1, <3>1, <3>2, <1>0 DEF Enqueue, Active, Recoverable, TypeOK
      <3>4. \A w \in Workers : cur[w] = k => pc'[w] = pc[w] /\ cur'[w] = cur[w]
        BY <2>1, <3>1, <1>0, Nobody DEF Enqueue, Spawned, Inv, HoldsJob, TypeOK
      <3>5. PICK w \in Workers : cur[w] = k /\ pc[w] \in {"finish", "set_failed"}
        BY <3>1, <3>3 DEF Kept, LetGo
      <3> QED
        BY <3>4, <3>5 DEF LetGo
    <2>2. ASSUME NEW j \in Jobs, CancelJob(j) PROVE Kept'
      BY <2>2, <1>a, <1>0 DEF CancelJob, Active, ActiveStatuses, Recoverable, TypeOK
    <2>3. ASSUME NEW u \in Uploads, RegisterUpload(u) PROVE Kept'
      BY <2>3, <1>a, <1>0 DEF RegisterUpload, Active, Recoverable, RecoverableStatuses, TypeOK
    <2>4. CASE BeginQuery \/ FinishQuery
      BY <2>4, <1>a DEF BeginQuery, FinishQuery, Active, Recoverable
    <2>5. ASSUME NEW j \in Jobs, Settle(j) PROVE Kept'
      BY <2>5, <1>b DEF Settle, OwedEnded, Active, ActiveStatuses, TerminalStatuses
    <2> QED
      BY <1>1, <2>1, <2>2, <2>3, <2>4, <2>5 DEF Request
  <1>2. ASSUME NEW w \in Workers, WorkerStep(w) PROVE Kept'
    BY <1>2, WorkerKept
  <1>3. CASE Shutdown \/ Crash \/ Restart
    <2>1. CASE ShutdownRequest
      BY <2>1, <1>a DEF ShutdownRequest, Active, Recoverable
    <2>2. CASE ShutdownForce
      BY <2>2, <1>a, <1>0 DEF ShutdownForce, Active, ActiveStatuses, Recoverable, TypeOK
    <2>3. ASSUME NEW j \in Jobs, ShutdownBookkeep(j) PROVE Kept'
      BY <2>3, <1>b DEF ShutdownBookkeep, OwedEnded, Terminal, Active, ActiveStatuses,
                        TerminalStatuses
    <2>4. CASE ShutdownFinished \/ StopAccepting
      BY <2>4, <1>a DEF ShutdownFinished, StopAccepting, Active, Recoverable
    <2>5. CASE Down
      BY <2>5 DEF Down, Kept
    <2>6. CASE Restart
      <3>1. \A j \in known' : Recoverable(j)'
        BY <2>6, <1>0, JobKinds DEF Restart, Recoverable, TypeOK
      <3> QED
        BY <3>1 DEF Kept
    <2> QED
      BY <1>3, <2>1, <2>2, <2>3, <2>4, <2>5, <2>6 DEF Shutdown, Exit, Crash
  <1>4. CASE UNCHANGED vars
    BY <1>4, <1>a DEF vars, Active, Recoverable
  <1> QED
    BY <1>1, <1>2, <1>3, <1>4 DEF Next

\* What the registry says of an upload where its worker is about to let go of
\* it: nothing a restart would take up, but for an upload that failed after it
\* was ingested.
BookedAt(w) ==
    /\ pc[w] \in {"set_cancelled", "raised_cancelled", "finish"}
          => registry[cur[w]] \notin RecoverableStatuses
    /\ pc[w] = "set_failed"
          => registry[cur[w]] \notin RecoverableStatuses \ {"ingested"}
    /\ pc[w] \in {"unledger", "raised_unledger"} =>
          \/ registry[cur[w]] \notin RecoverableStatuses
          \/ status[cur[w]] = "failed" /\ registry[cur[w]] = "ingested"
Booked == \A w \in Workers : cur[w] \in Uploads => BookedAt(w)

\* A mark as interrupted only ever closes a record.
LEMMA StillBooked ==
    ASSUME TypeOK, Located, Booked, NEW w \in Workers, cur[w] \in Uploads,
           pc'[w] = pc[w] \/ pc'[w] \in {"idle", "top"}, cur'[w] = cur[w],
           \/ registry'[cur[w]] = registry[cur[w]]
           \/ registry'[cur[w]] \notin RecoverableStatuses,
           Terminal(cur[w]) => status'[cur[w]] = status[cur[w]]
    PROVE  BookedAt(w)'
  BY DEF Booked, BookedAt, Located, RecoverableStatuses

LEMMA WorkerBooked ==
    ASSUME Inv, Located, Booked, ~Lossy, NEW w \in Workers, WorkerStep(w)
    PROVE  Booked'
  <1> USE DEF memory, durable, threads, server, At
  <1>0. TypeOK /\ HoldsJob /\ Aside(w)
    BY WorkerAside DEF Inv
  <1>1. ASSUME NEW v \in Workers \ {w}, cur'[v] \in Uploads PROVE BookedAt(v)'
    <2>1. cur[v] \in Jobs /\ cur[v] # NoJob /\ cur[v] # cur[w] /\ cur[v] \notin queue
      BY <1>0, <1>1, Nobody DEF Aside, Inv, OneRunPerJob, TypeOK, Jobs
    <2>2. registry'[cur[v]] = registry[cur[v]] /\ status'[cur[v]] = status[cur[v]]
      BY <1>0, <1>1, <2>1 DEF Aside
    <2> QED
      BY <1>0, <1>1, <2>1, <2>2, StillBooked DEF Aside
  <1>2. ASSUME cur'[w] \in Uploads PROVE BookedAt(w)'
    <2>a. ASSUME NEW n \in PCs \ {"set_cancelled", "raised_cancelled", "finish", "set_failed",
                                  "unledger", "raised_unledger"}, Goto(w, n)
          PROVE  BookedAt(w)'
      BY <2>a, <1>0 DEF Goto, TypeOK, BookedAt
    <2>1. CASE Leave(w) \/ PopUnknown(w)
      BY <2>1, <2>a DEF Leave, PopUnknown, PCs
    <2>2. CASE Pop(w)
      BY <2>2, <1>0 DEF Pop, Goto, BookedAt, TypeOK
    <2>3. CASE NoticeCancel(w) \/ Fail(w) \/ GateTimeout(w)
      BY <2>3, <2>a DEF NoticeCancel, Fail, GateTimeout, Raise, PCs, Handlers
    <2>4. CASE Dispatch(w)
      BY <2>4, <2>a DEF Dispatch, PCs
    <2>5. CASE GatePass(w)
      BY <2>5, <2>a DEF GatePass, Gates, AfterGate, PCs, LockedPhases
    <2>6. CASE GatePause(w)
      BY <2>6 DEF GatePause, Gates, BookedAt
    <2>7. CASE SaveFiles(w) \/ ForcedClean(w) \/ Ingest(w)
      BY <2>7, <2>a DEF SaveFiles, ForcedClean, Ingest, PCs
    <2>8. CASE MarkSaved(w)
      BY <2>8, <2>a DEF MarkSaved, MarkPhase, PCs
    <2>9. CASE MarkIngesting(w)
      BY <2>9, <2>a DEF MarkIngesting, MarkPhase, PCs
    <2>10. CASE MarkIngested(w)
      BY <2>10, <2>a DEF MarkIngested, MarkPhase, PCs
    <2>11. CASE MarkIndexed(w)
      <3>1. registry'[cur[w]] \notin RecoverableStatuses /\ pc'[w] = "finish" /\ cur'[w] = cur[w]
        BY <2>11, <1>0, <1>2 DEF MarkIndexed, MarkPhase, Mark, Marked, Goto, TypeOK,
                                 RecoverableStatuses
      <3> QED
        BY <3>1 DEF BookedAt
    <2>12. CASE AcquireIndexLock(w)
      BY <2>12, <2>a DEF AcquireIndexLock, PCs, LockedPhases
    <2>13. CASE Work(w)
      BY <2>13, <2>a, <1>2, JobKinds DEF Work, PCs, LockedPhases, Tracked
    <2>14. CASE Publish(w)
      BY <2>14, <1>2, JobKinds DEF Publish, Located, Tracked
    <2>15. CASE Raised(w)
      BY <2>15, <2>a, <1>2 DEF Raised, PCs, Handlers
    <2>16. CASE BookInterrupted(w)
      <3>1. registry'[cur[w]] \notin RecoverableStatuses /\ cur'[w] = cur[w]
        BY <2>16, <1>0, <1>2, InterruptedSettled DEF BookInterrupted, RecordInterrupted, BestEffortMark
      <3> QED
        BY <2>16, <1>0, <3>1 DEF BookInterrupted, AfterInterrupt, Goto, BookedAt, TypeOK
    <2>17. CASE SetCancelled(w)
      BY <2>17, <1>0, <1>2 DEF SetCancelled, Goto, Booked, BookedAt, TypeOK
    <2>18. CASE MarkFailed(w)
      <3>1. registry'[cur[w]] \notin RecoverableStatuses \ {"ingested"} /\ cur'[w] = cur[w]
        BY <2>18, <1>0, <1>2 DEF MarkFailed, BestEffortMark, Mark, Marked, TypeOK, RecoverableStatuses
      <3> QED
        BY <2>18, <1>0, <3>1 DEF MarkFailed, Goto, BookedAt, TypeOK
    <2>19. CASE SetFailed(w)
      BY <2>19, <1>0, <1>2 DEF SetFailed, Goto, Booked, BookedAt, TypeOK, Jobs
    <2>20. CASE Finish(w)
      BY <2>20, <1>0, <1>2 DEF Finish, Goto, Booked, BookedAt, TypeOK
    <2>21. CASE Unledger(w)
      BY <2>21, <1>0 DEF Unledger, Goto, BookedAt, TypeOK
    <2>22. CASE PruneJobs(w)
      BY <2>22, <2>a DEF PruneJobs, PCs
    <2> QED
      BY <1>2, <2>1, <2>2, <2>3, <2>4, <2>5, <2>6, <2>7, <2>8, <2>9, <2>10, <2>11, <2>12,
         <2>13, <2>14, <2>15, <2>16, <2>17, <2>18, <2>19, <2>20, <2>21, <2>22 DEF WorkerStep
  <1> QED
    BY <1>1, <1>2 DEF Booked

LEMMA NextBooked ==
    ASSUME Inv, Located, Booked, ~Lossy, [Next]_vars
    PROVE  Booked'
  <1> USE DEF memory, durable, threads, server
  <1>0. TypeOK /\ HoldsJob
    BY DEF Inv
  <1>a. ASSUME UNCHANGED <<cur, indexLock>>,
               \A w \in Workers : pc'[w] = pc[w] \/ cur[w] = NoJob,
               \A j \in Uploads : \/ registry'[j] = registry[j]
                                  \/ registry'[j] \notin RecoverableStatuses
                                  \/ status[j] = "fresh",
               \A j \in Jobs : Terminal(j) => status'[j] = status[j]
        PROVE  Booked'
    <2> SUFFICES ASSUME NEW w \in Workers, cur'[w] \in Uploads PROVE BookedAt(w)'
      BY DEF Booked
    <2>1. cur[w] \in Jobs /\ cur[w] # NoJob /\ status[cur[w]] # "fresh"
      BY <1>a, Nobody DEF Inv, OwnJobs, Jobs
    <2> QED
      BY <1>0, <1>a, <2>1, StillBooked
  <1>1. CASE Request \/ \E j \in Jobs : Settle(j)
    <2>1. ASSUME NEW j \in Jobs, Enqueue(j) PROVE Booked'
      <3>1. \A w \in Workers : pc'[w] = pc[w] \/ cur[w] = NoJob
        BY <2>1, <1>0 DEF Enqueue, Spawned, HoldsJob, TypeOK
      <3> QED
        BY <2>1, <3>1, <1>a, <1>0 DEF Enqueue, Terminal, TerminalStatuses, TypeOK
    <2>2. ASSUME NEW j \in Jobs, CancelJob(j) PROVE Booked'
      BY <2>2, <1>a, <1>0 DEF CancelJob, Terminal, TerminalStatuses, TypeOK
    <2>3. ASSUME NEW u \in Uploads, RegisterUpload(u) PROVE Booked'
      BY <2>3, <1>a, <1>0 DEF RegisterUpload, TypeOK
    <2>4. CASE BeginQuery \/ FinishQuery
      BY <2>4, <1>a DEF BeginQuery, FinishQuery
    <2>5. ASSUME NEW j \in Jobs, Settle(j) PROVE Booked'
      <3>1. \A u \in Uploads : registry'[u] = registry[u] \/ registry'[u] \notin RecoverableStatuses
        BY <2>5, <1>0, InterruptedSettled DEF Settle, RecordInterrupted, BestEffortMark, Mark, TypeOK
      <3> QED
        BY <2>5, <3>1, <1>a DEF Settle
    <2> QED
      BY <1>1, <2>1, <2>2, <2>3, <2>4, <2>5 DEF Request
  <1>2. ASSUME NEW w \in Workers, WorkerStep(w) PROVE Booked'
    BY <1>2, WorkerBooked
  <1>3. CASE Shutdown \/ Crash \/ Restart
    <2>1. CASE ShutdownForce
      BY <2>1, <1>a, <1>0 DEF ShutdownForce, Terminal, TypeOK
    <2>2. ASSUME NEW j \in Jobs, ShutdownBookkeep(j) PROVE Booked'
      <3>1. \A u \in Uploads : registry'[u] = registry[u] \/ registry'[u] \notin RecoverableStatuses
        BY <2>2, <1>0, InterruptedSettled
           DEF ShutdownBookkeep, RecordInterrupted, BestEffortMark, Mark, TypeOK
      <3> QED
        BY <2>2, <3>1, <1>a DEF ShutdownBookkeep
    <2>3. CASE ShutdownRequest \/ ShutdownFinished \/ StopAccepting
      BY <2>3, <1>a DEF ShutdownRequest, ShutdownFinished, StopAccepting
    <2>4. CASE Down
      BY <2>4, Nobody DEF Down, Booked, Jobs
    <2>5. CASE Restart
      BY <2>5, Nobody DEF Restart, Booked, Inv, OwnJobs, Jobs
    <2> QED
      BY <1>3, <2>1, <2>2, <2>3, <2>4, <2>5 DEF Shutdown, Exit, Crash
  <1>4. CASE UNCHANGED vars
    BY <1>4, <1>a DEF vars
  <1> QED
    BY <1>1, <1>2, <1>3, <1>4 DEF Next

\* What NoResurrection allows a restart to take up although it has ended.
Retaken(j) == j \in Uploads /\ status[j] = "failed" /\ registry[j] = "ingested"

\* A job that had ended, with its bookkeeping over and its records untouched,
\* stays as it was.
LEMMA StillNotResurrected ==
    ASSUME TypeOK, NoResurrection, NEW j \in Jobs, Terminal(j), ~Owing(j),
           status'[j] = status[j], j \in Uploads => registry'[j] = registry[j],
           j \in ledger' => j \in ledger, Recoverable(j)'
    PROVE  Retaken(j)'
  BY DEF NoResurrection, Retaken, Recoverable, Terminal

\* The bookkeeping outside a worker ends what it is for.
LEMMA BookkeepingEnds ==
    ASSUME TypeOK, ~Lossy, NEW j \in Jobs, RecordInterrupted(j), LedgerRemove(j)
    PROVE  ~Recoverable(j)'
  <1>1. CASE j \in Uploads
    BY <1>1, InterruptedSettled DEF RecordInterrupted, BestEffortMark, Recoverable
  <1>2. CASE j \notin Uploads
    BY <1>2 DEF LedgerRemove, BestEffortRemove, Recoverable, Jobs
  <1> QED
    BY <1>1, <1>2

\* A worker settles the records of its job before it lets go of it.
LEMMA WorkerNoResurrection ==
    ASSUME Inv, Located, Booked, NoResurrection, ~Lossy, [Next]_vars,
           NEW w \in Workers, WorkerStep(w)
    PROVE  NoResurrection'
  <1> USE DEF memory, durable, threads, server, At
  <1>0. TypeOK /\ HoldsJob /\ Aside(w) /\ ~Down
    BY WorkerAside DEF Inv, Aside, Down
  <1> SUFFICES ASSUME NEW j \in Jobs, Terminal(j)', Recoverable(j)', ~Owing(j)' PROVE Retaken(j)'
    BY DEF NoResurrection, Retaken
  <1>1. CASE Unledger(w) /\ cur[w] = j
    <2>1. Terminal(j) /\ status' = status /\ registry' = registry
      BY <1>1 DEF Unledger, Located, Terminal
    <2>2. j \in Uploads
      BY <1>1 DEF Unledger, LedgerRemove, BestEffortRemove, Recoverable, Jobs
    <2> QED
      BY <1>1, <2>1, <2>2 DEF Unledger, Booked, BookedAt, Recoverable, Retaken
  <1>2. CASE ~(Unledger(w) /\ cur[w] = j)
    <2>1. cur[w] = j => cur'[w] = j \/ PruneJobs(w)
      <3>1. CASE Leave(w) \/ Pop(w) \/ PopUnknown(w)
        BY <3>1, <1>0, Nobody DEF Leave, Pop, PopUnknown, HoldsJob
      <3>2. CASE Unledger(w) \/ PruneJobs(w)
        BY <3>2, <1>2
      <3>3. CASE UNCHANGED cur
        BY <3>3
      <3> QED
        BY <3>1, <3>2, <3>3 DEF WorkerStep, NoticeCancel, Fail, Raise, Dispatch, GatePass,
           GatePause, GateTimeout, SaveFiles, MarkSaved, MarkIngesting, MarkPhase,
           AcquireIndexLock, ForcedClean, Ingest, MarkIngested, Work, Publish, MarkIndexed,
           Raised, BookInterrupted, SetCancelled, MarkFailed, SetFailed, Finish
    <2>2. CASE cur[w] = j
      <3>1. PruneJobs(w)
        <4> SUFFICES ASSUME ~PruneJobs(w) PROVE FALSE
          OBVIOUS
        <4>1. pc'[w] = "prune" /\ cur'[w] = j
          BY <2>1, <2>2 DEF Owing
        <4>2. pc[w] = "prune" \/ Unledger(w)
          BY <1>0, <4>1 DEF Goto, TypeOK, WorkerStep, Leave, Pop, PopUnknown, NoticeCancel, Fail,
             Raise, Dispatch, GatePass, AfterGate, Gates, GatePause, GateTimeout, SaveFiles,
             MarkSaved, MarkIngesting, MarkPhase, AcquireIndexLock, ForcedClean, Ingest,
             MarkIngested, Work, Publish, MarkIndexed, Raised, BookInterrupted, AfterInterrupt,
             SetCancelled, MarkFailed, SetFailed, Finish, PruneJobs
        <4>3. pc[w] = "prune" => PruneJobs(w)
          BY DEF WorkerStep, Leave, Pop, PopUnknown, NoticeCancel, CheckPoints, Fail, FailPoints,
             Dispatch, GatePass, Gates, GatePause, GateTimeout, SaveFiles,
             MarkSaved, MarkIngesting, MarkPhase, AcquireIndexLock, ForcedClean, Ingest,
             MarkIngested, Work, Publish, MarkIndexed, Raised, BookInterrupted,
             SetCancelled, MarkFailed, SetFailed, Finish, Unledger
        <4> QED
          BY <4>2, <4>3, <1>2, <2>2
      <3>2. /\ pc[w] = "prune" /\ UNCHANGED <<status, registry, ledger, owed, forced>>
            /\ Terminal(j)
        BY <3>1, <2>2 DEF PruneJobs, Located
      <3>3. ~Owing(j)
        BY <1>0, <3>2, <2>2, Nobody DEF Owing, Aside, Inv, OneRunPerJob
      <3> QED
        BY <1>0, <3>2, <3>3, StillNotResurrected
    <2>3. CASE cur[w] # j
      <3>1. ~Owing(j)
        BY <1>0, <2>3 DEF Owing, Aside
      <3>2. cur'[w] # j \/ pc'[w] = "prune"
        BY DEF Owing
      <3>3. status'[j] = status[j]
        <4>1. CASE j \notin queue
          BY <1>0, <2>3, <4>1 DEF Aside
        <4>2. CASE j \in queue
          <5>1. CASE Pop(w)
            BY <5>1, <3>2, <1>0 DEF Pop, Goto, TypeOK
          <5>2. CASE ~Pop(w)
            BY <5>2, <2>3, <1>0 DEF Goto, TypeOK, WorkerStep, Leave, PopUnknown, NoticeCancel,
               Fail, Raise, Dispatch, GatePass, GatePause, GateTimeout, SaveFiles, MarkSaved,
               MarkIngesting, MarkPhase, AcquireIndexLock, ForcedClean, Ingest, MarkIngested,
               Work, Publish, MarkIndexed, Raised, BookInterrupted, SetCancelled, MarkFailed,
               SetFailed, Finish, PruneJobs, Unledger
          <5> QED
            BY <5>1, <5>2
        <4> QED
          BY <4>1, <4>2
      <3>4. j \in Uploads => registry'[j] = registry[j]
        BY <1>0, <2>3 DEF Aside
      <3>5. Terminal(j)
        BY <3>3 DEF Terminal
      <3> QED
        BY <1>0, <3>1, <3>3, <3>4, <3>5, StillNotResurrected DEF Aside
    <2> QED
      BY <2>2, <2>3
  <1> QED
    BY <1>1, <1>2

\* Every step keeps NoResurrection.
LEMMA NextNoResurrection ==
    ASSUME Inv, Located, OwedEnded, Booked, NoResurrection, ~Lossy, [Next]_vars
    PROVE  NoResurrection'
  <1> USE DEF memory, durable, threads, server
  <1>0. TypeOK /\ HoldsJob
    BY DEF Inv
  \* Steps after which no more jobs have ended, and no job's records grew.
  <1>a. ASSUME UNCHANGED cur, \A w \in Workers : pc'[w] = pc[w] \/ cur[w] = NoJob,
               \A j \in Jobs :
                  /\ Terminal(j)' => status'[j] = status[j] \/ j \in owed' \cup forced'
                  /\ Terminal(j) => /\ j \in Uploads => registry'[j] = registry[j]
                                    /\ j \in ledger' => j \in ledger,
               owed \cup forced \subseteq owed' \cup forced'
        PROVE  NoResurrection'
    <2> SUFFICES ASSUME NEW j \in Jobs, Terminal(j)', Recoverable(j)', ~Owing(j)'
                 PROVE  Retaken(j)'
      BY DEF NoResurrection, Retaken
    <2>1. Terminal(j) /\ status'[j] = status[j]
      BY <1>a DEF Terminal, Owing
    <2>2. ~Owing(j)
      BY <1>a, <1>0, Nobody DEF Owing
    <2> QED
      BY <1>0, <1>a, <2>1, <2>2, StillNotResurrected
  <1>b. ASSUME UNCHANGED <<memory, status, threads>>, NEW k \in Jobs,
               RecordInterrupted(k) /\ LedgerRemove(k),
               owed \cup forced \subseteq owed' \cup forced' \cup {k}
        PROVE  NoResurrection'
    <2> SUFFICES ASSUME NEW j \in Jobs, Terminal(j)', Recoverable(j)', ~Owing(j)'
                 PROVE  Retaken(j)'
      BY DEF NoResurrection, Retaken
    <2>1. j # k
      BY <1>b, <1>0, BookkeepingEnds
    <2>2. Terminal(j) /\ ~Owing(j)
      BY <1>b, <2>1 DEF Terminal, Owing
    <2>3. /\ j \in Uploads => registry'[j] = registry[j]
          /\ ledger' \subseteq ledger
      BY <1>b, <1>0, <2>1 DEF RecordInterrupted, LedgerRemove, BestEffortMark, BestEffortRemove,
                              Mark, TypeOK
    <2> QED
      BY <1>0, <1>b, <2>2, <2>3, StillNotResurrected
  <1>1. CASE Request \/ \E j \in Jobs : Settle(j)
    <2>1. ASSUME NEW j \in Jobs, Enqueue(j) PROVE NoResurrection'
      <3>1. \A w \in Workers : pc'[w] = pc[w] \/ cur[w] = NoJob
        BY <2>1, <1>0 DEF Enqueue, Spawned, HoldsJob, TypeOK
      <3>2. \A k \in Jobs :
               /\ Terminal(k)' => status'[k] = status[k]
               /\ Terminal(k) => (k \in ledger' => k \in ledger)
        BY <2>1, <1>0 DEF Enqueue, Terminal, TerminalStatuses, TypeOK
      <3> QED
        BY <2>1, <3>1, <3>2, <1>a DEF Enqueue
    <2>2. ASSUME NEW j \in Jobs, CancelJob(j) PROVE NoResurrection'
      <3>1. \A k \in Jobs : status'[k] = status[k] \/ k \in owed'
        BY <2>2, <1>0 DEF CancelJob, TypeOK
      <3> QED
        BY <2>2, <3>1, <1>a DEF CancelJob
    <2>3. ASSUME NEW u \in Uploads, RegisterUpload(u) PROVE NoResurrection'
      BY <2>3, <1>a, <1>0 DEF RegisterUpload, Terminal, TerminalStatuses, TypeOK
    <2>4. CASE BeginQuery \/ FinishQuery
      BY <2>4, <1>a DEF BeginQuery, FinishQuery
    <2>5. ASSUME NEW j \in Jobs, Settle(j) PROVE NoResurrection'
      BY <2>5, <1>b DEF Settle
    <2> QED
      BY <1>1, <2>1, <2>2, <2>3, <2>4, <2>5 DEF Request
  <1>2. ASSUME NEW w \in Workers, WorkerStep(w) PROVE NoResurrection'
    BY <1>2, WorkerNoResurrection
  <1>3. CASE Shutdown \/ Crash \/ Restart
    <2>1. CASE ShutdownForce
      <3>1. \A j \in Jobs : status'[j] = status[j] \/ j \in forced'
        BY <2>1 DEF ShutdownForce
      <3> QED
        BY <2>1, <3>1, <1>a DEF ShutdownForce, OwedEnded
    <2>2. ASSUME NEW j \in Jobs, ShutdownBookkeep(j) PROVE NoResurrection'
      BY <2>2, <1>b DEF ShutdownBookkeep
    <2>3. CASE ShutdownRequest \/ ShutdownFinished \/ StopAccepting
      BY <2>3, <1>a DEF ShutdownRequest, ShutdownFinished, StopAccepting
    <2>4. CASE Down
      BY <2>4 DEF Down, NoResurrection, Terminal, TerminalStatuses
    <2>5. CASE Restart
      BY <2>5 DEF Restart, Inv, OwnJobs, NoResurrection, Terminal, TerminalStatuses
    <2> QED
      BY <1>3, <2>1, <2>2, <2>3, <2>4, <2>5 DEF Shutdown, Exit, Crash
  <1>4. CASE UNCHANGED vars
    BY <1>4, <1>a DEF vars
  <1> QED
    BY <1>1, <1>2, <1>3, <1>4 DEF Next

\* Together, what is needed to know which records a crash leaves.
RecordsInv == Inv /\ Located /\ OwedEnded /\ Kept

LEMMA RecordsInvariant == Spec => []RecordsInv
  <1>1. Init => RecordsInv
    BY InitInv DEF Init, RecordsInv, Located, OwedEnded, Kept
  <1>2. RecordsInv /\ [Next]_vars => RecordsInv'
    BY NextInv, NextLocated, NextOwedEnded, NextKept DEF RecordsInv
  <1> QED
    BY <1>1, <1>2, PTL DEF Spec

\* With a ledger that can be written, every accepted job that has not ended and
\* is not being cancelled is in the durable records whenever the server may
\* crash, through cancellations, retries, shutdowns and earlier recoveries.
THEOREM SurvivesCrash ==
    ASSUME ~Lossy
    PROVE  Spec => []NothingLost
  <1>1. RecordsInv => NothingLost
    BY DEF RecordsInv, Inv, TypeOK, Kept, LetGo, Durables, NothingLost
  <1> QED
    BY <1>1, RecordsInvariant, PTL

\* Whether or not best-effort writes fail, no accepted upload is ever lost: the
\* registry is written before the job exists, and a write that would have to
\* follow a phase fails the job.
UploadsKept ==
    \A j \in known \cap Uploads :
        Active(j) /\ j \notin cancelReq /\ ~Recoverable(j) => LetGo(j)
THEOREM UploadsSurvive == Spec => []UploadsKept
  <1>1. RecordsInv => UploadsKept
    BY DEF RecordsInv, Kept, Durables, Jobs, UploadsKept
  <1> QED
    BY <1>1, RecordsInvariant, PTL

\* With a ledger and a registry that can be written, a restart takes up no job
\* that has ended and whose bookkeeping is over, however it ended: by itself,
\* cancelled while queued or running, or cancelled by force at a shutdown with
\* its worker still in the middle of a phase.
THEOREM StaysEnded ==
    ASSUME ~Lossy
    PROVE  Spec => []NoResurrection
  <1> DEFINE BInv == Booked /\ NoResurrection
  <1>1. Init => BInv
    BY Nobody DEF Init, Booked, BookedAt, NoResurrection, Terminal, TerminalStatuses, Jobs
  <1>2. RecordsInv /\ BInv /\ [Next]_vars => BInv'
    BY NextBooked, NextNoResurrection DEF RecordsInv
  <1>3. Spec => []BInv
    BY <1>1, <1>2, RecordsInvariant, PTL DEF Spec
  <1> QED
    BY <1>3, PTL

-----------------------------------------------------------------------------
(* No lost wakeup.                                                         *)

\* The server takes requests, and no shutdown has cancelled by force yet.
Serving == up /\ accepting /\ finalizer \in {"idle", "grace"}

\* What is queued then is known, and has not ended.
QueueAlive == Serving => \A j \in queue : j \in known /\ ~Terminal(j)

\* While the server is serving, a queued job finds a thread to take it.
Attended == Serving => NoStrandedQueue

\* A cancelled job that is still queued can only come from a forced shutdown.
LEMMA NextQueueAlive ==
    ASSUME Inv, QueueAlive, [Next]_vars
    PROVE  QueueAlive'
  <1> USE DEF memory, durable, threads, server, At
  <1>0. TypeOK /\ HoldsJob
    BY DEF Inv
  <1>a. ASSUME Serving' => Serving, queue' \subseteq queue,
               \A j \in queue' : /\ j \in known /\ ~Terminal(j) => j \in known'
                                 /\ status'[j] = status[j]
        PROVE  QueueAlive'
    BY <1>a DEF QueueAlive, Terminal
  <1>b. \A j \in known : ~Terminal(j)' => j \in Pruned(known, status')
    BY DEF Pruned, Terminal
  <1>1. CASE Request \/ \E j \in Jobs : Settle(j)
    <2>1. ASSUME NEW j \in Jobs, Enqueue(j) PROVE QueueAlive'
      <3>1. /\ queue' = queue \cup {j} /\ known' = Pruned(known \cup {j}, status')
            /\ status' = [status EXCEPT ![j] = "queued"]
            /\ Serving' => Serving
        BY <2>1 DEF Enqueue, Serving
      <3>2. \A k \in queue' : k \in Jobs /\ (Serving => k \in known \cup {j})
        BY <3>1, <1>0 DEF QueueAlive, TypeOK
      <3>3. \A k \in queue' : Serving => status'[k] \notin TerminalStatuses
        BY <3>1, <1>0 DEF QueueAlive, Terminal, TerminalStatuses, TypeOK
      <3> QED
        BY <3>1, <3>2, <3>3 DEF QueueAlive, Pruned, Terminal
    <2>2. ASSUME NEW j \in Jobs, CancelJob(j) PROVE QueueAlive'
      BY <2>2, <1>a, <1>0 DEF CancelJob, Serving, TypeOK
    <2>3. CASE UNCHANGED <<known, queue, status, up, accepting, finalizer>>
      BY <2>3, <1>a DEF Serving
    <2> QED
      BY <1>1, <2>1, <2>2, <2>3 DEF Request, RegisterUpload, BeginQuery, FinishQuery, Settle
  <1>2. ASSUME NEW w \in Workers, WorkerStep(w) PROVE QueueAlive'
    <2>0. Aside(w)
      BY <1>2, WorkerAside
    <2>1. Serving' => Serving
      BY <2>0 DEF Aside, Serving
    <2>2. CASE Pop(w)
      BY <2>1, <2>2, <1>a, <1>0 DEF Pop, TypeOK
    <2>3. CASE PruneJobs(w)
      BY <2>1, <2>3, <1>a DEF PruneJobs, Pruned, Terminal
    <2>4. CASE SetCancelled(w) \/ SetFailed(w) \/ Finish(w) \/ GatePass(w) \/ GatePause(w)
      <3>1. cur[w] \notin queue
        BY DEF Inv, OneRunPerJob
      <3> QED
        BY <2>1, <2>4, <3>1, <1>a, <1>0
           DEF SetCancelled, SetFailed, Finish, GatePass, GatePause, TypeOK
    <2>5. CASE PopUnknown(w)
      BY <2>1, <2>5, <1>a DEF PopUnknown
    <2>6. CASE UNCHANGED <<known, queue, status>>
      BY <2>1, <2>6, <1>a
    <2> QED
      BY <1>2, <2>2, <2>3, <2>4, <2>5, <2>6
         DEF WorkerStep, Leave, NoticeCancel, Fail, Raise, Dispatch, GateTimeout,
             SaveFiles, MarkSaved, MarkIngesting, MarkPhase, AcquireIndexLock, ForcedClean,
             Ingest, MarkIngested, Work, Publish, MarkIndexed, Raised, BookInterrupted,
             MarkFailed, Unledger
  <1>3. CASE Shutdown \/ Crash \/ Restart
    <2>1. CASE ShutdownRequest
      BY <2>1, <1>a DEF ShutdownRequest, Serving
    <2>2. CASE ShutdownForce \/ ShutdownFinished \/ StopAccepting \/ Down
      BY <2>2 DEF ShutdownForce, ShutdownFinished, StopAccepting, Down, QueueAlive, Serving
    <2>3. ASSUME NEW j \in Jobs, ShutdownBookkeep(j) PROVE QueueAlive'
      BY <2>3, <1>a DEF ShutdownBookkeep, Serving
    <2>4. CASE Restart
      <3>1. known' \subseteq Jobs
        BY <2>4, ServerType DEF Inv, TypeOK
      <3> QED
        BY <2>4, <3>1 DEF Restart, QueueAlive, Terminal, TerminalStatuses
    <2> QED
      BY <1>3, <2>1, <2>2, <2>3, <2>4 DEF Shutdown, Exit, Crash
  <1>4. CASE UNCHANGED vars
    BY <1>4, <1>a DEF vars, Serving
  <1> QED
    BY <1>1, <1>2, <1>3, <1>4 DEF Next

\* A thread only leaves the pool on an empty queue.
LEMMA NextAttended ==
    ASSUME Inv, QueueAlive, Attended, [Next]_vars
    PROVE  Attended'
  <1> USE DEF memory, durable, threads, server, At
  <1>0. TypeOK
    BY DEF Inv
  <1>a. ASSUME Serving' => Serving, queue' # {} => queue # {},
               \A w \in Workers : pc'[w] = "idle" => pc[w] = "idle"
        PROVE  Attended'
    BY <1>a DEF Attended, NoStrandedQueue, Serving
  <1>1. CASE Request \/ \E j \in Jobs : Settle(j)
    <2>1. ASSUME NEW j \in Jobs, Enqueue(j) PROVE Attended'
      BY <2>1, Pool DEF Enqueue, Spawned, Attended, NoStrandedQueue
    <2>2. ASSUME NEW j \in Jobs, CancelJob(j) PROVE Attended'
      BY <2>2, <1>a DEF CancelJob, Serving
    <2>3. CASE UNCHANGED <<queue, pc, up, accepting, finalizer>>
      BY <2>3, <1>a DEF Serving
    <2> QED
      BY <1>1, <2>1, <2>2, <2>3 DEF Request, RegisterUpload, BeginQuery, FinishQuery, Settle
  <1>2. ASSUME NEW w \in Workers, WorkerStep(w) PROVE Attended'
    <2>0. Aside(w)
      BY <1>2, WorkerAside
    <2>1. Serving' => Serving
      BY <2>0 DEF Aside, Serving
    <2>2. CASE Leave(w)
      BY <2>2 DEF Leave, Attended, NoStrandedQueue
    <2>3. CASE PopUnknown(w)
      BY <2>1, <2>3 DEF PopUnknown, QueueAlive, Attended
    <2>4. CASE ~Leave(w) /\ ~PopUnknown(w)
      <3>1. pc'[w] # "idle"
        BY <1>2, <2>4, <1>0 DEF WorkerStep, Pop, NoticeCancel, CheckPoints, Fail, FailPoints,
           Raise, Dispatch, GatePass, AfterGate, Gates, GatePause, GateTimeout, SaveFiles,
           MarkSaved, MarkIngesting, MarkPhase, AcquireIndexLock, ForcedClean, Ingest,
           MarkIngested, Work, Publish, MarkIndexed, Raised, BookInterrupted, AfterInterrupt,
           SetCancelled, MarkFailed, SetFailed, Finish, Unledger, PruneJobs, Goto, TypeOK
      <3> QED
        BY <3>1 DEF Attended, NoStrandedQueue
    <2> QED
      BY <2>2, <2>3, <2>4
  <1>3. CASE Shutdown \/ Crash \/ Restart
    <2>1. CASE ShutdownRequest
      BY <2>1, <1>a DEF ShutdownRequest, Serving
    <2>2. CASE ShutdownForce \/ ShutdownFinished \/ StopAccepting \/ Down
      BY <2>2 DEF ShutdownForce, ShutdownFinished, StopAccepting, Down, Attended, Serving
    <2>3. ASSUME NEW j \in Jobs, ShutdownBookkeep(j) PROVE Attended'
      BY <2>3, <1>a DEF ShutdownBookkeep, Serving
    <2>4. CASE Restart
      BY <2>4, Pool DEF Restart, Attended, NoStrandedQueue
    <2> QED
      BY <1>3, <2>1, <2>2, <2>3, <2>4 DEF Shutdown, Exit, Crash
  <1>4. CASE UNCHANGED vars
    BY <1>4, <1>a DEF vars, Serving
  <1> QED
    BY <1>1, <1>2, <1>3, <1>4 DEF Next

\* No wakeup is lost: as long as requests are served and no shutdown has
\* cancelled by force, a queued job has a thread of the pool alive to take it.
THEOREM QueueAttended == Spec => [](Serving => NoStrandedQueue)
  <1>1. Init => QueueAlive /\ Attended
    BY DEF Init, QueueAlive, Attended, NoStrandedQueue
  <1>2. Inv /\ QueueAlive /\ Attended /\ [Next]_vars => (QueueAlive /\ Attended)'
    BY NextQueueAlive, NextAttended
  <1>3. Attended <=> (Serving => NoStrandedQueue)
    BY DEF Attended
  <1> QED
    BY <1>1, <1>2, <1>3, Invariance, PTL DEF Spec

\* A server that is never shut down gracefully, only crashes, serves whenever
\* it is up, so its queue is never stranded.
THEOREM NeverStranded ==
    ASSUME ~Stoppable
    PROVE  Spec => []NoStrandedQueue
  <1> DEFINE Up == (up => accepting) /\ finalizer = "idle"
  <1>1. Init => Up
    BY DEF Init
  <1>2. Up /\ [Next]_vars => Up'
    <2> SUFFICES ASSUME Up, [Next]_vars PROVE Up'
      OBVIOUS
    <2> USE DEF memory, durable, threads, server, Serving
    <2>1. CASE UNCHANGED <<up, accepting, finalizer>>
      BY <2>1
    <2>2. ASSUME NEW w \in Workers, WorkerStep(w) PROVE UNCHANGED <<up, accepting, finalizer>>
      BY <2>2 DEF WorkerStep, Leave, Pop, PopUnknown, NoticeCancel, Fail, Raise, Dispatch,
         GatePass, GatePause, GateTimeout, SaveFiles, MarkSaved, MarkIngesting, MarkPhase,
         AcquireIndexLock, ForcedClean, Ingest, MarkIngested, Work, Publish, MarkIndexed, Raised,
         BookInterrupted, SetCancelled, MarkFailed, SetFailed, Finish, Unledger, PruneJobs
    <2>3. CASE Request \/ \E j \in Jobs : Settle(j)
      BY <2>1, <2>3 DEF Request, RegisterUpload, Enqueue, CancelJob, BeginQuery, FinishQuery, Settle
    <2>4. CASE Shutdown
      BY <2>4 DEF Shutdown, ShutdownRequest, ShutdownForce, ShutdownBookkeep, ShutdownFinished,
                  StopAccepting, Exit, Down
    <2>5. CASE Crash \/ Restart
      BY <2>5 DEF Crash, Down, Restart
    <2> QED
      BY <2>1, <2>2, <2>3, <2>4, <2>5 DEF Next, vars
  <1>3. Up /\ (Serving => NoStrandedQueue) => NoStrandedQueue
    BY DEF NoStrandedQueue, Serving
  <1> QED
    BY <1>1, <1>2, <1>3, QueueAttended, PTL DEF Spec

=============================================================================
