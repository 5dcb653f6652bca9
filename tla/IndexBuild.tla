----------------------------- MODULE IndexBuild -----------------------------
(***************************************************************************)
(* How the vector index is built from the processed Markdown files (class  *)
(* LocalVectorIndexer): the full build in a staged directory, which writes *)
(* one file behind the one it prepares, leaves checkpoints and is resumed  *)
(* after a crash; the incremental jobs on the live directory; and the      *)
(* corpus that changes around them.                                        *)
(*                                                                         *)
(* A source, which the code names by the hash of its PDF, stands for its   *)
(* records and their vectors. A directory has a table and a manifest, the  *)
(* sets of the sources with rows and with an entry, and a checkpoint. A    *)
(* file has the source it was made from and a stamp, the (mtime, size)     *)
(* signature of that version.                                              *)
(*                                                                         *)
(* A definition under a comment "Mutation:" is no part of the              *)
(* specification: it is the next definition with a slip in it that the     *)
(* properties have to notice.                                              *)
(***************************************************************************)
EXTENDS Naturals, FiniteSets

CONSTANTS
    Files,       \* names of Markdown files; glob() sorts them
    Sources,
    Blank,       \* the sources without records, or with all of them deleted by hand
    Overwrites,  \* bound: may a file be overwritten while a build runs?
    Faults,      \* the steps that may fail
    MaxFaults,   \* bound: such failures
    MaxIngests,  \* bound: ingestions of a file, the initial ones aside
    MaxJobs,     \* bound: indexing jobs
    MaxCrashes,  \* bound: crashes during a job
    Nothing

ASSUME FileNames ==
    /\ Files \subseteq Nat /\ Blank \subseteq Sources
    /\ Nothing \notin Sources /\ \A ss \in SUBSET Sources : ss # Nothing
    /\ \A item \in [file : Files, source : Sources] : item # Nothing
ASSUME BuildBounds ==
    /\ Overwrites \in BOOLEAN
    /\ MaxFaults \in Nat /\ MaxIngests \in Nat /\ MaxJobs \in Nat /\ MaxCrashes \in Nat
    /\ Faults \subseteq {"preflight", "read", "write", "unlink", "publish", "replace"}

VARIABLES
    corpus,        \* processed_docs/: the source of each file that is there
    stamp,         \* the signature of each file that is there
    ingests,       \* the last stamp given out
    live, staged,  \* durable: the directories
    pc,            \* what the job does next
    where,         \* the directory the job works on
    requested,     \* the sources an incremental job is for
    names, todo,   \* the files found at the start, those still to be read
    held,          \* the file that is prepared, with what was read of it
    inflight,      \* the file whose write is pending, with its records
    writer,        \* progress of that write
    done,          \* completed_file_names
    entries,       \* the manifest in memory
    processed,     \* processed_files
    reported,      \* the files of index_errors
    jobs, faults, crashes

corpusVars == <<corpus, stamp, ingests>>
dirs       == <<live, staged>>
loop       == <<names, todo, held, inflight, writer>>
progress   == <<done, entries, processed, reported>>
counts     == <<jobs, faults, crashes>>
vars       == <<corpusVars, dirs, pc, where, requested, loop, progress, counts>>

NoDir  == [table |-> Nothing, manifest |-> Nothing, checkpoint |-> Nothing]

Present == {f \in Files : corpus[f] # Nothing}
SourcesOf(fs) == {corpus[f] : f \in fs}
First(fs) == CHOOSE f \in fs : \A g \in fs : f <= g
Read(f) == [file |-> f, source |-> corpus[f]]

Dir == IF where = "staged" THEN staged ELSE live
Store(d) == IF where = "staged" THEN staged' = d /\ UNCHANGED live
                                ELSE live' = d /\ UNCHANGED staged

\* A failure that the bounds allow.
Fault(kind) ==
    /\ kind \in Faults
    /\ faults < MaxFaults /\ faults' = faults + 1
    /\ UNCHANGED <<jobs, crashes>>

\* The process of the job is gone, with what it had in memory.
Gone ==
    /\ pc' = "idle" /\ where' = "live" /\ requested' = {}
    /\ names' = {} /\ todo' = {} /\ held' = Nothing /\ inflight' = Nothing /\ writer' = "idle"
    /\ done' = {} /\ entries' = {} /\ processed' = 0 /\ reported' = {}

-----------------------------------------------------------------------------
\* Some files are in the corpus, and the live index has them, or is none yet.
Init ==
    /\ corpus \in {c \in [Files -> Sources \cup {Nothing}] :
                    \A f, g \in Files : c[f] = c[g] => f = g \/ c[f] = Nothing}
    /\ stamp = [f \in Files |-> 0]
    /\ LET rows == SourcesOf(Present) \ Blank
       IN  live \in {NoDir, [NoDir EXCEPT !.table = rows, !.manifest = rows]}
    /\ ingests = 0
    /\ staged = NoDir
    /\ pc = "idle" /\ where = "live" /\ requested = {}
    /\ names = {} /\ todo = {} /\ held = Nothing /\ inflight = Nothing /\ writer = "idle"
    /\ done = {} /\ entries = {} /\ processed = 0 /\ reported = {}
    /\ jobs = 0 /\ faults = 0 /\ crashes = 0

-----------------------------------------------------------------------------
(* The corpus.                                                             *)

\* Another job ingests a document; this needs no index lock. A document of
\* the same file name that was there is overwritten.
Ingest(f, s) ==
    /\ s \notin SourcesOf(Present)
    /\ corpus[f] = Nothing \/ pc = "idle" \/ (Overwrites /\ where = "staged")
    /\ ingests < MaxIngests /\ ingests' = ingests + 1
    /\ corpus' = [corpus EXCEPT ![f] = s]
    /\ stamp' = [stamp EXCEPT ![f] = ingests']
    /\ UNCHANGED <<dirs, pc, where, requested, loop, progress, counts>>

\* The rows of s leave the live table.
Rowless(s) == [live EXCEPT !.table = IF @ = Nothing THEN @ ELSE @ \ {s}]

\* delete_pdf_document, which is refused while an indexing job runs: the rows,
\* the manifest entry if there were rows, and the Markdown. The manifest is
\* created if there is none.
Remove(f) ==
    /\ pc = "idle"
    /\ f \in Present
    /\ corpus' = [corpus EXCEPT ![f] = Nothing]
    /\ LET s == corpus[f]
           manifest == IF live.manifest = Nothing THEN {} ELSE live.manifest
       IN  live' = IF live.table = Nothing \/ s \notin live.table THEN live
                   ELSE [Rowless(s) EXCEPT !.manifest = manifest \ {s}]
    /\ UNCHANGED <<stamp, ingests, staged, pc, where, requested, loop, progress, counts>>

\* _prepare_for_forced_duplicates, before the document is ingested again, with
\* the index lock: the Markdown and the rows.
Discard(f) ==
    /\ pc = "idle"
    /\ f \in Present
    /\ corpus' = [corpus EXCEPT ![f] = Nothing]
    /\ live' = Rowless(corpus[f])
    /\ UNCHANGED <<stamp, ingests, staged, pc, where, requested, loop, progress, counts>>

-----------------------------------------------------------------------------
(* The full build: index_markdown.                                         *)

\* _find_resumable_staged_dir
Resumable == staged.checkpoint # Nothing /\ staged.checkpoint.done # {}

\* Mutation: only the names are compared.
AcceptedByName(cp, fs) == cp.done \subseteq fs

\* The checkpoint is honoured when its files are all there and unchanged.
Accepted(cp, fs) ==
    /\ cp.done \subseteq fs
    /\ \A f \in cp.done : cp.signatures[f] = stamp[f]

\* From the checkpoint cp, or from scratch.
Begin(fs, cp, honoured) ==
    /\ names' = fs
    /\ done' = IF honoured THEN cp.done ELSE {}
    /\ todo' = fs \ done'
    /\ entries' = IF honoured THEN cp.entries ELSE {}
    /\ processed' = IF honoured THEN cp.processed ELSE 0
    /\ reported' = {}
    /\ held' = Nothing /\ inflight' = Nothing /\ writer' = "idle"
    /\ pc' = "files"

\* append_records([]) makes a table only if there is none.
WithTable(d) == [d EXCEPT !.table = IF @ = Nothing THEN {} ELSE @]

\* A reindex or rebuild job: in the directory of a build that can be resumed,
\* or in a new one.
StartFull ==
    /\ pc = "idle"
    /\ Present # {}
    /\ jobs < MaxJobs /\ jobs' = jobs + 1
    /\ where' = "staged" /\ requested' = {}
    /\ staged' = WithTable(IF Resumable THEN staged ELSE NoDir)
    /\ Begin(Present, staged.checkpoint,
             Resumable /\ Accepted(staged.checkpoint, Present))
    /\ UNCHANGED <<corpusVars, live, faults, crashes>>

\* _preflight_embeddings fails before anything is written.
PreflightFails ==
    /\ pc = "idle"
    /\ Fault("preflight")
    /\ staged' = IF Resumable THEN staged ELSE NoDir
    /\ UNCHANGED <<corpusVars, live, pc, where, requested, loop, progress>>

\* A file without records is complete at once.
SkipBlank ==
    /\ pc = "files" /\ held = Nothing /\ todo # {}
    /\ LET f == First(todo) IN
         /\ corpus[f] \in Blank
         /\ todo' = todo \ {f} /\ done' = done \cup {f}
    /\ processed' = processed + 1
    /\ UNCHANGED <<corpusVars, dirs, pc, where, requested, names, held, inflight,
                   writer, entries, reported, counts>>

\* A file is read, sectioned and embedded while the last one is written.
Prepare ==
    /\ pc = "files" /\ held = Nothing /\ todo # {}
    /\ LET f == First(todo) IN
         /\ corpus[f] \notin Blank
         /\ todo' = todo \ {f} /\ held' = Read(f)
    /\ UNCHANGED <<corpusVars, dirs, pc, where, requested, names, inflight, writer,
                   progress, counts>>

\* This fails: the file is skipped.
ReadFails ==
    /\ pc = "files" /\ held = Nothing /\ todo # {}
    /\ Fault("read")
    /\ todo' = todo \ {First(todo)} /\ reported' = reported \cup {First(todo)}
    /\ UNCHANGED <<corpusVars, dirs, pc, where, requested, names, held, inflight,
                   writer, done, entries, processed>>

\* Mutation: the file counts as completed when its write is queued.
CollectedEarly ==
    /\ writer \in {"idle", "merged", "failed"}
    /\ done' = done \cup (IF held = Nothing THEN {} ELSE {held.file})
    /\ reported' = IF writer = "failed" THEN reported \cup {inflight.file} ELSE reported

\* The result of the pending write is collected.
Collected ==
    /\ writer \in {"idle", "merged", "failed"}
    /\ done' = IF writer = "merged" THEN done \cup {inflight.file} ELSE done
    /\ reported' = IF writer = "failed" THEN reported \cup {inflight.file} ELSE reported

\* _write_checkpoint, when one is due and its write succeeds.
Checkpoint == [done |-> done', signatures |-> [f \in done' |-> stamp[f]],
               entries |-> entries, processed |-> processed]

\* The pending write is awaited, a checkpoint written, the next write queued.
Queue ==
    /\ pc = "files" /\ held # Nothing
    /\ Collected
    /\ \E due \in BOOLEAN :
         IF due THEN Store([Dir EXCEPT !.checkpoint = Checkpoint]) ELSE UNCHANGED dirs
    /\ inflight' = held /\ writer' = "queued" /\ held' = Nothing
    /\ processed' = processed + 1
    /\ UNCHANGED <<corpusVars, pc, where, requested, names, todo, entries, counts>>

\* The writer thread: replace_records_by_source_hash deletes and adds, then
\* merge_records.
WriterDeletes ==
    /\ writer = "queued" /\ writer' = "deleted"
    /\ Store([Dir EXCEPT !.table = @ \ {inflight.source}])
    /\ UNCHANGED <<corpusVars, pc, where, requested, names, todo, held, inflight,
                   progress, counts>>

WriterAdds ==
    /\ writer = "deleted" /\ writer' = "added"
    /\ Store([Dir EXCEPT !.table = @ \cup {inflight.source}])
    /\ UNCHANGED <<corpusVars, pc, where, requested, names, todo, held, inflight,
                   progress, counts>>

WriterMerges ==
    /\ writer = "added" /\ writer' = "merged"
    /\ entries' = entries \cup {inflight.source}
    /\ UNCHANGED <<corpusVars, dirs, pc, where, requested, names, todo, held, inflight,
                   done, processed, reported, counts>>

\* A step of the write fails; merge_records may have got as far as the entry.
WriterFails ==
    /\ writer \in {"queued", "deleted", "added"} /\ writer' = "failed"
    /\ Fault("write")
    /\ \/ UNCHANGED entries
       \/ writer = "added" /\ entries' = entries \cup {inflight.source}
    /\ UNCHANGED <<corpusVars, dirs, pc, where, requested, names, todo, held, inflight,
                   done, processed, reported>>

\* The last write is flushed.
Flush ==
    /\ pc = "files" /\ todo = {} /\ held = Nothing
    /\ Collected
    /\ inflight' = Nothing /\ writer' = "idle"
    /\ pc' = "manifest"
    /\ UNCHANGED <<corpusVars, dirs, where, requested, names, todo, held, entries,
                   processed, counts>>

WriteManifest ==
    /\ pc = "manifest" /\ pc' = "unlink"
    /\ Store([Dir EXCEPT !.manifest = entries])
    /\ UNCHANGED <<corpusVars, where, requested, loop, progress, counts>>

\* The checkpoint is removed, best-effort.
Unlink ==
    /\ pc = "unlink" /\ pc' = "end"
    /\ Store([Dir EXCEPT !.checkpoint = Nothing])
    /\ UNCHANGED <<corpusVars, where, requested, loop, progress, counts>>

UnlinkFails ==
    /\ pc = "unlink" /\ pc' = "end"
    /\ Fault("unlink")
    /\ UNCHANGED <<corpusVars, dirs, where, requested, loop, progress>>

\* A staged build that has processed a file is published.
End ==
    /\ pc = "end" /\ pc' = "publish"
    /\ processed # 0 /\ where = "staged"
    /\ UNCHANGED <<corpusVars, dirs, where, requested, loop, progress, counts>>

\* One that has not, fails; one in the live directory is what it was for.
EndsHere ==
    /\ pc = "end"
    /\ processed = 0 \/ where = "live"
    /\ Gone
    /\ UNCHANGED <<corpusVars, dirs, counts>>

\* _publish_staged_index: the table and the manifest replace the live ones.
Publish ==
    /\ pc = "publish"
    /\ live' = [staged EXCEPT !.checkpoint = live.checkpoint]
    /\ staged' = NoDir
    /\ Gone
    /\ UNCHANGED <<corpusVars, counts>>

\* It fails before the swap, or is rolled back; the staged directory stays.
PublishFails ==
    /\ pc = "publish"
    /\ Fault("publish")
    /\ \E moved \in {{}, {"table"}, {"table", "manifest"}} :
         staged' = [part \in DOMAIN staged |-> IF part \in moved THEN Nothing ELSE staged[part]]
    /\ Gone
    /\ UNCHANGED <<corpusVars, live>>

\* The job is cancelled: the subprocess is killed, its directory removed.
Cancel ==
    /\ pc # "idle" /\ where = "staged"
    /\ staged' = NoDir
    /\ Gone
    /\ UNCHANGED <<corpusVars, live, counts>>

-----------------------------------------------------------------------------
(* Incremental jobs: index_markdown_sources.                               *)

FilesOf(rs) == {f \in Present : corpus[f] \in rs}

\* Into an index that does not exist yet, the files are built like a full
\* build, but in the live directory and without a resumption.
StartFirst(rs) ==
    /\ pc = "idle"
    /\ jobs < MaxJobs /\ jobs' = jobs + 1
    /\ live.table = Nothing
    /\ FilesOf(rs) # {}
    /\ where' = "live" /\ requested' = rs
    /\ live' = WithTable(live)
    /\ Begin(FilesOf(rs), live.checkpoint, FALSE)
    /\ UNCHANGED <<corpusVars, staged, faults, crashes>>

\* Otherwise the index must have a manifest.
StartIncremental(rs) ==
    /\ pc = "idle"
    /\ jobs < MaxJobs /\ jobs' = jobs + 1
    /\ live.table # Nothing /\ live.manifest # Nothing
    /\ where' = "live" /\ requested' = rs
    /\ names' = FilesOf(rs) /\ todo' = names'
    /\ held' = Nothing /\ inflight' = Nothing /\ writer' = "idle"
    /\ pc' = "replace"
    /\ UNCHANGED <<corpusVars, dirs, progress, faults, crashes>>

\* The rows of a source are deleted, and added if it has any.
ReplaceDeletes ==
    /\ pc = "replace" /\ held = Nothing /\ todo # {}
    /\ held' = Read(First(todo))
    /\ Store([Dir EXCEPT !.table = @ \ {held'.source}])
    /\ UNCHANGED <<corpusVars, pc, where, requested, names, todo, inflight, writer,
                   progress, counts>>

ReplaceAdds ==
    /\ pc = "replace" /\ held # Nothing
    /\ Store([Dir EXCEPT !.table = @ \cup ({held.source} \ Blank)])
    /\ todo' = todo \ {held.file} /\ held' = Nothing
    /\ UNCHANGED <<corpusVars, pc, where, requested, names, inflight, writer,
                   progress, counts>>

\* The job fails on an exception, before or between the two.
ReplaceFails ==
    /\ pc = "replace" /\ todo # {}
    /\ Fault("replace")
    /\ Gone
    /\ UNCHANGED <<corpusVars, dirs>>

\* The requested sources without a file lose their rows.
DeleteMissing ==
    /\ pc = "replace" /\ todo = {}
    /\ Store([Dir EXCEPT !.table = @ \ (requested \ SourcesOf(names))])
    /\ pc' = "update"
    /\ UNCHANGED <<corpusVars, where, requested, loop, progress, counts>>

\* Mutation: only the sources that were found are updated.
UpdateFound ==
    /\ pc = "update"
    /\ Store([Dir EXCEPT !.manifest = (@ \ SourcesOf(names)) \cup (SourcesOf(names) \ Blank)])
    /\ Gone
    /\ UNCHANGED <<corpusVars, counts>>

\* update_index_manifest_sources
UpdateManifest ==
    /\ pc = "update"
    /\ Store([Dir EXCEPT !.manifest = (@ \ requested) \cup (SourcesOf(names) \ Blank)])
    /\ Gone
    /\ UNCHANGED <<corpusVars, counts>>

-----------------------------------------------------------------------------
\* The subprocess, or the server with it, dies.
Crash ==
    /\ pc # "idle"
    /\ crashes < MaxCrashes /\ crashes' = crashes + 1
    /\ Gone
    /\ UNCHANGED <<corpusVars, dirs, jobs, faults>>

JobStep ==
    \/ StartFull \/ PreflightFails
    \/ SkipBlank \/ Prepare \/ ReadFails \/ Queue
    \/ WriterDeletes \/ WriterAdds \/ WriterMerges \/ WriterFails
    \/ Flush \/ WriteManifest \/ Unlink \/ UnlinkFails \/ End \/ EndsHere
    \/ Publish \/ PublishFails \/ Cancel
    \/ \E rs \in (SUBSET Sources) \ {{}} : StartFirst(rs) \/ StartIncremental(rs)
    \/ ReplaceDeletes \/ ReplaceAdds \/ ReplaceFails \/ DeleteMissing \/ UpdateManifest

Next ==
    \/ \E f \in Files : Remove(f) \/ Discard(f) \/ \E s \in Sources : Ingest(f, s)
    \/ JobStep
    \/ Crash

Spec == Init /\ [][Next]_vars

-----------------------------------------------------------------------------
(* Properties.                                                             *)

DirType(d) ==
    /\ d.table \in (SUBSET Sources) \cup {Nothing}
    /\ d.manifest \in (SUBSET Sources) \cup {Nothing}
    /\ d.checkpoint # Nothing =>
         /\ d.checkpoint.done \subseteq Files /\ d.checkpoint.entries \subseteq Sources
         /\ d.checkpoint.processed \in Nat

\* The state of a build is what LocalVectorIndexer declares; what a failure is
\* attributed to is a file.
TypeOK ==
    /\ corpus \in [Files -> Sources \cup {Nothing}] /\ stamp \in [Files -> 0..MaxIngests]
    /\ DirType(live) /\ DirType(staged)
    /\ pc \in {"idle", "files", "manifest", "unlink", "end", "publish", "replace", "update"}
    /\ where \in {"live", "staged"} /\ requested \subseteq Sources
    /\ names \subseteq Files /\ todo \subseteq Files
    /\ {held, inflight} \subseteq [file : Files, source : Sources] \cup {Nothing}
    /\ writer \in {"idle", "queued", "deleted", "added", "merged", "failed"}
    /\ done \subseteq Files /\ reported \subseteq Files /\ entries \subseteq Sources
    /\ processed \in Nat

\* "a file recorded in the checkpoint is guaranteed to have its LanceDB rows +
\* manifest entry", and resume "never skips a file that should be (re)processed":
\* when a resumed build would honour the checkpoint, what its files are made
\* from is in the table it continues, and in the entries it starts with.
CheckpointTrue ==
    Resumable /\ Accepted(staged.checkpoint, Present) =>
        SourcesOf(staged.checkpoint.done) \ Blank
            \subseteq staged.table \cap staged.checkpoint.entries

\* The state of a build, and a checkpoint that a resumed build can trust.
BuildSound == TypeOK /\ CheckpointTrue

Published == pc = "publish" /\ pc' = "idle" /\ live' # live

\* A staged index that _publish_staged_index makes live has the rows of every
\* file the build found, but for those whose failure it reported, and its
\* manifest does not claim a source without rows.
PublishedComplete ==
    [][Published =>
         /\ \A f \in names \ reported : corpus[f] \in live'.table \cup Blank
         /\ live'.manifest \subseteq live'.table]_vars

\* When an incremental job has ended well, the sources it was for have rows, and
\* an entry, exactly if they have a file with records, and no other source has
\* lost or won any.
IncrementalExact ==
    [][pc = "update" /\ pc' = "idle" /\ crashes' = crashes =>
         LET found == SourcesOf(names) \ Blank IN
         /\ live'.table \cap requested = found
         /\ live'.manifest \cap requested = found
         /\ live'.manifest \ requested = live.manifest \ requested]_vars

\* "checkpoint present but inputs changed; starting a fresh build": what is
\* published has no rows of a source that the corpus no longer has.
NoGhostRows ==
    [][Published => live'.table \subseteq SourcesOf(names)]_vars

=============================================================================
