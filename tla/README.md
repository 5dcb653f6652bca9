# A TLA+ model of the RAG pipeline

The repository is a retrieval-augmented chat server (FastAPI, `src/web_app.py`) over
PDF documents. Documents are uploaded, converted to Markdown, cut into records,
embedded, and kept in a LanceDB index that chats search. What is hard about it is not
the retrieval but the work around it: background threads, subprocesses and a cluster,
long jobs that crash and are resumed, edits by hand, backups, several files on disk that
have to agree, two processes that write one file, streams that are cut. The modules here
model that, TLC checks them on small instances, and TLAPS proves the safety of the job
queue, of uploads, of the index and its builder, of the categories, of the key store and of
deployments for instances of any size.

Paths below are relative to the repository; `rag_job_queue.py` is
`src/web_app_classes/rag_job_queue.py`, `local_vector_indexer.py` is in
`src/local_rag_classes/`. `PROJECT.json` maps each definition to its lines.

## 1. Inventory

| Component | State | Operations | Hard parts | What makes it correct |
|---|---|---|---|---|
| Job queue (`RagJobQueue`) | `_jobs`, `_queue`, worker threads, `_index_write_lock`, `active_query_count` | enqueue (coalescing), cancel, run phases, wait for chats, shutdown, recover | threads between every two critical sections, cancellation at any point, crash and restart | one run per job, one index writer, no lost or revived job, every job settles |
| Job ledger, PDF registry | durable records of jobs and documents | record, remove, register, mark a status, put back a replaced entry | writes apart from the job's status; a check apart from the registration | what is recorded is what recovery needs, and blocks no later upload |
| Live index | `lancedb/`, manifest, override sidecars, `db/backups/`, `.index_build_*`, `.index_rollover_*` | publish, back up, prune, restore, rebuild, repair, collect garbage | several renames per operation, each may fail or be the last before a crash | the index survives, edits survive, table and manifest match |
| Index builder (`LocalVectorIndexer`) | staged directory, checkpoint, manifest in memory, writer thread | full build with resume, incremental job | write-behind, checkpoint against table against manifest, a corpus that changes | resume skips only what is there, publish is complete |
| Vector store | one table per index | append, replace, delete, search, edit | delete-then-add is not atomic | replacing a source touches no other |
| Index overrides | two JSON sidecars per index | persist an edit, load, move with a document, clear | read-modify-write against a swap or a transfer | edits follow their document |
| Categories | membership table, one index per category | create, delete, transfer, reindex | steps over two indexes, then membership | a document is readable in some category throughout |
| Uploads | `.part` files, staging and upload directories, force tokens | chunk, status, complete, prune, multipart form, ZIP | repeated and overtaking requests, check before registration, crash between file moves | only whole files, nothing accepted is lost, nothing replaced unasked |
| Ingestion | `processed_docs/`, source map, result file | convert, skip, resume, pool, serial fallback | processes that die or hang, names shared by documents, crash between two writes | what is skipped is current, every input is accounted for |
| Assets | figures and one manifest of them | register, commit a batch, remove by source | several processes merge into one file | a figure that Markdown shows exists |
| API keys | key file, parsed copy, rate window, usage counters | authenticate, create, assign, rotate, disable, delete, permission sets, flush | two processes and a cached copy; requests in steps | every change takes effect once, on the latest state |
| Query engine, LLM clients | messages, citation labels, the stream, active host | plan, search, call tools, answer, retry, fail over | limits met in the middle, streams that are cut, two requests that fail over | labels agree, budget kept, the answer is one attempt |
| HPC backend, setup and corpus scripts | the cluster's repository, PBS jobs, PDFs, Markdown, result files | provision, deploy a corpus, poll, fetch; local batches | a connection that drops anywhere, a scheduler that forgets | success means that it succeeded; the next run can go on |
| File locks, atomic writes | lock files | acquire, time out, replace a file | going on without the lock | mutual exclusion between processes |
| Parsers, sectioning, caches, tags, configuration, web page | little or none | parse, cut, look up, print | external libraries | pure functions, or input and output |

How they interact: an HTTP handler calls the queue (`enqueue_*`, `cancel_job`) or, for
edits, deletions and categories, the index itself; a worker of the queue runs a job's
phases, calling ingestion, the builder (a subprocess for full builds, in the same process
for incremental ones) and then publish, backup or restore; a chat raises
`active_query_count`, which jobs wait for, and runs the query engine, which calls the
LLM client; every request passes the authenticator; the lifespan handler recovers jobs
from the registry and the ledger, repairs sidecars, and shuts the queue down. The setup
scripts fill `processed_docs/` from a cluster and build the first index without the queue.

## 2. Modules

| Module | Models |
|---|---|
| `JobQueue` | job queue, ledger, registry status, chats, shutdown, restart |
| `IndexStore` | publish, backup, restore, rebuild drop, edits, repair and garbage collection |
| `IndexBuild` | `index_markdown`, `index_markdown_sources`, deletion and re-ingestion of documents |
| `Corpus` | what jobs and requests do over several categories: upload, reprocess, reindex, transfer, hide, delete, categories |
| `Intake` | chunked and multipart uploads, force tokens, the registry, an upload job's files and marks |
| `Ingest` | runs of `run_ingestion`: resume check, pool, workers, parsers' choice, figures |
| `Keys`, `Access` | what the key store promises; the store with its cache, locks, requests and usage |
| `Answering` | a chat's tool rounds, labels, budget and stream, and the failover of the LLM client |
| `Deploy` | provisioning of the cluster, the first corpus, PBS jobs, the local driver |
| `JobQueueProofs` | theorems about `JobQueue` |
| `ServingProofs` | theorems about `Access`, and that it implements `Keys`; theorems about `Answering` |
| `IndexStoreProofs`, `IndexBuildProofs`, `CorpusProofs`, `IntakeProofs`, `IngestProofs`, `DeployProofs` | theorems about `IndexStore`, `IndexBuild`, `Corpus`, `Intake`, `Ingest`, `Deploy` |
| `MC*` | constant values of the instances that TLC checks |

The specifications cut the system at different depths. In `JobQueue` a phase of a job is
one action: what matters is who holds the lock and what is recorded. `IndexStore` opens
up the phase that swaps directories; an index there is an identity. `IndexBuild` opens up
the phase that fills one directory, `Corpus` the phases that work on several, `Ingest`
the conversion, `Intake` what comes before the queue and the marks that a job leaves.
Each relies on the queue for one fact: jobs that work on the index exclude each other
(`OneIndexWriter`, proved).

Common to all: bounded counters are in `count`, against constants named `Max...`
(`Answering`, which is proved about beside `Access`, has `tally` and its own names for
`Init`, `Next`, `Spec` and `Incidents`: `ChatInit`, `ChatNext`, `ChatSpec`, `Coincidences`).
Definitions marked "Mutation:" are no part of a specification; they are slips that a
property has to notice. In the six modules after `IndexBuild` the constant `Incidents`
(`Coincidences` in `Answering`) names coincidences in which the code breaks a property;
`Allowed(incident, happens)` lets a step that is one happen only if its name is in the set. The runs leave the set empty, so that each
property is checked under everything else, and one name at a time shows the disagreement
(section 3).

### JobQueue

`status`, `cancelReq`, `queue`, `known` are `QueueJob.status`, its cancel flag with the
event, `_queue` and the keys of `_jobs`; `arrival` orders the last two. `ledger`,
`registry`, `staged`, `processed` are what survives a crash. `pc` and `cur` are where a
worker is and its job. `Uploads` run the phases of `_run_upload_job`; `Builds` publish a
staged build (wait, build, wait, publish); `Direct` jobs (single sources, backups,
restores, transfers, maintenance) have one phase. `CheckPoints` are the phases after
which the code calls `_raise_if_cancelled`, `FailPoints` those that may raise.
`Lossy` lets a best-effort write fail silently. `Stoppable` lets the lifespan handler
call `shutdown_finalize`, with its grace and its forced cancellations.

Left out: a job's log, progress and options; the contents of what phases write; an
upload has one document; the retry of recovery when the registry cannot be read.

### IndexStore

Every directory has a table and a manifest, and the live one has override sidecars, one
set of edits. The moves of `_swap_index_into` are single actions in the order of the
code: park the sidecars, roll the live components over, install the new ones, put the
sidecars back, drop the rollover directory, tidy up the aside directory. Each has an action in
which it fails: a failing move raises, and `Rollback` is the handler; in the handler the
removal of a live component may fail (`ClearFails`) or the move back; the removal of a
parking directory is an `rmtree` in a `finally`, which may fail in whole or in part
(`DropFails`, `TidyFails`). After a whole installation that is `result = "untidy"`: the job
is reported as failed, and the new index is live, a finding.
`Restart` is the next start with `_repair_preserved_components` and
`_gc_staged_build_dirs`. `Faults` chooses the steps that may fail; `HardLinks` says
whether the filesystem links backups; `Overlap` whether an edit may be made during a job
in a phase where the code allows it. `Orderly` says that no failure so far has
left a swap without a way back (a move into the rollover directory, or a rollback with its removals, that
failed): the properties about a swap assume it, because the code then loses the index, a finding.
`dropped` are the edits that the repair gives up when it finds an overrides file both parked
and live, also a finding.

Left out: the two sidecars are one; a backup's copying of files inside a component; the
index caches; categories' directories, which are used like this one. Two removals of snapshots do
not fail here, as all others do: the pruning in `_prune_index_backups` and that of a half-made
snapshot in `create_index_backup`. In the code their exception ends the backup (a restore goes
on without one), and a part of the snapshot stays on the shelf.

### IndexBuild

A source is a document by the hash of its PDF; a file is a name in `processed_docs/`
with the source it was made from and a `stamp`, its `(mtime, size)` signature. The build
thread reads a file (`Prepare`), waits for the pending write, writes a checkpoint if due
and queues the next write (`Queue`); the writer thread deletes, adds and merges.
`StartFull` continues a resumable staged directory and honours the checkpoint or not.

Left out: records, vectors, counts and ANN training; overrides other than hiding all
records of a source (`Blank`); the match by file path beside the source; a Markdown file
and its source entry are written at once; a file is never overwritten while an
incremental job reads it, and during a full build only if `Overwrites` is set; a staged
directory without a checkpoint is forgotten (it is garbage collected).

### Corpus

`rows[d]` are the documents with rows in directory `d`, `raw` those whose rows were made
without their edits, `edits` the sidecars, `member` and `cats` the category registry,
`option` the category in a document's upload options, which reprocessing uses. A job goes
through `Start`, the groups of `GroupsOf` one after the other (`NextGroup`, then the
incremental or the first build of the target, `CarryEdits`, `DropCarried`,
`RemoveRows`), and `SetMembership`. Requests run beside it in steps: deleting a category
(registry, then directory) and a document (rows everywhere, then edits and membership, then
files). Any step of a job may fail or be the one after which it is cancelled (`Fail`), at
the writes of the sidecars, the removal of the old rows and the write of the memberships as
anywhere; the replacement of rows, which deletes before it adds, may be cut within a document
(`Cut`), by a failure or by a crash; and a build leaves out files that fail and goes on (`LeftOut`). A crash loses the
progress of the job, which recovery starts again.

Two history variables say what the code does not keep. `torn[d]` are the directories that a
transfer handed `d` over to (edits moved, perhaps rows removed) before it failed, was cancelled
or crashed, while the registry still names the old category; it is emptied when a transfer there ends
well or the document is indexed anew. `missed` are documents whose file failed in a build of the index they
belong to, or whose rows were cut there, until they are indexed again. In both the code does not do what it says (findings), and the properties
except these documents, by name and no others.

Left out: names and order of categories; a document is one record, an edit and a
deletion of a record are one kind of edit; only documents that have been uploaded have Markdown.

### Intake

`part`, `meta`, `client`, `wire` are the `.part` files, `_CHUNK_UPLOADS`, the browser's
loop (`web/js/upload.js`) and the chunk requests in flight, which may be repeated or
overtaken. A request is staged (hashing, unpacking), checked for duplicates
(`Check`), refused with a token or registered, and queued; then it is a job, under the same id:
`Copy` and `Unlink` for each file, the marks of the registry, the preparation of a forced
replacement, extraction and indexing. `entry[d]` is a document's registry entry with the
ones it replaced behind it. `Crash` keeps what is durable and rebuilds the jobs as
`recover_pending_uploads` does; the key of the tokens is lost.

Left out: the marks also set other entries of the same Markdown path to `superseded`
(`_supersede_same_processed_paths`, pdf_registry.py:411-436), which happens when an upload of another PDF
of the same name has overwritten the Markdown: here a document has a path of its own, and
`RegistryTrue` says nothing of one whose Markdown another has taken; sizes other than in chunks; the ledger's own recovery (in `JobQueue`); document groups; disk-space checks, which only refuse.

### Ingest

A run lists the PDFs, skips by stamp (`Start`), and hands the others to a pool or works
serially. A worker hashes, compares, removes the old figures, reads, merges the manifest
(`Commit`), writes the Markdown and the source-map entry: a step each, with failures, a
hanging parser, a process that dies and takes the pool with it, and a crash between any two. `NameOf` is
`_markdown_name_for_pdf`, whose result depends on the other inputs.

Left out: the content of Markdown, except whether it shows the figure; the result file is
written with the end of the run; a content has at most one figure.

### Keys and Access

`Keys` is abstract: one action for each administrative operation, on the whole store, at one
instant. `Access` has the file, the server's parsed copy with the signature it was read
under, the in-process and the file lock, operations that check first and write later, and
requests that read key, set and limit in separate steps. `Serialized == K!Spec` is the refinement,
with `keys` and `sets` read off the file.

Left out: labels, dates, expiry, the HTTP layer; a secret is its own hash. An administrative
operation changes the parsed copy in place, under the lock, just before it saves it
(api_key_auth.py:506-508, 522-523, 557): a request that reads the copy in that moment sees a
change that is not saved yet; here it sees only what was loaded or saved.

### Answering

A chat plans queries, searches, asks the model in rounds, executes tool calls, and
streams the answer; `msgs` is its prompt after the question, `cites` the citation
registry, `sent` what the browser has. A second client shares the hosts. Sizes are in
units of context, a search returns any chunks that it does not exclude. `Shown` is the loop
that fits finds into the prompt, one `Added` for each; `Normalized` the loop that gives
results the ids of calls, one `Paired` for each message; a call is known by its place, from
which the code mints its id. `Configured` are the hosts that a failover may use:
`OLLAMA_HOST`, when it is set, stands for the primary host of `config.toml` and not beside
it, as in `_get_ollama_candidate_hosts`; a failover overwrites it. `search[c]` is a search for a
host that is up: the list it was begun with, the hosts it has asked in this round, one
`Probe` each, between which hosts come and go and the other client fails over, and, for
the property alone, the hosts that have been up since the round began (`steady`). A host that comes up after it
was asked does not count: a request may be given up while it is up.

The reader of SoCLAaS takes any end of its stream for the end of the answer, with `[DONE]`
or without, and passes over error events: "whole" is then all that came.

Left out: scores and ranking, prompt texts, the history, model substitution, the parsing
of responses.

### Deploy

One script runs at a time, in a mode: with the repository uploaded if its manifest
differs (`"needed"`; `"force"` always uploads, which is `"needed"` with a manifest that
could not be read), not at all (`"kept"`), or on this machine (`"local"`). Each call over
ssh is an action that may fail; the activation is one call of several commands joined by
`;`, so each of them may fail and the next is run all the same (`Retire`, `Swap`), or the connection
is cut between two (`Cut`). PBS jobs go on by themselves. The local driver takes
batches, reads the result file after each and retries.

Left out: prompts, SSH aliases, installation and checks; the container image is present
or not (its version is not compared by the code either, `test -s`); `fetch_index`, which
no script calls.

## 3. Runs

Every property of a run has a mutation of the model, a plausible slip in the code, that
it must notice. Properties that end in `Sound` join the type invariant with the
invariants named in its definition that need no run of their own.

| Run | Instance | Shows |
|---|---|---|
| `queue_crash` | an upload, two equivalent reindex requests, two workers, a chat, one crash | no job runs twice, is lost, duplicated, resurrected or answered wrongly; no queued job is without a worker |
| `queue_shutdown` | a forced upload and a backup, two workers, a history of one, lossy writes, graceful shutdowns | the index lock excludes; a forced cancellation is not revived |
| `queue_live` | as `queue_crash` with one worker, under fairness | every accepted job settles, even if a chat never ends |
| `store` | four jobs of any kind, an edit, two faults anywhere or one and a crash, with and without hard links | the index and every accepted edit survive; table and manifest match; success delivers; a failed job leaves the old index live, or the new one if all that failed is a removal after it |
| `build` | three files, three sources (one blank), two jobs, one re-ingestion, one fault, one crash | checkpoints tell the truth; what is published is complete and backed by rows; incremental jobs are exact |
| `moves` | two documents, two categories besides General, three jobs, a fault of any step or file, a crash, an edit, a deletion | a document is always in a registered category, its edits with it; a transfer delivers; a deletion finds every copy |
| `upload` | a chunked file of two chunks, forms with one, two, repeated and no files, three requests, two jobs, a resend, a fault, a crash | only whole files; files and registry survive; replaced is what was agreed to |
| `keys` | a key and a fresh secret, three sets, two operations, two requests, a failed write, a crash | `Access` implements `Keys`; what was served was allowed; usage is exact |
| `context` | two chunks (one has to be cut), a web page, two rounds, three calls | labels, prompt and browser agree; budget; every call answered |
| `failover` | three hosts (one known from the environment only), two clients, two failures, two switches | one attempt of the answer without gap; given up only if no configured host was up throughout the last round of probes; the chat ends |
| `ingest` | a PDF and a nested namesake, two workers, two runs, two edits, one fault or crash | nothing stale is skipped; figures resolve; inputs accounted for; a pool ends |
| `deploy` | two PDFs, two runs in any mode, two slips of ssh, an edit, a death | manifest and repository on the cluster; success is true |

What the code gets wrong is kept out of the runs by a constant or by
an exception in the property, and can be put back by
changing it; each is described, with the text it contradicts, under "findings".

| Change | Violated | What happens |
|---|---|---|
| `queue_crash` with `Stoppable = TRUE`, `MaxHistory = 1` | `NoStrandedQueue` | a force-cancelled job is pruned while queued; the worker that pops it dies |
| `store` with `Keep = 2` | `SwapDelivers` | the safety backup prunes the backup being restored |
| `store` with `Overlap = TRUE` | `EditsKept` | an edit made during a restore is dropped |
| `store` with two edits, without `\ dropped` in `EditsKept` | `EditsKept` | the sidecars could not be put back, an edit makes a new file, and the repair leaves the parked one aside |
| `build` with `Overwrites = TRUE` | `BuildSound` (`CheckpointTrue`) | a file overwritten after it was read is skipped by a resumed build |
| `build` with `NoGhostRows` as a property | `NoGhostRows` | a rejected checkpoint's table keeps rows of removed documents |
| `build` with `MaxFaults = 2` | `PublishedComplete` | a checkpoint that cannot be removed, and a publish that fails |
| `moves` with `HiddenStaysHidden` as an invariant | `HiddenStaysHidden` | a transfer indexes hidden records before it moves the edits |
| `moves` without `torn[d] = {} =>` | `NeverInNeither`, `EditsFollow` | a transfer fails between the edits and the memberships; the next reindex prunes the document, its edits are not where the membership is |
| `moves` without `member[d] # job.to \/ torn[d] = {} =>` | `TransferDelivers` | a transfer back of such a document is skipped and succeeds |
| `moves` with `ReadableThroughout` as a property | `ReadableThroughout` | the comment of step 4 of a transfer: a file fails in the first build of the target, and its rows are removed where they were |
| `moves` without `\ missed` | `NeverInNeither`, `TransferDelivers` | a transfer builds the target without a file that fails and removes its rows |
| `store` with `"failed"` for `"untidy"` in `Spoilt` | `FailedSwapRollsBack` | the rollover directory cannot be removed after the installation |
| `moves`, `Incidents = {"stray"}` | `NeverInNeither` | an upload names another category than its document has, or gets to be indexed only after a transfer gave it another |
| `moves`, `{"drop"}`, `{"late"}` | `CorpusSound` | a category or document is deleted under a job that writes to it |
| `upload`, `{"late"}` | `WholeFiles` | a copy of the first chunk arrives after the file was pruned |
| `upload`, `{"overlap"}`, `{"undone"}` | `RegistryTrue` | a replaced entry is put back whose job has ended, or whose rows are gone |
| `upload`, `{"overlap"}` with `MaxFaults = 2` | `IntakeSound` | the entry that is put back is of a request whose files were removed; a restart makes a job of it |
| `upload`, `{"overlap"}` with `MaxFaults = 2`, `MaxUploads = 3`, `MaxTries = 6` | `OnlyAgreed` | that job replaces a version, and no user waits for it any more |
| `keys`, `{"unlocked"}`, `{"unsaved"}`, `{"blind"}`, `{"reverted"}`, `{"orphan"}` | `Serialized` | an operation works on an old, empty or unlocked state |
| `keys`, `{"moved"}` | `ServedInForce` | a request is checked against a set that its key has left |
| `context`, `{"sameid"}` | `CallsAnswered` | two calls of one response have one id |
| `ingest`, `{"reverted"}` | `SkipSound` | a PDF changes and changes back while it is read |
| `ingest`, `{"touched"}`, `{"fallback"}` | `IngestSound` | a file that a worker skipped is in no list |
| `ingest`, `{"twin"}`, `{"renamed"}` | `FiguresResolve` | a figure is removed by its content, which another document, or the Markdown of an earlier name, has too |
| `ingest`, `{"renamed"}` with `Given` only the nested PDF | `SkipSound` | an interrupted run has left the Markdown of a namesake under the name that it gets back |
| `ingest`, `{"rearmed"}` | `FiguresResolve` | a commit leaves out what its batch began with, although it was removed since |
| `deploy`, `{"blip"}`, `{"exiting"}`, `{"forgotten"}`, `{"late"}`, `{"abandoned"}`, `{"recounted"}`, `{"stale"}` | `SuccessTrue` | a failed, unseen or other job's result is taken for success |
| `deploy` with `Replaced` as an invariant | `Replaced` | the old repository cannot be moved away, the new one is moved into it, and the deployment goes on with the old code |
| `deploy`, `{"served"}`; `{"twice"}` with `MaxRuns = 3`; `{"reverted"}` with `MaxEdits = 2` | `ClusterSound` | a server starts meanwhile; both repositories are gone; the manifest of another configuration |

`FailedSwapRollsBack`, `IndexKept` and `EditsKept` except failures after which `Orderly` is
false; without that conjunct they are violated by the rollback that deletes components it never moved.
With the host of the environment counted as configured and `MaxSwitches = 4`, `failover` violates `GivenUpDown`: a failover forgets that host.

Bounds. Two equivalent requests, two workers and one crash are the least that let two
actors meet on one job; a third worker or job adds no new pair. One crash suffices
because every durable state a second crash could meet is reached by one. Three files are
the least with one in a checkpoint, one in flight and one unread; two documents and two
categories the least for a transfer from two groups, and for a document to be in the way
of another; two chunks the least that can be out of order; two operations, of two
processes, the least that can lose an update, and a second secret what a rotation needs. A namesake
in a subdirectory is the least for a name to change. Two runs of a script are the least
in which one meets what an earlier one left. One fault is a real limit of `build`, as the table says. In `store` `MaxMishaps`
bounds faults and crashes together; two faults and a crash were checked once (11.3 million states), and so was
`moves` with two faults (2.2 million), and `GivenUpDown` with four switches of hosts, as many as the
lost host of the environment takes (1.7 million, without the planner). `deploy` was also checked
with `MaxEdits = 2`, and with three runs of one document (6.1 million states), without a violation.
`MaxHistory = 500` means no pruning in the instance. Deadlock is checked in `queue_crash`, `queue_shutdown`
and `queue_live`; elsewhere the work is bounded and the system stops when it is used up.
Symmetry (of documents, sources, categories, operations, jobs) is only used in runs without liveness.

Fairness. `queue_live`: weak fairness of each worker's steps (threads are scheduled), of
the bookkeeping of an accepted cancellation, of the shutdown handler, and of the restart
after a crash (a supervisor). There is none for chats, requests or cancellations. The
watchdog `query_wait_timeout_seconds` is on, as by default; without it a chat that never
ends blocks all index jobs, which is the mutation the property has to notice.
`ingest`: weak fairness of the workers that do not hang and of the main process, whose
timeout the code sets; none for edits, failures and new runs. `failover`: weak fairness of the chat's thread and
of each client's answer, loss and single probe, since every request and every probe has a finite timeout; none
for hosts, browsers and failures.

## 4. Proofs

`JobQueueProofs` proves, for any sets of jobs and workers and any bounds, from the
assumptions that `JobQueue` names (the pool has a worker; a job is what its kind says):

- `TypeCorrect`, `IndexExclusion` (`OneIndexWriter`), `SingleRun` (`OneRunPerJob`),
  `Coalescing` (`Coalesced`), `CancelAnswered` (`CancelNeverDone`), `NoRevival`
  (`NeverRevived`), without further hypotheses;
- `SurvivesCrash` (`NothingLost`) and `StaysEnded` (`NoResurrection`) if best-effort writes
  succeed (`~Lossy`): a ledger that cannot be written has nothing to recover from. What holds of
  uploads without that hypothesis, because the registry is written before the job exists, is
  `UploadsSurvive`;
- `NeverStranded` (`NoStrandedQueue`) if there are only crashes (`~Stoppable`; with graceful
  shutdowns the property is violated, section 3), and `QueueAttended`, its form that holds
  with them: as long as the server takes requests and no shutdown has cancelled by force.

All rest on `Invariance`, `Spec => []Inv`, where `Inv` is the conjunction of

- `TypeOK`;
- `HoldsJob`: a worker holds a job exactly when it is neither idle nor at the top of its
  loop, and an upload in the phases of uploads (so that a phase acts on a job of its kind);
- `LockHeld`: a worker in a locked phase is `indexLock`. `OneIndexWriter` alone is not
  inductive: a worker takes the lock when the variable is free, which says nothing of the
  others' positions without `LockHeld`;
- `OneRunPerJob`;
- `OwnJobs`: what is queued or held was enqueued by this run of the server, and nothing is
  left when the server is down (a restart starts from nothing but the durable records);
- `StatusFollows`: cancelled jobs aside, a queued job has status `queued` and one in a
  running phase is running or paused. It is why no step of a worker revives a job that
  has ended: only a cancelled job can end under its worker, and the phases of a cancelled
  job do not set a running status any more;
- `StopsCancelled`: a shutdown ends only jobs it has asked to stop.

The proof has one step per action, and lemmas for what the helpers leave unchanged.

The later theorems add to `Inv` what relates memory and durable records. `RecordsInv`
says in which phases of its worker a job may be missing from ledger and registry
(`LetGo`: it is between its end and the end of its bookkeeping), and `Kept` that
otherwise it is there. `Booked` is the converse for a job that has ended: as long as a
record of it is left, someone is still going to remove it. `QueueAlive` and `Attended` say
that a worker outside its loop has seen an empty queue, or that there is another one: a
worker leaves in the critical section in which it has found the queue empty, and
`_enqueue` counts the living ones in its own.

`IndexStoreProofs` proves, for any set of edits and any number of jobs, failures and crashes:

- `Sound` (`StoreSound`): no table beside the manifest of another index;
- `NeitherLost` (`IndexKept`): a swap has the old or the new index among the directories that are read again;
- `RollsBack` (`FailedSwapRollsBack`): a job reported as failed leaves the old index live, or, if all
  that failed came after a whole installation, the new one; with any number of failures of
  any steps that keep `Orderly`, the removals of the parking directories included;
- `RestoreDelivers` (`SwapDelivers`), if no snapshot is pruned: `Keep` is 0 or at least the
  number of jobs. With `LANCEDB_BACKUP_KEEP = 5` that is the first five jobs; a sixth may prune the snapshot it
  restores (section 3). `Delivers`, for any `Keep`: a swap that reports success has made
  live what it took from its source;
- `NoEditLost` (`EditsKept`), if no edit is made during a job (`~Overlap`).

`RInv`, the strengthened type invariant, places the pieces: for each location of a job
which component may be in which directory, which the steps before have moved and which
are still to be moved. `Unmixed` adds that every directory with a table and a manifest has
those of one index; this is not inductive without saying, for a directory that is being
filled or emptied, of which index the rest will be. `KInv` does the same for the two indexes of a swap
(`OldKept` until the new one is complete, `NewKept` from then on), `Asked` and
`AskedFor` relate the snapshot that was requested to the shelf it is taken from, and
`EInv` follows the sidecar: it is live, in the rollover directory, or parked. The proof
of `EInv` is what showed that a second edit can be given up by the repair; the run
`store` has one edit and does not reach it.

`CorpusProofs` proves, for any documents, categories and bounds:

- `DeletionFinal` (`CorpusSound`);
- `PlaceInvariance`, and from it `NeverLost` (`NeverInNeither`) and `Delivered` (`TransferDelivers`);
- `EditsCarried` (`EditsFollow`);

all if `Incidents = {}`, that is, if nothing is deleted or edited under a job and no upload names
another category than its document has, and with any number of failures and cancellations
of any step, of files that fail and of crashes. Nothing of what a job does is assumed to
succeed: what the properties except are the documents in `torn` and `missed`, which are history
of the behaviour and not a hypothesis.

TLC shows each excluded coincidence to break a property; for `"stray"` and
`CorpusSound` it leaves open that it does not. `RInv` has what a job has still to do (`Plan`: its
own documents, by the category they are in, which no request changes meanwhile), that
categories which documents are in or jobs are for exist (`Categories`), and that nothing is left of
an unknown document (`OnlyKnown`, `Leaves`: a document that is being deleted has left
every index, and no job is for it). `PInv` says where a settled document is (`Placed`): in the
index of its category (`Home`), or in the target of the running transfer that has taken it out of where
it was (`Taken`, `Passed`). It needs `Copied`: before a transfer takes out rows, those of settled
documents are in the target, which has a manifest; and `Planned`: it writes memberships only when
all groups are done. When a job stops at any step, its `Passed` documents become `torn`
(`EndPlaced`, from `Handed`), and the others are still at home, where a cut replacement in
between makes them `missed` (`CutPlaced`). A transfer to the same target that ends well
empties `torn` again because it has copied and moved them like any other. `EInv` has the same cases for
the edits, and that those of a torn document are in one of the directories that it was handed over to, or were removed with
a deleted category (`EditsLeft`), which a repeated transfer therefore finds.
The proof of `Plan` showed that an upload which names the right category when it is
accepted may be overtaken by a transfer while it waits: four jobs, one more than the run `moves` has.
`Start` therefore looks again for the coincidence `"stray"`.

`ServingProofs` has the theorems of two modules, `Access` and `Answering`, because both
count with sums over functions and need the same lemmas about them (below). Of `Access` it
proves, for any keys, sets, changes and requests, from the assumptions
`AccessBounds` (there are finitely many operations), `AccessStore` (the identities differ, every
key of the first store has a set, the builtin sets are there) and `AccessNone` (`None` is no store):

- `Implements`: `Spec => Serialized`, that is, every step of `Access` is a step of `Keys` or
  leaves keys and sets alone. Only `Save` writes; `ModifiedIsKeysStep` shows, one operation
  at a time, that what it writes is `Issue`, `SetStatus`, `Assign`, `Revoke`, `Rotate`,
  `Define`, `Redefine` or `Drop` of the file *as it is then*, although it was computed from
  a copy that was read earlier.
- `StoreInvariant`: the invariant this needs, `IInv`: every key's set exists
  (`StoreSound`: so `_normalize` has nothing to do and loading is the identity); a copy with
  the signature of the file has its content (`CopySound`); an operation has the fields of
  its kind (`ChangesFormed`); a generated secret belongs to one operation until it is in
  the file (`NewSecrets`: so `Rotate` and `Issue` never overwrite a key); and whoever is
  about to write holds the lock and the latest file with its own change made
  (`Exclusive`). None of these is inductive alone: `CopySound` needs `StoreSound` for what
  is loaded, `Exclusive` needs `CopySound` for what is read inside the lock, and
  `StoreSound` needs `Exclusive` for what is written.
- `Served`: `Spec => []ServedInForce`, from `IInv` and `RInv`: since a request arrived, the
  file has allowed its key at least what it allows now and at least what is in the set that
  was read for it.
- `TypeCorrect`: `Spec => []TypeOK`, with every incident allowed. The invariant `TInv` needs that
  whoever is about to write has a store (`ModifiedTyped`: every operation makes a store of a
  store, also when an unreadable file was taken for an empty one), and it yields the two
  facts of `TypeOK` that are not types: an identity never has more requests in the rate
  window than its limit, and the file lock is never left with an operation that has ended.

- `CountedOnce`: `Spec => []AccessSound`, so also `UsageExact`: what was counted for a key since it
  was issued or reset is in the file, in the counter, or in the flushes under way. `UInv`
  adds what makes that inductive: only flushes of the server have taken counts
  (`DeltasFlushed`, so no other operation and no crash of the script loses any), and nothing
  is counted for a secret that is not in use, by any request, counter or flush
  (`UnusedUncounted`, so a new key starts from zero although its predecessor's counts are
  still being flushed).

`Implements`, `StoreInvariant` and `CountedOnce` assume `Incidents \subseteq {"moved"}`, `Served`
`Incidents = {}`: each of the excluded coincidences does break the refinement or what is
served (section 3), and these hypotheses are where the proofs use that it does not happen.
The run `keys` has `Incidents = {}` too, with bounds; the theorems have none on crashes,
operations, writes of the script that fail, or clients.

Of `Answering` it proves, for any chunks and sizes, pages, budget, hosts, rounds, calls,
retries and failures, from `AnsweringBounds` (finitely many chunks and pages, and numbers
in their ranges), `AnsweringHosts` (the hosts of the configuration are hosts) and `AnsweringUnset`:

- `ChatInvariant`: `ChatSpec => []ChatInv`, the conjunction of `ChatTyped` (types);
  `AskedFor` (in which phases a request is under way, who may be recovering, and how often it was
  tried); `Rounds` (what is used of rounds and calls in each phase: the forced search does not look at
  `MaxCalls`, and runs only if there was no search, hence `~searched => used <= MaxCalls` and always
  `used <= MaxCalls + 1`);
  `Counted` (queries that are not finished); `Informed` (browser and registry have as many
  sources); `Streamed`; `Replied`; and `PromptInv`.
- `SoundContext`: `ChatSpec => []ContextSound`. `PromptOK` is about messages and registry
  together: registry entries differ, labels denote their items (`LabelsOf`), no chunk is
  twice in the prompt (`OnceIn`), and the sizes fit. The invariant of the loop of `Shown` is
  `Built`, over the items taken so far: blocks of different items, under labels of a registry that
  only grew, in the room that there was. That a search shows nothing twice needs that
  everything in the prompt is cited (`LabelsOf`), since what is excluded is what is cited.
- `CallsGetTheirResults`: `ChatSpec => []CallsAnswered`, if `Coincidences = {}`. `Replied` says that
  a result stands as many places after its message as its call does in it, and which calls are open;
  then the calls that wait after n messages are those whose place is later (`Waiting`), the first of
  them of a given name, or of all, is the one that the next result is of (`WaitingInOrder`), and the
  loop pairs right at every message (`PairedIs`, `NormalizedIs`). With `"sameid"` the
  property is violated (section 3); `ChatInvariant` and the other theorems allow it.
- `WholeAnswer`: `ChatSpec => []AnswerWhole`. `Streamed` adds the part that is held back: what was
  sent and what is held back are together the first events of the attempt that streams; and a
  request that does not stream has no events, so a stream that is begun again begins with nothing sent.
- `GivenUpOnlyDown`: `ChatSpec => GivenUpDown`. A request that is recovering changes only in a
  probe of its own (`OnlyProbes`), whatever the other client does. `SearchInv` says that its list has every host
  of the configuration (`ConfiguredIs`; a failover of the other client may take the host of the
  environment out of the configuration, never put one in), and that no host asked in vain in this round has been up ever since
  the round began (`InOrder`): when the last host of the list has not answered, no host of the
  configuration is left that has.

The lemmas about sums and loops: `SumFunction` and the recursive functions of `Answering` are
defined by a CHOOSE of a function that satisfies an equation, so what they are worth
is an induction. It is done in first order, as the absence of a least counterexample:
`NoSmallest` (among the subsets of a finite set, by the well-foundedness of strict
inclusion) and `NoLeast` (among the first numbers). From these, `SumIs`, `SumType`,
`SumOfChange` and `SumOfMore` say what a sum is and how it changes with one value or
one more, `Recursion` that a sequence of steps has a function that follows it.

`IndexBuildProofs` proves, for any files, sources and bounds, from `FileNames` (file names
are ordered; `Nothing` is neither a source, a set of them nor an item) and `BuildBounds`:

- `CheckpointTrusted`: `Spec => []BuildSound`, under two hypotheses that TLC shows to be
  needed: `Overwrites = FALSE` (section 3), and `Apart`, that a publication and the removal
  of the checkpoint never both fail (otherwise a checkpoint may stay beside a table that
  was moved away).
- `PublishedRows` and `PublishedWhole`: under the same hypotheses a published index has the
  rows of every file that was not reported; and, if no write fails, `PublishedComplete`.
  With failing writes the manifest can claim a source without rows once builds are resumed
  often enough (`build` with `MaxJobs = 3` and `MaxCrashes = 2`): an entry whose write
  failed after the merge is kept by the checkpoint, and the file is then removed, or fails
  again after its rows were deleted.
- `IncrementalIsExact`: `Spec => IncrementalExact`, with no hypothesis.

They rest on `TInv`, the types with what they need: a job's files are there
(`JobSound`), no source is claimed by two files (`OneFileEach`), no file has a stamp that
is still to be given out (`StampsGiven`). `CheckpointTrue` says nothing of a build that is running, so
`BInv` adds, for a build: what it has collected is in its table and entries
(`Collecting`), every file is completed, to be read, reported, prepared or being written,
and only one of these (`Collecting`, `Accounted`), and, the key, *what an honoured
checkpoint lists has been collected*. The last makes the writer harmless: it deletes rows of a file that is not
collected, hence of no source of the checkpoint. A checkpoint that is not honoured never
becomes so later, because a file that changes gets a stamp that no checkpoint has. An
incremental job has `Replacing`: the files done so far have rows exactly if they have
records, and the one in between has none.

`IntakeProofs` proves, for any files, forms, sessions and bounds, from `IntakeBounds`,
`IntakeForms` (forms are made of files) and `IntakeNames` (`None` is no value of the model):

- `TypeCorrect`: `Spec => []TypeOK`, with every incident allowed. It needs `Issued`: the
  entries behind one another name different jobs, so there are at most `MaxUploads` of them.
- `OnlyWholeFiles` (`WholeFiles`), if `"late"` does not happen. Nothing that completes an upload looks at
  its size; the invariant `Begun` is why it is right all the same: while a `.part` file is
  there, it is not shorter than its client believes, and a client completes when it
  believes it has sent everything.
- `Sound` (`IntakeSound`) and `Agreement` (`OnlyAgreed`), if `"overlap"` does not happen.
  `RInv` says who owns the registry: a request that has registered owns the first entry of each of its
  documents, with a status that fits its step (`Heads`); who is on its way is brought by the
  job its entry names (`Brought`), with the PDF in one of its directories (`Filed`); an entry has at most
  one behind it, which is not on its way (`Stacked`). That makes recovery right,
  which knows nothing but the registry: where it finds an entry behind another, the
  request was a forced one, and so its user had agreed.
- `RegistryIsTrue` (`RegistryTrue`), if neither `"overlap"` nor `"undone"` happens. `There` adds what is
  behind a status: the first entry is true, the one behind it stays true until the old
  version is removed, and between a step and its mark the job has what the mark
  will say, because no other job prepares a replacement of its documents.

`DeployProofs` proves, for any PDFs, versions of the source, runs, failing calls, stops and
dying jobs, from `DeployInputs` (there are finitely many PDFs; `None` is not a value of
the model) and `DeployBounds`:

- `TypeCorrect`: `Spec => []Shape`, with every coincidence allowed. Besides the types, `Shape` has
  what each step relies on (`Place`): there is a staged repository while one is verified
  and activated, with its image; what is packed and deployed is there when it is compared and updated.
- `ClusterIsSound` (`ClusterSound`), if none of `"reverted"`, `"twice"` and `"served"` happens. `CInv`
  adds to `Shape`, for each repository on the cluster, that its manifest is of its source and of
  its `config.toml`, or of one older than the working tree's (`Current`, which needs the same of the
  archive, the staged repository and the manifest that the script has computed, since each is
  put in place several calls after it was made), where the repository is between the two
  moves of an activation (`Kept`), and that the preflight keeps its meaning (`Alone`).
- `SuccessIsTrue` (`SuccessTrue`), if none of the other seven happens (`Trusted`). `DInv` follows a job from
  its submission: its input has the run's PDFs, no other job is live, its result lists its
  input (`Hired`), it is over and has succeeded before anything is fetched
  (`Fetched`); and, in local mode, every PDF is here, reported, given up, or still the driver's (`Batches`).

Each excluded coincidence breaks its property (section 3).

`IngestProofs` proves, for any files, contents, engines, workers, runs, edits, failures and
crashes, from `IngestInputs` and `IngestNames` (two PDFs of the top directory have two
stems, as names in one directory differ and all end in `.pdf`; `None` is no value of the model):

- `TypeCorrect`: `Spec => []TypeOK`, with every incident allowed. `TInv` adds what a worker
  has at each of its steps (`Working`), that stamps are in the past (`Stamped`), and that
  nobody overwrites Markdown between its writing and its entry (`Wrote`); this rests on the lemma
  `NameDiffer`: two files of one run have two names.
- `Sound` (`IngestSound`), if a PDF never gets a content that something still has, and no
  pool breaks while files are handed to it (`Quiet`: not `"reverted"`, `"touched"`, `"twin"`, `"fallback"`). A worker must not
  find its file unchanged, since what it then reports is in no list. `QInv` says why it does
  not: a hash that a PDF has now is of that PDF, with its stamp, in every entry and every worker (`Hashes`, `Holds`),
  so what the stamp did not settle, the hash does not settle either (`Due`, `NotFound`).
- `NothingStale` (`SkipSound`), if moreover not `"renamed"`. `NInv` adds that an entry which
  matches a PDF under its name has Markdown of its content (`Current`), and, so that a
  worker may write Markdown before the entry and be killed in between, that the entry it
  is going to replace matches no PDF of that name (`DueName`).
- `FiguresStay` (`FiguresResolve`), if moreover not `"rearmed"`. `FInv` follows a figure from `Read` to the
  entry: it is in the batch (`Saved`), then in the manifest (`Kept`); no open batch would add
  again (`Left`), and no other worker removes (`Alone`, `Cleaned`), what is shown. `Grows` is why a merge never removes: a
  batch only adds.

Each excluded incident breaks one of the three properties (section 3). `"touched"` and `"fallback"` break
only the other two, `"fallback"` only `IngestSound`: TLC finds no violation of `SkipSound` with
them, and the proof, which goes by `QInv`, excludes them all the same. The proof of `DueName`
showed that `"renamed"` has to include a name whose entry matches by its stamp, and that of
`Left` showed the incident `"rearmed"`, which no run had reached.

Only model-checked: liveness (`EveryJobSettles`, `RunEnds`, `ChatEnds`), since fairness and ENABLED are
outside the prover. Every invariant and every action property of the runs has a theorem.

## 5. Not modelled, and the plan

Not modelled for good: text extraction and layout, sectioning (pure functions of text),
scores, re-ranking and prompt texts, ANN training and compaction, the LRU caches (one
critical section each), trust records and tags (only ranking reads them; the race of an
automatic tag is a finding), configuration, console, logging, setup prompts, SSH aliases
and dependency checks.

Not modelled yet: the countdown of a shutdown or an update from the web page and the
helper process that restarts the server; document groups; the running counts of the
manifest; model substitution and embedding batches; the library of file locks beyond what
`Access` uses of it; `check_connections`.

In this order:

1. `CorpusSound` as a theorem with `"stray"`, and `SkipSound` with `"touched"` and `"fallback"`.
2. An abstract life of a job (requested, running, ended) and of an index (a current
   content that changes in one step), with `JobQueue` and `IndexStore` shown to implement
   them.
3. The update and restart helper, and document groups in `Intake`.
4. Pure algorithms against reference definitions: chunking with overlap, manifest totals,
   the parts of batches.
