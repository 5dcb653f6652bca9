------------------------------- MODULE Deploy -------------------------------
(***************************************************************************)
(* Getting a first corpus into the index. In hpc mode the setup script     *)
(* deploys the repository on a cluster, sends the PDFs there, has a PBS job *)
(* parse them, fetches the Markdown and builds the index here; the local   *)
(* driver parses batch by batch on this machine instead.                   *)
(*                                                                         *)
(* Every call over ssh is a step and may fail; the script may be stopped   *)
(* between any two. The cluster goes on by itself: a job that nobody waits *)
(* for runs to its end.                                                    *)
(*                                                                         *)
(* A definition under a comment "Mutation:" is no part of the              *)
(* specification: it is the next definition with a slip in it that the     *)
(* properties have to notice.                                              *)
(***************************************************************************)
EXTENDS Naturals, FiniteSets

CONSTANTS
    Docs,        \* PDFs
    Versions,    \* the states of the source tree, and of config.toml
    Modes,       \* how a corpus is deployed: "force", "needed", "kept", "local"
    Retries,     \* --chunk-retries
    None,
    Incidents,   \* bound: the coincidences that may happen, see below
    MaxRuns,     \* bound: runs of a script
    MaxSlips,    \* bound: calls over ssh, or parts of one, that fail, and stops
    MaxEdits,    \* bound: edits of the working tree, starts of the web server
    MaxDeaths    \* bound: PBS jobs and local processes that die

Manifests == [source : Versions, config : Versions]
Repos == [source : Versions, config : Versions \cup {0},
          manifest : Manifests \cup {None}, image : BOOLEAN]
Results == [good : SUBSET Docs, failed : SUBSET Docs, abrupt : BOOLEAN]

ASSUME DeployInputs == IsFiniteSet(Docs) /\ None \notin Manifests \cup Repos \cup Results
ASSUME DeployBounds ==
    /\ Versions \subseteq Nat \ {0} /\ 1 \in Versions
    /\ Modes \subseteq {"force", "needed", "kept", "local"}
    /\ {Retries, MaxRuns, MaxSlips, MaxEdits, MaxDeaths} \subseteq Nat
    \* blip:      ssh fails while the state of a live job, or the exit code of a
    \*            job that failed, is asked for
    \* exiting:   a failed job is seen before its exit code is recorded
    \* forgotten: a failed job leaves the history before it is asked about
    \* late:      the scheduler does not list a new job for three polls
    \* abandoned: a job is submitted while one of an earlier run is live
    \* reverted:  an edit of config.toml is taken back
    \* twice:     an activation is cut off when the one before it was
    \* served:    the web server is started while a corpus is deployed
    \* recounted: a batch is retried that had got somewhere
    \* stale:     a local process dies before it has written its result, and
    \*            there is an earlier one
    /\ Incidents \subseteq {"blip", "exiting", "forgotten", "late", "abandoned",
                            "reverted", "twice", "served", "recounted", "stale"}

VARIABLES
    pc, mode, zip,  \* the script: its next step, its mode, the PDFs it is given
    packed,         \* the archive: the source and the config.toml in it
    claim,          \* the manifest of the working tree that it compares
    mine,           \* the PBS job that it waits for
    missing, seen,  \* the polls that did not find the job; has one found it?
    driver,         \* the local driver: its batches and what it counts
    told,           \* the PDFs it has reported as failed
    outcome,        \* how the last run ended
    source, config, \* the working tree
    home,           \* the PDFs with Markdown here
    homeResult,     \* .ingest_result.json here
    index,          \* the PDFs in the index
    server,         \* does the web server run?
    target,         \* the repository on the cluster
    previous,       \* .rag-setup-previous
    staged,         \* the repository in .rag_setup_X
    data,           \* the PDFs on the cluster
    parsed,         \* those with Markdown there
    result,         \* .ingest_result.json there
    jobs,           \* the PBS jobs
    deployed,       \* history: a repository has been activated
    count           \* the bounded counters

script  == <<pc, mode, zip, packed, claim, told, outcome>>
waiting == <<mine, missing, seen>>
tree    == <<source, config>>
here    == <<home, homeResult, index>>
repos   == <<target, previous, staged, deployed>>
corpus  == <<data, parsed, result>>
vars == <<script, waiting, driver, tree, here, server, repos, corpus, jobs, count>>

NoDriver == [rest |-> {}, batch |-> {}, good |-> 0, attempts |-> 0, stalled |-> {}]
NoJob    == [state |-> "none", exit |-> 0, input |-> {}, good |-> {}, failed |-> {}]

Allowed(incident, happens) == happens => incident \in Incidents
Tick(counter, bound) == count[counter] < bound /\ count' = [count EXCEPT ![counter] = @ + 1]
Slip == Tick("slips", MaxSlips)

-----------------------------------------------------------------------------
(* The steps of a script. *)

\* main: an error ends the run with a message.
Fails ==
    /\ pc' = "idle" /\ outcome' = "failed"
    /\ mode' = None /\ zip' = {} /\ told' = {} /\ packed' = None /\ claim' = None

Goto(next) == pc' = next /\ UNCHANGED <<mode, zip, packed, claim, told, outcome>>

Succeeds ==
    /\ pc' = "idle" /\ outcome' = "ok"
    /\ mode' = None /\ UNCHANGED <<zip, packed, claim, told>>

\* The wait for a job is over.
Waited == missing' = 0 /\ seen' = FALSE

\* _main of the setup script, and the local driver: build_batches gives every PDF
\* a name of its own.
Start(m, z) ==
    /\ pc = "idle"
    /\ Tick("runs", MaxRuns)
    /\ mode' = m /\ zip' = z
    /\ pc' = CASE m = "kept" -> "preflight" [] m = "local" -> "batch" [] OTHER -> "pack"
    /\ told' = {} /\ outcome' = "none"
    /\ mine' = 0 /\ missing' = 0 /\ seen' = FALSE
    /\ driver' = [NoDriver EXCEPT !.rest = IF m = "local" THEN z ELSE {}]
    /\ UNCHANGED <<packed, claim, tree, here, server, repos, corpus, jobs>>

\* Ctrl-C: what is on the cluster goes on. The steps of a staging end as if their
\* call had failed, see below.
Stop ==
    /\ pc \notin {"idle", "upload", "image", "verify", "retire", "swap", "link", "clean",
                  "cleanup"}
    /\ Slip
    /\ Fails /\ Waited
    /\ mine' = 0 /\ driver' = NoDriver
    /\ UNCHANGED <<tree, here, server, repos, corpus, jobs>>

EditSource(v) ==
    /\ v # source /\ Tick("edits", MaxEdits)
    /\ source' = v
    /\ UNCHANGED <<script, waiting, driver, config, here, server, repos, corpus, jobs>>

EditConfig(v) ==
    /\ v # config /\ Tick("edits", MaxEdits)
    /\ Allowed("reverted", v < config)
    /\ config' = v
    /\ UNCHANGED <<script, waiting, driver, source, here, server, repos, corpus, jobs>>

StartServer ==
    /\ ~server /\ Tick("edits", MaxEdits)
    /\ Allowed("served", pc # "idle")
    /\ server' = TRUE
    /\ UNCHANGED <<script, waiting, driver, tree, here, repos, corpus, jobs>>

StopServer ==
    /\ server /\ server' = FALSE
    /\ UNCHANGED <<script, waiting, driver, tree, here, repos, corpus, jobs, count>>

-----------------------------------------------------------------------------
(* Provisioning: provision_hpc_servers, provision_hpc_cluster. *)

Manifest == [source |-> source, config |-> config]

\* create_repository_archive: the manifest is in the archive.
Pack ==
    /\ pc = "pack"
    /\ packed' = Manifest /\ claim' = claim
    /\ pc' = "compare"
    /\ UNCHANGED <<mode, zip, told, outcome, waiting, driver, tree, here, server, repos,
                   corpus, jobs, count>>

\* The source that is deployed is the one that is here, config.toml aside.
SourceCurrent == target # None /\ target.manifest # None /\ target.manifest.source = source

\* Nothing is uploaded, or config.toml alone, or everything; a call that fails
\* counts as a difference.
Compare ==
    /\ pc = "compare"
    /\ claim' = Manifest
    /\ \/ /\ pc' = CASE mode = "force" \/ ~SourceCurrent -> "upload"
                     [] target.manifest = Manifest -> "preflight"
                     [] OTHER -> "config"
          /\ UNCHANGED count
       \/ pc' = "upload" /\ Slip
    /\ UNCHANGED <<mode, zip, packed, told, outcome, waiting, driver, tree, here, server,
                   repos, corpus, jobs>>

\* Mutation: the manifest goes first.
SyncManifestFirst ==
    /\ pc = "config"
    /\ \/ target' = [target EXCEPT !.manifest = claim] /\ Goto("manifest") /\ UNCHANGED count
       \/ target' = [target EXCEPT !.manifest = claim] /\ Fails /\ Slip
    /\ UNCHANGED <<waiting, driver, tree, here, server, previous, staged, deployed, corpus, jobs>>

\* _sync_config_only. Without rsync, an upload that is cut off leaves a part of
\* the file in its place (version 0).
SyncConfig ==
    /\ pc = "config"
    /\ \/ target' = [target EXCEPT !.config = config] /\ Goto("manifest") /\ UNCHANGED count
       \/ \E c \in {target.config, 0} :
              target' = [target EXCEPT !.config = c] /\ Fails /\ Slip
    /\ UNCHANGED <<waiting, driver, tree, here, server, previous, staged, deployed, corpus, jobs>>

SyncManifest ==
    /\ pc = "manifest"
    /\ \/ target' = [target EXCEPT !.manifest = claim] /\ Goto("preflight") /\ UNCHANGED count
       \/ \E m \in {target.manifest, None} :
              target' = [target EXCEPT !.manifest = m] /\ Fails /\ Slip
    /\ UNCHANGED <<waiting, driver, tree, here, server, previous, staged, deployed, corpus, jobs>>

\* A step of the staging over ssh; after a failure only the cleanup is left.
Remote(at, next) ==
    /\ pc = at
    /\ \/ Goto(next) /\ UNCHANGED count
       \/ Goto("cleanup") /\ Slip
    /\ UNCHANGED <<waiting, driver, tree, here, server, corpus, jobs>>

\* A stage directory of this run's own gets the archive, extracted.
Upload ==
    /\ Remote("upload", "image")
    /\ staged' = IF pc' = "image"
                   THEN [source |-> packed.source, config |-> packed.config,
                         manifest |-> packed, image |-> FALSE]
                   ELSE None
    /\ UNCHANGED <<target, previous, deployed>>

\* The container image: the deployed one if it is the same, else uploaded or built.
Image ==
    /\ Remote("image", "verify")
    /\ staged' = [staged EXCEPT !.image = (pc' = "verify")]
    /\ UNCHANGED <<target, previous, deployed>>

Verify == Remote("verify", "retire") /\ staged.image /\ UNCHANGED repos

\* The activation is one command line of several parts; losing the connection
\* may end it after any of them. count.cuts: since the last one that succeeded.
Cut ==
    /\ count.slips < MaxSlips
    /\ Allowed("twice", count.cuts > 0)
    /\ count' = [count EXCEPT !.slips = @ + 1, !.cuts = @ + 1]
    /\ Goto("cleanup")

\* rm -rf PREVIOUS; if [ -e TARGET ]; then mv TARGET PREVIOUS; fi
\* The parts are joined by ";": after one that fails the next is run. The target
\* may so stay where it is, or be moved into a previous one that could not be
\* removed.
Retire ==
    /\ pc = "retire"
    /\ \/ previous' = target /\ target' = None /\ Goto("swap") /\ UNCHANGED count
       \/ previous' \in {previous, None} /\ target' = target /\ Goto("swap") /\ Slip
       \/ previous # None /\ previous' = previous /\ target' = None /\ Goto("swap") /\ Slip
       \/ previous' \in {previous, None} /\ target' = target /\ Cut
    /\ UNCHANGED <<waiting, driver, tree, here, server, staged, deployed, corpus, jobs>>

\* mv STAGED TARGET; ln -sfn TARGET LINK; test -s IMAGE
\* A target that stayed is not replaced: the staged repository is moved into it,
\* and the test finds the image of the old one.
Swap ==
    /\ pc = "swap"
    /\ \/ target' = (IF target = None THEN staged ELSE target)
          /\ staged' = None /\ deployed' = TRUE /\ Goto("link")
          /\ count' = [count EXCEPT !.cuts = 0]
       \/ UNCHANGED <<target, staged, deployed>> /\ Cut
    /\ UNCHANGED <<waiting, driver, tree, here, server, previous, corpus, jobs>>

Link == Remote("link", "clean") /\ UNCHANGED repos

\* finally: the stage directory is removed, if the cluster can be reached.
Cleanup ==
    /\ pc \in {"clean", "cleanup"}
    /\ \/ staged' = None /\ UNCHANGED count
       \/ staged' = staged /\ Slip
    /\ IF pc = "clean" THEN Goto("preflight") ELSE Fails
    /\ UNCHANGED <<waiting, driver, tree, here, server, target, previous, deployed, corpus, jobs>>

-----------------------------------------------------------------------------
(* The corpus on the cluster: run_initial_corpus, HpcBackend.              *)

\* The vision key, the local Ollama, no web server.
Preflight ==
    /\ pc = "preflight" /\ ~server
    /\ pc' = "push" /\ packed' = None /\ claim' = None
    /\ UNCHANGED <<mode, zip, told, outcome, waiting, driver, tree, here, server, repos, corpus, jobs, count>>

PreflightFails ==
    /\ pc = "preflight" /\ (server \/ count.slips < MaxSlips)
    /\ IF server THEN UNCHANGED count ELSE Slip
    /\ Fails
    /\ UNCHANGED <<waiting, driver, tree, here, server, repos, corpus, jobs>>

\* push_corpus_dir: nothing that is on the cluster already is removed.
Push ==
    /\ pc = "push"
    /\ \/ data' = data \cup zip /\ Goto("submit") /\ UNCHANGED count
       \/ \E some \in SUBSET zip : data' = data \cup some /\ Fails /\ Slip
    /\ UNCHANGED <<waiting, driver, tree, here, server, repos, parsed, result, jobs>>

Live(k) == jobs[k].state \in {"new", "queued", "running"}

\* _write_remote_pbs_script, _qsub: a call that times out may have queued the job.
Submit ==
    /\ pc = "submit" /\ target # None
    /\ Allowed("abandoned", \E k \in DOMAIN jobs : Live(k))
    /\ \/ /\ UNCHANGED count
          /\ jobs' = [jobs EXCEPT ![count.runs].state = "new"]
          /\ mine' = count.runs
          /\ Goto("poll")
       \/ /\ Slip
          /\ jobs' = [jobs EXCEPT ![count.runs].state = "new"]
          /\ mine' = mine
          /\ Fails
    /\ UNCHANGED <<missing, seen, driver, tree, here, server, repos, corpus>>

\* There is no repository to submit from, or the call does not get through.
SubmitFails ==
    /\ pc = "submit"
    /\ IF target = None THEN UNCHANGED count ELSE Slip
    /\ Fails
    /\ UNCHANGED <<waiting, driver, tree, here, server, repos, corpus, jobs>>

\* parse_qstat_job_state: "E" and "F" end the wait.
Finished(k) == jobs[k].state \in {"exiting", "ended"}
Listed(k)   == jobs[k].state \in {"queued", "running", "exiting", "ended"}

\* A poll that does not find the job: it is over if one has found it before, or
\* if this is the third.
NotFound ==
    IF seen \/ missing = 2
      THEN Goto("exit") /\ Waited
      ELSE Goto("poll") /\ missing' = missing + 1 /\ seen' = seen

\* _await_job, _query_job
Poll ==
    /\ pc = "poll"
    /\ \/ Finished(mine) /\ Goto("exit") /\ Waited
       \/ /\ Listed(mine) /\ ~Finished(mine)
          /\ seen' = TRUE /\ missing' = 0
          /\ Goto("poll")
       \/ /\ ~Listed(mine)
          /\ NotFound
          /\ Allowed("late", pc' = "exit" /\ Live(mine))
    /\ UNCHANGED <<mine, driver, tree, here, server, repos, corpus, jobs, count>>

\* ssh itself fails, which looks the same as a job that is not listed.
PollBlip ==
    /\ pc = "poll" /\ Slip
    /\ NotFound
    /\ Allowed("blip", pc' = "exit" /\ Live(mine))
    /\ UNCHANGED <<mine, driver, tree, here, server, repos, corpus, jobs>>

\* HpcError: a call takes too long. The job goes on.
PollTimeout ==
    /\ pc = "poll" /\ Slip
    /\ Fails /\ Waited /\ mine' = 0
    /\ UNCHANGED <<driver, tree, here, server, repos, corpus, jobs>>

\* Mutation: the exit code is not looked at.
ReadExitUnread ==
    /\ pc = "exit"
    /\ Goto("fetch")
    /\ UNCHANGED <<waiting, driver, tree, here, server, repos, corpus, jobs, count>>

\* _job_exit_code, submit_ingest_index: an exit code that is not known is taken
\* for a success.
ReadExit ==
    /\ pc = "exit"
    /\ \/ /\ jobs[mine].state = "ended"
          /\ IF jobs[mine].exit = 0 THEN Goto("fetch") ELSE Fails
          /\ UNCHANGED count
       \/ /\ jobs[mine].state # "ended"
          /\ Allowed("exiting", jobs[mine].state = "exiting" /\ jobs[mine].exit # 0)
          /\ Goto("fetch")
          /\ UNCHANGED count
       \/ /\ Slip
          /\ Allowed("blip", jobs[mine].exit # 0)
          /\ Goto("fetch")
    /\ UNCHANGED <<waiting, driver, tree, here, server, repos, corpus, jobs>>

\* fetch_processed_docs: what is here already stays.
Fetch ==
    /\ pc = "fetch"
    /\ \/ home' = home \cup parsed /\ homeResult' = result /\ Goto("check") /\ UNCHANGED count
       \/ /\ \E some \in SUBSET parsed : home' = home \cup some
          /\ homeResult' \in {homeResult, result}
          /\ Fails /\ Slip
    /\ UNCHANGED <<waiting, driver, tree, index, server, repos, corpus, jobs>>

\* _verify_fetched_corpus: the failures that the result lists are reported, and
\* only a corpus without any Markdown is refused.
Check ==
    /\ pc = "check"
    /\ told' = IF homeResult = None THEN {} ELSE homeResult.failed
    /\ IF home = {} /\ (homeResult = None \/ homeResult.good = {})
         THEN pc' = "idle" /\ outcome' = "failed"
         ELSE pc' = "index" /\ outcome' = outcome
    /\ UNCHANGED <<mode, zip, packed, claim, waiting, driver, tree, here, server, repos,
                   corpus, jobs, count>>

\* main.py --mode index
Index ==
    /\ pc = "index"
    /\ \/ index' = home /\ Succeeds /\ UNCHANGED count
       \/ index' = index /\ Fails /\ Slip
    /\ UNCHANGED <<waiting, driver, tree, home, homeResult, server, repos, corpus, jobs>>

\* --skip-index-build, --skip-index
SkipIndex ==
    /\ pc = "index" /\ Succeeds
    /\ UNCHANGED <<waiting, driver, tree, here, server, repos, corpus, jobs, count>>

-----------------------------------------------------------------------------
(* The scheduler and the job: generate_pbs_script, bulk_ingest.            *)

OfTheJob(k) ==
    /\ k \in DOMAIN jobs
    /\ UNCHANGED <<script, waiting, driver, tree, here, server, repos, data>>

JobListed(k) ==
    /\ OfTheJob(k) /\ jobs[k].state = "new"
    /\ jobs' = [jobs EXCEPT ![k].state = "queued"]
    /\ UNCHANGED <<parsed, result, count>>

\* It looks for PDFs once; those with Markdown are skipped.
JobStarts(k) ==
    /\ OfTheJob(k) /\ jobs[k].state = "queued"
    /\ jobs' = [jobs EXCEPT ![k].state = "running", ![k].input = data,
                            ![k].good = data \cap parsed]
    /\ UNCHANGED <<parsed, result, count>>

Ahead(k) == jobs[k].input \ (jobs[k].good \cup jobs[k].failed)

JobParses(k, d) ==
    /\ OfTheJob(k) /\ jobs[k].state = "running" /\ d \in Ahead(k)
    /\ \/ jobs' = [jobs EXCEPT ![k].good = @ \cup {d}] /\ parsed' = parsed \cup {d}
       \/ jobs' = [jobs EXCEPT ![k].failed = @ \cup {d}] /\ parsed' = parsed
    /\ UNCHANGED <<result, count>>

\* The result is written before a run without any success is made to fail.
JobEnds(k) ==
    /\ OfTheJob(k) /\ jobs[k].state = "running" /\ Ahead(k) = {}
    /\ result' = [good |-> jobs[k].good, failed |-> jobs[k].failed, abrupt |-> FALSE]
    /\ jobs' = [jobs EXCEPT ![k].state = "exiting",
                            ![k].exit = IF jobs[k].good = {} /\ jobs[k].input # {} THEN 1 ELSE 0]
    /\ UNCHANGED <<parsed, count>>

\* The walltime, the memory limit, a container that does not start.
JobKilled(k) ==
    /\ OfTheJob(k) /\ jobs[k].state = "running"
    /\ Tick("deaths", MaxDeaths)
    /\ jobs' = [jobs EXCEPT ![k].state = "exiting", ![k].exit = 1]
    /\ UNCHANGED <<parsed, result>>

JobRecorded(k) ==
    /\ OfTheJob(k) /\ jobs[k].state = "exiting"
    /\ jobs' = [jobs EXCEPT ![k].state = "ended"]
    /\ UNCHANGED <<parsed, result, count>>

\* The history is dropped.
JobForgotten(k) ==
    /\ OfTheJob(k) /\ jobs[k].state = "ended"
    /\ Allowed("forgotten", k = mine /\ jobs[k].exit # 0)
    /\ jobs' = [jobs EXCEPT ![k].state = "forgotten"]
    /\ UNCHANGED <<parsed, result, count>>

-----------------------------------------------------------------------------
(* The local driver: local_corpus_ingest.py.                               *)

\* The next batch, in a process of its own.
TakeBatch ==
    /\ pc = "batch" /\ driver.rest # {}
    /\ \E b \in (SUBSET driver.rest) \ {{}} :
           driver' = [driver EXCEPT !.rest = @ \ b, !.batch = b, !.good = 0, !.attempts = 0]
    /\ Goto("ingest")
    /\ UNCHANGED <<waiting, tree, here, server, repos, corpus, jobs, count>>

\* abrupt_failures: some worker has died.
Abrupt == homeResult # None /\ homeResult.abrupt
Good   == IF homeResult = None THEN 0 ELSE Cardinality(homeResult.good)

\* What comes after a run of the batch: a retry, or the next batch; a batch that
\* has counted fewer PDFs than it has is kept for the end.
Judged(failed) ==
    LET good  == driver.good + Good'
        again == failed /\ Abrupt' /\ driver.attempts < Retries
    IN  /\ driver' = [driver EXCEPT !.good = good, !.attempts = @ + 1,
                         !.stalled = IF ~again /\ Cardinality(driver.batch) > good
                                       THEN @ \cup driver.batch ELSE @]
        /\ Allowed("recounted", again /\ good > 0)
        /\ Goto(IF again THEN "ingest" ELSE "batch")

\* run_ingest_chunk: PDFs with Markdown are skipped; the result lists the others
\* as processed or failed.
Ingest ==
    /\ pc = "ingest"
    /\ \E new \in SUBSET (driver.batch \ home), abrupt \in BOOLEAN :
           LET failed == driver.batch \ (home \cup new) IN
           /\ abrupt => failed # {}
           /\ home' = home \cup new
           /\ homeResult' = [good |-> driver.batch \ failed, failed |-> failed,
                             abrupt |-> abrupt]
           /\ Judged(failed # {})
    /\ UNCHANGED <<waiting, tree, index, server, repos, corpus, jobs, count>>

\* The process itself dies, and the result of the one before it is read again.
IngestDies ==
    /\ pc = "ingest"
    /\ Tick("deaths", MaxDeaths)
    /\ Allowed("stale", homeResult # None)
    /\ \E new \in SUBSET (driver.batch \ home) : home' = home \cup new
    /\ homeResult' = homeResult
    /\ Judged(TRUE)
    /\ UNCHANGED <<waiting, tree, index, server, repos, corpus, jobs>>

\* The PDFs of the batches that fell short, one process for each; a failure is
\* reported.
PerFile(d) ==
    /\ pc = "batch" /\ driver.rest = {} /\ d \in driver.stalled
    /\ driver' = [driver EXCEPT !.stalled = @ \ {d}]
    /\ \/ home' = home \cup {d} /\ told' = told
       \/ d \notin home /\ home' = home /\ told' = told \cup {d}
    /\ homeResult' = [good |-> {d} \ told', failed |-> {d} \cap told', abrupt |-> FALSE]
    /\ UNCHANGED <<pc, mode, zip, packed, claim, outcome, waiting, tree, index, server,
                   repos, corpus, jobs, count>>

BatchesDone ==
    /\ pc = "batch" /\ driver.rest = {} /\ driver.stalled = {}
    /\ driver' = NoDriver
    /\ Goto("index")
    /\ UNCHANGED <<waiting, tree, here, server, repos, corpus, jobs, count>>

-----------------------------------------------------------------------------
Init ==
    /\ pc = "idle" /\ mode = None /\ zip = {} /\ told = {} /\ outcome = "none"
    /\ source = 1 /\ config = 1
    /\ packed = None /\ claim = None
    /\ mine = 0 /\ missing = 0 /\ seen = FALSE /\ driver = NoDriver
    /\ home = {} /\ homeResult = None /\ index = {} /\ server = FALSE
    /\ target = None /\ previous = None /\ staged = None /\ deployed = FALSE
    /\ data = {} /\ parsed = {} /\ result = None
    /\ jobs = [k \in 1 .. MaxRuns |-> NoJob]
    /\ count = [runs |-> 0, slips |-> 0, cuts |-> 0, edits |-> 0, deaths |-> 0]

ScriptStep ==
    \/ Pack \/ Compare \/ SyncConfig \/ SyncManifest
    \/ Upload \/ Image \/ Verify \/ Retire \/ Swap \/ Link \/ Cleanup
    \/ Preflight \/ PreflightFails \/ Push \/ Submit \/ SubmitFails
    \/ Poll \/ PollBlip \/ PollTimeout \/ ReadExit \/ Fetch \/ Check \/ Index \/ SkipIndex
    \/ TakeBatch \/ Ingest \/ IngestDies \/ BatchesDone
    \/ \E d \in Docs : PerFile(d)

JobStep(k) ==
    \/ JobListed(k) \/ JobStarts(k) \/ JobEnds(k)
    \/ JobKilled(k) \/ JobRecorded(k) \/ JobForgotten(k)
    \/ \E d \in Docs : JobParses(k, d)

Next ==
    \/ \E m \in Modes, z \in (SUBSET Docs) \ {{}} : Start(m, z)
    \/ Stop \/ StartServer \/ StopServer
    \/ \E v \in Versions : EditSource(v) \/ EditConfig(v)
    \/ ScriptStep
    \/ \E k \in DOMAIN jobs : JobStep(k)

Spec == Init /\ [][Next]_vars

-----------------------------------------------------------------------------
(* Properties *)

\* A repository; config.toml is partial in version 0.
IsRepo(r) ==
    /\ r.source \in Versions /\ r.config \in Versions \cup {0} /\ r.image \in BOOLEAN
    /\ r.manifest # None => r.manifest.source \in Versions /\ r.manifest.config \in Versions

\* The shape of the state; only a repository with its image is activated.
TypeOK ==
    /\ \A r \in {target, previous, staged} \ {None} : IsRepo(r)
    /\ \A r \in {target, previous} \ {None} : r.image
    /\ source \in Versions /\ config \in Versions /\ zip \subseteq Docs
    /\ outcome \in {"none", "ok", "failed"} /\ missing \in 0 .. 2
    /\ parsed \subseteq data
    /\ \A k \in DOMAIN jobs : jobs[k].good \subseteq parsed /\ jobs[k].input \subseteq data
    /\ driver.attempts \in 0 .. Retries + 1

\* A manifest that equals the working tree's stands for a repository that does:
\* an upload is skipped only when there is nothing to upload, whatever calls
\* failed before (provision_hpc_cluster, _sync_config_only).
ManifestTrue ==
    target # None /\ target.manifest = Manifest =>
        target.source = source /\ target.config = config

\* From the first activation on the cluster has a whole repository, in its place,
\* set aside or about to be moved there, wherever the connection is lost.
RepoKept ==
    deployed => target # None \/ previous # None \/ (pc = "swap" /\ staged # None)

\* The index is not built in place under a running server (run_initial_corpus).
BuildAlone == pc = "index" /\ mode # "local" => ~server

\* The cluster and this machine are sound wherever a call fails or the script stops.
ClusterSound == TypeOK /\ ManifestTrue /\ RepoKept /\ BuildAlone

\* The docstring of _cluster_corpus_dirs: "provisioning atomically replaces the repo
\* directory". It need not: when the old repository cannot be moved away, the new
\* one is moved into it, and the activation ends well.
Replaced == pc = "clean" => target.manifest = packed

\* A deployment that reports success leaves each PDF it was given with Markdown
\* here or reported as failed, and its PBS job over and successful
\* (submit_ingest_index, _verify_fetched_corpus, local_corpus_ingest.main).
SuccessTrue ==
    outcome = "ok" =>
        /\ zip \subseteq home \cup told
        /\ mine # 0 => ~Live(mine) /\ jobs[mine].exit = 0
=============================================================================
