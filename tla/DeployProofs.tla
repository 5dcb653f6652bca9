---------------------------- MODULE DeployProofs ----------------------------
(***************************************************************************)
(* Theorems about Deploy, for any PDFs, versions and bounds.               *)
(*                                                                         *)
(* CInv is about the repository on the cluster, its manifest and the web   *)
(* server, DInv about what a run delivers: the job that it waits for, the  *)
(* result it fetches, the batches it counts. Each names the coincidences   *)
(* of Deploy that it does not survive, and TLC shows what each does.       *)
(***************************************************************************)
EXTENDS Deploy, TLAPS, FiniteSetTheorems

-----------------------------------------------------------------------------
(* The invariants.                                                         *)

\* The steps of a run, in groups.
Staging   == {"image", "verify", "retire", "swap"}
Sending   == {"push", "submit", "poll", "exit", "fetch", "check"}
Packing   == {"pack", "compare", "upload", "config", "manifest", "link", "clean", "cleanup",
              "preflight"} \cup Staging
Local     == {"batch", "ingest"}

\* A PBS job.
JobRecords ==
    [state : {"none", "new", "queued", "running", "exiting", "ended", "forgotten"},
     exit : 0 .. 1, input : SUBSET Docs, good : SUBSET Docs, failed : SUBSET Docs]

\* The counters, and the driver's state.
Counts == [runs : 0 .. MaxRuns, slips : Nat, cuts : Nat, edits : Nat, deaths : Nat]
Drivers ==
    [rest : SUBSET Docs, batch : SUBSET Docs, good : Nat, attempts : 0 .. Retries + 1,
     stalled : SUBSET Docs]

\* The type invariant: the script, its job, its batches, its counters, this
\* machine with the repositories, and the cluster.
Script ==
    /\ pc \in {"idle", "index"} \cup Packing \cup Sending \cup Local
    /\ zip \subseteq Docs /\ told \subseteq Docs
    /\ outcome \in {"none", "ok", "failed"}
    /\ packed \in Manifests \cup {None} /\ claim \in Manifests \cup {None}
Waiting == mine \in 0 .. MaxRuns /\ missing \in 0 .. 2 /\ seen \in BOOLEAN
Driven == driver \in Drivers /\ (pc = "ingest" => driver.attempts <= Retries)
Counted == count \in Counts /\ (pc # "idle" => count.runs > 0)
Trees ==
    /\ source \in Versions /\ config \in Versions
    /\ home \subseteq Docs /\ homeResult \in Results \cup {None} /\ index \subseteq Docs
    /\ server \in BOOLEAN
    /\ target \in Repos \cup {None} /\ previous \in Repos \cup {None}
    /\ staged \in Repos \cup {None}
    /\ deployed \in BOOLEAN
Cluster ==
    /\ data \subseteq Docs /\ parsed \subseteq data /\ result \in Results \cup {None}
    /\ jobs \in [1 .. MaxRuns -> JobRecords]
    /\ \A k \in 1 .. MaxRuns : jobs[k].good \subseteq parsed /\ jobs[k].input \subseteq data

\* What each step of a run relies on.
Place ==
    /\ pc \in {"compare", "upload"} => packed # None
    /\ pc \in {"config", "manifest"} => target # None /\ claim # None
    /\ pc \in Staging => staged # None
    /\ pc \in {"retire", "swap"} => staged.image
    /\ \A r \in {target, previous} \ {None} : r.image
    /\ pc \in Packing \cup Sending => mode # "local"
    /\ pc \in Local => mode = "local"

Shape == Script /\ Waiting /\ Driven /\ Counted /\ Trees /\ Cluster /\ Place

-----------------------------------------------------------------------------
(* The invariant for the cluster.                                          *)

\* A manifest is of the source that it lies beside, and of a config.toml that is
\* not newer than the working tree's: the one that lies beside it, unless a
\* newer one has been sent since.
Current ==
    /\ \A r \in {target, staged} \ {None} :
           r.manifest # None => r.manifest.source = r.source /\ r.manifest.config <= config
    /\ packed # None => packed.config <= config
    /\ staged # None => staged.manifest # None /\ staged.config = staged.manifest.config
    /\ target # None /\ target.manifest # None =>
           target.config = target.manifest.config \/ target.manifest.config < config
    /\ pc \in {"config", "manifest"} => claim.source = target.source /\ claim.config <= config
    /\ pc = "config" /\ target.manifest # None => target.manifest.config < claim.config
    /\ pc = "manifest" =>
           /\ target.config = claim.config \/ claim.config < config
           /\ target.manifest # None => target.manifest.config < claim.config

\* A repository is in its place, except between the two moves of an activation,
\* and then it is set aside; a second cut is what loses it.
Kept ==
    deployed =>
        /\ target # None \/ previous # None \/ pc = "swap"
        /\ count.cuts = 0 /\ pc # "swap" => target # None
        /\ count.cuts = 0 /\ pc = "swap" => target # None \/ previous # None

\* From the preflight on no server runs beside a deployment from the cluster.
Alone == pc \in Sending \cup {"index"} /\ mode # "local" => ~server

-----------------------------------------------------------------------------
(* The invariant for what a deployment delivers.                           *)

\* No call hides how the run's own job ended, no other job is live when one is
\* submitted, and no batch is counted from the result of another run.
Trusted ==
    Incidents \cap {"blip", "exiting", "forgotten", "late", "abandoned", "recounted", "stale"} = {}

\* The steps before a run has a job, and the states of a job that is over.
Early == Packing \cup {"push", "submit"}
Over  == {"exiting", "ended", "forgotten"}
\* The job k brings this run's PDFs: its input has them, its result lists its
\* input, and no other job may overwrite the result.
Alike(k) ==
    /\ jobs[k].state # "none"
    /\ jobs[k].state \in {"running"} \cup Over => zip \subseteq jobs[k].input
    /\ jobs[k].state = "forgotten" => jobs[k].exit = 0
    /\ jobs[k].state \in Over /\ jobs[k].exit = 0 =>
           /\ jobs[k].input \subseteq jobs[k].good \cup jobs[k].failed
           /\ result # None /\ result.failed = jobs[k].failed
    /\ \A l \in DOMAIN jobs : l # k => ~Live(l)

\* A run has no job before it submits one.
Fresh ==
    /\ pc \in Early \cup Local => mine = 0
    /\ pc \in Early => jobs[count.runs] = NoJob
    /\ \A k \in DOMAIN jobs : k > count.runs => jobs[k] = NoJob
\* From then on it has one that brings its PDFs ...
Hired ==
    /\ pc = "submit" => zip \subseteq data
    /\ pc \in {"poll", "exit", "fetch", "check"} => mine # 0
    /\ mine # 0 => zip \subseteq data /\ Alike(mine)
\* ... which is over when the run goes on, and successful when it fetches.
Fetched ==
    /\ pc \in {"exit", "fetch", "check"} => ~Live(mine)
    /\ pc \in {"fetch", "check"} => jobs[mine].exit = 0
    /\ pc = "check" => homeResult # None /\ zip \subseteq home \cup homeResult.failed
\* When the script comes to the index, each PDF is here or reported.
Arrives ==
    /\ outcome = "ok" => pc = "idle"
    /\ pc = "index" \/ outcome = "ok" =>
           /\ zip \subseteq home \cup told
           /\ mine # 0 => ~Live(mine) /\ jobs[mine].exit = 0
\* The driver still has every PDF that is neither here nor reported; a batch that
\* is tried again has counted nothing.
Batches ==
    /\ pc \in Local =>
           zip \subseteq driver.rest \cup driver.stalled \cup home \cup told
                         \cup (IF pc = "ingest" THEN driver.batch ELSE {})
    /\ pc = "ingest" => driver.batch # {} /\ driver.good = 0

-----------------------------------------------------------------------------
(* Counters and sizes *)

\* The bounds are naturals, and a version is never 0.
LEMMA Bounds ==
    /\ Retries \in Nat /\ MaxRuns \in Nat /\ MaxSlips \in Nat /\ MaxEdits \in Nat /\ MaxDeaths \in Nat
    /\ Versions \subseteq Nat /\ 1 \in Versions /\ 0 \notin Versions
BY DeployBounds

\* Tick counts one thing and nothing else.
LEMMA Ticked ==
    ASSUME Shape, NEW c \in {"runs", "slips", "edits", "deaths"}, NEW b \in Nat,
           Tick(c, b), c = "runs" => b = MaxRuns
    PROVE  /\ count' \in Counts
           /\ c # "runs" => count'.runs = count.runs /\ count'.cuts = count.cuts
           /\ c = "runs" => count'.runs = count.runs + 1 /\ count'.cuts = count.cuts
BY Bounds DEF Shape, Counted, Counts, Tick

\* A call that fails.
LEMMA Slipped ==
    Shape /\ Slip => count' \in Counts /\ count'.runs = count.runs /\ count'.cuts = count.cuts
BY Ticked, Bounds DEF Slip

\* A connection that is lost during an activation.
LEMMA CutOff ==
    Shape /\ Cut => count' \in Counts /\ count'.runs = count.runs /\ count'.cuts = count.cuts + 1
<1> SUFFICES ASSUME Shape, Cut
    PROVE count' \in Counts /\ count'.runs = count.runs /\ count'.cuts = count.cuts + 1
  OBVIOUS
<1>1. count' = [runs |-> count.runs, slips |-> count.slips + 1, cuts |-> count.cuts + 1,
                edits |-> count.edits, deaths |-> count.deaths]
  BY DEF Cut, Shape, Counted, Counts
<1> QED
  BY <1>1 DEF Shape, Counted, Counts

\* No step counts a run but a start, and only the activation resets the cuts.
LEMMA CountMoves ==
    ASSUME Shape, [Next]_vars
    PROVE  /\ count' \in Counts
           /\ \/ count'.runs = count.runs
              \/ /\ count'.runs = count.runs + 1
                 /\ \E m \in Modes, z \in (SUBSET Docs) \ {{}} : Start(m, z)
           /\ count'.cuts = count.cuts \/ (Retire /\ Cut) \/ (Swap /\ (Cut \/ count'.cuts = 0))
<1> USE Bounds DEF Shape, Counted
<1>1. CASE \E m \in Modes, z \in (SUBSET Docs) \ {{}} : Start(m, z)
  BY <1>1, Ticked DEF Start
<1>2. CASE Stop \/ StartServer \/ \E v \in Versions : EditSource(v) \/ EditConfig(v)
  BY <1>2, Ticked, Slipped DEF Stop, StartServer, EditSource, EditConfig
<1>3. CASE Compare \/ SyncConfig \/ SyncManifest \/ Upload \/ Image \/ Verify \/ Link \/ Cleanup
  BY <1>3, Slipped DEF Compare, SyncConfig, SyncManifest, Upload, Image, Verify, Link, Cleanup, Remote
<1>4. CASE PreflightFails \/ Push \/ Submit \/ SubmitFails \/ PollBlip \/ PollTimeout \/ ReadExit \/ Fetch \/ Index
  BY <1>4, Slipped DEF PreflightFails, Push, Submit, SubmitFails, PollBlip, PollTimeout, ReadExit,
     Fetch, Index
<1>5. CASE Retire
  BY <1>5, CutOff, Slipped DEF Retire
<1>6. CASE Swap
  <2>1. CASE count' = [count EXCEPT !.cuts = 0]
    BY <1>6, <2>1 DEF Counts
  <2> QED
    BY <1>6, <2>1, CutOff DEF Swap
<1>7. CASE IngestDies \/ \E k \in DOMAIN jobs : JobKilled(k)
  BY <1>7, Ticked DEF IngestDies, JobKilled
<1>8. CASE UNCHANGED count
  BY <1>8
<1>9. CASE \/ StopServer \/ Pack \/ Preflight \/ Poll \/ Check \/ SkipIndex \/ TakeBatch \/ Ingest
           \/ BatchesDone \/ \E d \in Docs : PerFile(d)
  BY <1>8, <1>9 DEF StopServer, Pack, Preflight, Poll, Check, SkipIndex, TakeBatch, Ingest,
     BatchesDone, PerFile
<1>10. CASE \E k \in DOMAIN jobs : JobStep(k)
  BY <1>7, <1>8, <1>10 DEF JobStep, JobListed, JobStarts, JobEnds, JobRecorded, JobForgotten, JobParses
<1> QED
  BY <1>1, <1>2, <1>3, <1>4, <1>5, <1>6, <1>7, <1>8, <1>9, <1>10 DEF Next, ScriptStep, vars

\* What a batch has counted is a number.
LEMMA GoodCounts ==
    ASSUME homeResult' \in Results \cup {None} PROVE Good' \in Nat
<1>1. homeResult' # None => IsFiniteSet(homeResult'.good)
  BY DeployInputs, FS_Subset DEF Results
<1> QED
  BY <1>1, FS_CardinalityType DEF Good

-----------------------------------------------------------------------------
(* The shape of the state *)

\* The script's own variables.
LEMMA ScriptKept == Shape /\ [Next]_vars => Script'
<1> SUFFICES ASSUME Shape, [Next]_vars PROVE Script'
  OBVIOUS
<1> USE Bounds, DeployInputs DEF Shape, Script, Fails, Goto, Succeeds, Packing, Sending, Staging,
    Local
<1>1. CASE \E m \in Modes, z \in (SUBSET Docs) \ {{}} : Start(m, z)
  BY <1>1 DEF Start
<1>2. CASE Stop \/ \E d \in Docs : PerFile(d)
  BY <1>2 DEF Stop, PerFile
<1>3. CASE Pack \/ Compare
  BY <1>3 DEF Pack, Compare, Manifest, Manifests, Trees
<1>4. CASE \/ SyncConfig \/ SyncManifest \/ Upload \/ Image \/ Verify \/ Retire \/ Swap \/ Link
           \/ Cleanup
  BY <1>4 DEF SyncConfig, SyncManifest, Upload, Image, Verify, Retire, Swap, Link, Cleanup, Remote, Cut
<1>5. CASE \/ Preflight \/ PreflightFails \/ Push \/ Submit \/ SubmitFails \/ Poll \/ PollBlip
           \/ PollTimeout \/ ReadExit \/ Fetch
  BY <1>5 DEF Preflight, PreflightFails, Push, Submit, SubmitFails, Poll, PollBlip, PollTimeout,
     ReadExit, Fetch, NotFound
<1>6. CASE Check \/ Index \/ SkipIndex
  BY <1>6 DEF Check, Index, SkipIndex, Trees, Results
<1>7. CASE TakeBatch \/ Ingest \/ IngestDies \/ BatchesDone
  BY <1>7 DEF TakeBatch, Ingest, IngestDies, BatchesDone, Judged
<1>8. CASE UNCHANGED script
  BY <1>8 DEF script
<1>9. CASE \/ StartServer \/ StopServer \/ (\E v \in Versions : EditSource(v) \/ EditConfig(v))
           \/ \E k \in DOMAIN jobs : JobStep(k)
  BY <1>8, <1>9 DEF StartServer, StopServer, EditSource, EditConfig, JobStep, OfTheJob, JobListed,
     JobStarts, JobEnds, JobKilled, JobRecorded, JobForgotten, JobParses
<1> QED
  BY <1>1, <1>2, <1>3, <1>4, <1>5, <1>6, <1>7, <1>8, <1>9 DEF Next, ScriptStep, vars

\* How a step moves what the script knows of its job.
LEMMA WaitMoves ==
    ASSUME Shape, [Next]_vars
    PROVE  /\ missing' \in 0 .. 2
           /\ seen' = TRUE \/ seen' = FALSE \/ seen' = seen
           /\ mine' = 0 \/ mine' = mine \/ (Submit /\ mine' = count.runs)
<1> USE Bounds DEF Shape, Waiting
<1>1. CASE \E m \in Modes, z \in (SUBSET Docs) \ {{}} : Start(m, z)
  BY <1>1 DEF Start
<1>2. CASE Stop \/ PollTimeout
  BY <1>2 DEF Stop, PollTimeout, Waited
<1>3. CASE Poll \/ PollBlip
  <2>1. missing' \in 0 .. 2
    BY <1>3 DEF Poll, PollBlip, NotFound, Waited
  <2>2. seen' = TRUE \/ seen' = FALSE \/ seen' = seen
    BY <1>3 DEF Poll, PollBlip, NotFound, Waited
  <2>3. mine' = mine
    BY <1>3 DEF Poll, PollBlip
  <2> QED
    BY <2>1, <2>2, <2>3
<1>4. CASE Submit
  BY <1>4 DEF Submit
<1>5. CASE UNCHANGED waiting
  BY <1>5 DEF waiting
<1>6. CASE \/ StartServer \/ StopServer \/ (\E v \in Versions : EditSource(v) \/ EditConfig(v))
           \/ \E k \in DOMAIN jobs : JobStep(k)
  BY <1>5, <1>6 DEF StartServer, StopServer, EditSource, EditConfig, JobStep, OfTheJob, JobListed,
     JobStarts, JobEnds, JobKilled, JobRecorded, JobForgotten, JobParses
<1>7. CASE \/ Pack \/ Compare \/ SyncConfig \/ SyncManifest \/ Upload \/ Image \/ Verify \/ Retire
           \/ Swap \/ Link \/ Cleanup
  BY <1>5, <1>7 DEF Pack, Compare, SyncConfig, SyncManifest, Upload, Image, Verify, Retire, Swap,
     Link, Cleanup, Remote
<1>8. CASE \/ Preflight \/ PreflightFails \/ Push \/ SubmitFails \/ ReadExit \/ Fetch \/ Check
           \/ Index \/ SkipIndex
  BY <1>5, <1>8 DEF Preflight, PreflightFails, Push, SubmitFails, ReadExit, Fetch, Check, Index,
     SkipIndex
<1>9. CASE \/ TakeBatch \/ Ingest \/ IngestDies \/ BatchesDone \/ \E d \in Docs : PerFile(d)
  BY <1>5, <1>9 DEF TakeBatch, Ingest, IngestDies, BatchesDone, PerFile
<1> QED
  BY <1>1, <1>2, <1>3, <1>4, <1>5, <1>6, <1>7, <1>8, <1>9 DEF Next, ScriptStep, vars

\* The job is one of this installation's runs.
LEMMA WaitingKept == Shape /\ [Next]_vars => Waiting'
<1> SUFFICES ASSUME Shape, [Next]_vars PROVE Waiting'
  OBVIOUS
<1>1. missing' \in 0 .. 2
  BY WaitMoves
<1>3. mine' \in 0 .. MaxRuns
  <2>1. mine' = 0 \/ mine' = mine \/ mine' = count.runs
    BY WaitMoves
  <2> QED
    BY <2>1, Bounds DEF Shape, Waiting, Counted, Counts
<1>2. seen' \in BOOLEAN
  BY WaitMoves, Zenon DEF Shape, Waiting
<1> QED
  BY <1>1, <1>2, <1>3 DEF Waiting

\* A run that goes on has been counted.
LEMMA CountedKept == Shape /\ [Next]_vars => Counted'
<1> SUFFICES ASSUME Shape, [Next]_vars PROVE Counted'
  OBVIOUS
<1>1. count' \in Counts
  BY CountMoves
<1>2. pc' # "idle" => count'.runs > 0
  <2>1. CASE count'.runs = count.runs + 1
    BY <2>1 DEF Shape, Counted, Counts
  <2>2. CASE count'.runs = count.runs /\ pc # "idle"
    BY <2>2 DEF Shape, Counted
  <2>3. CASE pc = "idle" /\ ~\E m \in Modes, z \in (SUBSET Docs) \ {{}} : Start(m, z)
    <3>1. pc' = pc
      BY <2>3 DEF Next, ScriptStep, vars, script, Stop, StartServer, StopServer, EditSource, EditConfig,
         JobStep, OfTheJob, JobListed, JobStarts, JobEnds, JobKilled, JobRecorded, JobForgotten,
         JobParses, Pack, Compare, SyncConfig, SyncManifest, Upload, Image, Verify, Retire, Swap,
         Link, Cleanup, Remote, Preflight, PreflightFails, Push, Submit, SubmitFails, Poll, PollBlip,
         PollTimeout, ReadExit, Fetch, Check, Index, SkipIndex, TakeBatch, Ingest, IngestDies,
         BatchesDone, PerFile
    <3> QED
      BY <2>3, <3>1
  <2>4. CASE \E m \in Modes, z \in (SUBSET Docs) \ {{}} : Start(m, z)
    BY <2>1, <2>4, Ticked, Bounds DEF Start
  <2> QED
    BY <2>1, <2>2, <2>3, <2>4, CountMoves
<1> QED
  BY <1>1, <1>2 DEF Counted

\* The driver's counts: a batch is tried at most Retries times more.
LEMMA DrivenKept == Shape /\ [Next]_vars => Driven'
<1> SUFFICES ASSUME Shape, [Next]_vars PROVE Driven'
  OBVIOUS
<1> USE Bounds DEF Shape, Driven, Drivers
<1>1. CASE \E m \in Modes, z \in (SUBSET Docs) \ {{}} : Start(m, z)
  BY <1>1 DEF Start, NoDriver
<1>2. CASE Stop \/ BatchesDone
  BY <1>2 DEF Stop, BatchesDone, Goto, Fails, NoDriver
<1>3. CASE TakeBatch
  <2> PICK b \in (SUBSET driver.rest) \ {{}} :
           driver' = [driver EXCEPT !.rest = @ \ b, !.batch = b, !.good = 0, !.attempts = 0]
    BY <1>3 DEF TakeBatch
  <2>1. driver' = [rest |-> driver.rest \ b, batch |-> b, good |-> 0, attempts |-> 0,
                   stalled |-> driver.stalled]
    OBVIOUS
  <2> QED
    BY <2>1
<1>4. CASE Ingest \/ IngestDies
  <2>1. homeResult' \in Results \cup {None}
    <3>1. CASE Ingest
      <4> PICK new \in SUBSET (driver.batch \ home), abrupt \in BOOLEAN :
             homeResult' = [good |-> driver.batch \ (driver.batch \ (home \cup new)),
                            failed |-> driver.batch \ (home \cup new), abrupt |-> abrupt]
        BY <3>1 DEF Ingest
      <4> QED
        BY DEF Results
    <3> QED
      BY <1>4, <3>1 DEF IngestDies, Trees
  <2>2. /\ driver'.attempts = driver.attempts + 1 /\ driver' = [driver EXCEPT !.good = driver.good + Good',
              !.attempts = driver.attempts + 1, !.stalled = driver'.stalled]
        /\ driver'.stalled \in {driver.stalled, driver.stalled \cup driver.batch}
        /\ pc' = "ingest" => driver.attempts < Retries
    BY <1>4 DEF Ingest, IngestDies, Judged, Goto
  <2>3. pc = "ingest"
    BY <1>4 DEF Ingest, IngestDies
  <2>4. driver' = [rest |-> driver.rest, batch |-> driver.batch, good |-> driver.good + Good',
                   attempts |-> driver.attempts + 1, stalled |-> driver'.stalled]
    BY <2>2
  <2> QED
    BY <2>1, <2>2, <2>3, <2>4, GoodCounts
<1>5. CASE \E d \in Docs : PerFile(d)
  BY <1>5 DEF PerFile
<1>6. CASE driver' = driver /\ pc' \in {pc} \cup Packing \cup Sending \cup {"idle", "index"}
  BY <1>6 DEF Packing, Sending, Staging
<1>7. CASE \/ StartServer \/ StopServer \/ (\E v \in Versions : EditSource(v) \/ EditConfig(v))
           \/ \E k \in DOMAIN jobs : JobStep(k)
  BY <1>6, <1>7 DEF script, StartServer, StopServer, EditSource, EditConfig, JobStep, OfTheJob,
     JobListed, JobStarts, JobEnds, JobKilled, JobRecorded, JobForgotten, JobParses
<1>8. CASE \/ Pack \/ Compare \/ SyncConfig \/ SyncManifest \/ Upload \/ Image \/ Verify \/ Retire
           \/ Swap \/ Link \/ Cleanup
  BY <1>6, <1>8 DEF Pack, Compare, SyncConfig, SyncManifest, Upload, Image, Verify, Retire, Swap,
     Link, Cleanup, Remote, Goto, Fails, Cut, Packing, Staging
<1>9. CASE \/ Preflight \/ PreflightFails \/ Push \/ Submit \/ SubmitFails \/ Poll \/ PollBlip
           \/ PollTimeout \/ ReadExit \/ Fetch \/ Check \/ Index \/ SkipIndex
  BY <1>6, <1>9 DEF Preflight, PreflightFails, Push, Submit, SubmitFails, Poll, PollBlip,
     PollTimeout, NotFound, ReadExit, Fetch, Check, Index, SkipIndex, Goto, Fails, Succeeds, Sending
<1> QED
  BY <1>1, <1>2, <1>3, <1>4, <1>5, <1>6, <1>7, <1>8, <1>9 DEF Next, ScriptStep, vars, script

\* What a step that changes the repository on the cluster makes of it.
LEMMA RepoMoves ==
    ASSUME Shape, [Next]_vars
    PROVE  \/ UNCHANGED <<target, previous, staged, deployed>>
           \/ /\ SyncConfig /\ UNCHANGED <<previous, staged, deployed>>
              /\ \E c \in Versions \cup {0} :
                    target' = [source |-> target.source, config |-> c,
                               manifest |-> target.manifest, image |-> target.image]
           \/ /\ SyncManifest /\ UNCHANGED <<previous, staged, deployed>>
              /\ \E m \in Manifests \cup {None} :
                    target' = [source |-> target.source, config |-> target.config,
                               manifest |-> m, image |-> target.image]
           \/ /\ Upload /\ UNCHANGED <<target, previous, deployed>>
              /\ staged' = None \/ staged' \in Repos
           \/ /\ Image /\ UNCHANGED <<target, previous, deployed>>
              /\ staged' = [source |-> staged.source, config |-> staged.config,
                            manifest |-> staged.manifest, image |-> (pc' = "verify")]
           \/ /\ Retire /\ UNCHANGED <<staged, deployed>>
              /\ \/ UNCHANGED <<target, previous>>
                 \/ previous' = None /\ target' = target
                 \/ previous' \in {target, previous} /\ target' = None
           \/ Swap /\ target' \in {target, staged} /\ staged' = None /\ deployed' = TRUE /\ previous' = previous
           \/ Cleanup /\ staged' = None /\ UNCHANGED <<target, previous, deployed>>
<1> USE DEF Shape
<1>1. CASE SyncConfig
  <2>1. target \in Repos /\ config \in Versions
    BY <1>1 DEF SyncConfig, Place, Trees
  <2>2. PICK c \in {config, target.config, 0} : target' = [target EXCEPT !.config = c]
    BY <1>1 DEF SyncConfig
  <2> QED
    BY <1>1, <2>1, <2>2 DEF SyncConfig, Repos
<1>2. CASE SyncManifest
  <2>1. target \in Repos /\ claim \in Manifests
    BY <1>2 DEF SyncManifest, Place, Trees, Script
  <2>2. PICK m \in {claim, target.manifest, None} : target' = [target EXCEPT !.manifest = m]
    BY <1>2 DEF SyncManifest
  <2> QED
    BY <1>2, <2>1, <2>2 DEF SyncManifest, Repos
<1>3. CASE Upload
  <2>1. packed \in Manifests
    BY <1>3 DEF Upload, Remote, Place, Script
  <2> QED
    BY <1>3, <2>1 DEF Upload, Repos, Manifests
<1>4. CASE Image
  <2>1. staged \in Repos
    BY <1>4 DEF Image, Remote, Place, Trees, Staging
  <2> QED
    BY <1>4, <2>1 DEF Image, Repos
<1>5. CASE Retire \/ Swap \/ Cleanup
  BY <1>5 DEF Retire, Swap, Cleanup
<1>6. CASE UNCHANGED repos
  BY <1>6 DEF repos
<1>7. CASE \/ StartServer \/ StopServer \/ (\E v \in Versions : EditSource(v) \/ EditConfig(v))
           \/ Stop \/ (\E m \in Modes, z \in (SUBSET Docs) \ {{}} : Start(m, z))
           \/ \E k \in DOMAIN jobs : JobStep(k)
  BY <1>6, <1>7 DEF StartServer, StopServer, EditSource, EditConfig, Stop, Start, JobStep, OfTheJob,
     JobListed, JobStarts, JobEnds, JobKilled, JobRecorded, JobForgotten, JobParses
<1>8. CASE Pack \/ Compare \/ Verify \/ Link \/ Preflight \/ PreflightFails \/ Push \/ Submit \/ SubmitFails
  BY <1>6, <1>8 DEF Pack, Compare, Verify, Link, Preflight, PreflightFails, Push, Submit, SubmitFails
<1>9. CASE \/ Poll \/ PollBlip \/ PollTimeout \/ ReadExit \/ Fetch \/ Check \/ Index \/ SkipIndex
           \/ TakeBatch \/ Ingest \/ IngestDies \/ BatchesDone \/ \E d \in Docs : PerFile(d)
  BY <1>6, <1>9 DEF Poll, PollBlip, PollTimeout, ReadExit, Fetch, Check, Index, SkipIndex, TakeBatch,
     Ingest, IngestDies, BatchesDone, PerFile
<1> QED
  BY <1>1, <1>2, <1>3, <1>4, <1>5, <1>6, <1>7, <1>8, <1>9 DEF Next, ScriptStep, vars

\* What a run brings stays here.
LEMMA HereMoves ==
    ASSUME Shape, [Next]_vars
    PROVE  /\ home \subseteq home' /\ home' \subseteq Docs /\ index' \subseteq Docs
           /\ homeResult' \in Results \cup {None}
           /\ \/ UNCHANGED <<home, homeResult>>
              \/ Fetch \/ Ingest \/ IngestDies \/ \E d \in Docs : PerFile(d)
<1> USE DEF Shape, Trees
<1>1. CASE Fetch
  BY <1>1 DEF Fetch, Cluster
<1>2. CASE Ingest \/ IngestDies
  <2>1. CASE Ingest
    <3> PICK new \in SUBSET (driver.batch \ home), abrupt \in BOOLEAN :
           /\ home' = home \cup new
           /\ homeResult' = [good |-> driver.batch \ (driver.batch \ (home \cup new)),
                             failed |-> driver.batch \ (home \cup new), abrupt |-> abrupt]
      BY <2>1 DEF Ingest
    <3>1. driver.batch \subseteq Docs
      BY DEF Driven, Drivers
    <3> QED
      BY <2>1, <3>1 DEF Results, Ingest
  <2> QED
    BY <1>2, <2>1 DEF IngestDies, Driven, Drivers
<1>3. CASE \E d \in Docs : PerFile(d)
  <2> PICK d \in Docs : PerFile(d)
    BY <1>3
  <2>1. homeResult' = [good |-> {d} \ told', failed |-> {d} \cap told', abrupt |-> FALSE]
    BY DEF PerFile
  <2>2. homeResult' \in Results
    BY <2>1 DEF Results
  <2>3. index' = index /\ (home' = home \/ home' = home \cup {d})
    BY DEF PerFile
  <2> QED
    BY <1>3, <2>2, <2>3
<1>4. CASE Index
  BY <1>4 DEF Index
<1>5. CASE UNCHANGED here
  BY <1>5 DEF here
<1>6. CASE \/ StartServer \/ StopServer \/ (\E v \in Versions : EditSource(v) \/ EditConfig(v))
           \/ Stop \/ (\E m \in Modes, z \in (SUBSET Docs) \ {{}} : Start(m, z))
           \/ \E k \in DOMAIN jobs : JobStep(k)
  BY <1>5, <1>6 DEF StartServer, StopServer, EditSource, EditConfig, Stop, Start, JobStep, OfTheJob,
     JobListed, JobStarts, JobEnds, JobKilled, JobRecorded, JobForgotten, JobParses
<1>7. CASE \/ Pack \/ Compare \/ SyncConfig \/ SyncManifest \/ Upload \/ Image \/ Verify \/ Retire
           \/ Swap \/ Link \/ Cleanup
  BY <1>5, <1>7 DEF Pack, Compare, SyncConfig, SyncManifest, Upload, Image, Verify, Retire, Swap,
     Link, Cleanup, Remote
<1>8. CASE \/ Preflight \/ PreflightFails \/ Push \/ Submit \/ SubmitFails \/ Poll \/ PollBlip
           \/ PollTimeout \/ ReadExit \/ Check \/ SkipIndex \/ TakeBatch \/ BatchesDone
  BY <1>5, <1>8 DEF Preflight, PreflightFails, Push, Submit, SubmitFails, Poll, PollBlip, PollTimeout,
     ReadExit, Check, SkipIndex, TakeBatch, BatchesDone
<1> QED
  BY <1>1, <1>2, <1>3, <1>4, <1>5, <1>6, <1>7, <1>8 DEF Next, ScriptStep, vars

\* Who changes the working tree, and who starts the server.
LEMMA TreeMoves ==
    ASSUME Shape, [Next]_vars
    PROVE  /\ source' = source \/ \E v \in Versions : EditSource(v) /\ source' = v
           /\ config' = config \/ \E v \in Versions : EditConfig(v) /\ config' = v
           /\ server' = server \/ (StartServer /\ server' = TRUE) \/ (StopServer /\ server' = FALSE)
<1>1. CASE StartServer \/ StopServer
  BY <1>1 DEF StartServer, StopServer, tree
<1>2. CASE \E v \in Versions : EditSource(v) \/ EditConfig(v)
  BY <1>2 DEF EditSource, EditConfig
<1>3. CASE UNCHANGED <<tree, server>>
  BY <1>3 DEF tree
<1>4. CASE \/ Stop \/ (\E m \in Modes, z \in (SUBSET Docs) \ {{}} : Start(m, z))
           \/ \E k \in DOMAIN jobs : JobStep(k)
  BY <1>3, <1>4 DEF Stop, Start, JobStep, OfTheJob,
     JobListed, JobStarts, JobEnds, JobKilled, JobRecorded, JobForgotten, JobParses
<1>5. CASE \/ Pack \/ Compare \/ SyncConfig \/ SyncManifest \/ Upload \/ Image \/ Verify \/ Retire
           \/ Swap \/ Link \/ Cleanup
  BY <1>3, <1>5 DEF Pack, Compare, SyncConfig, SyncManifest, Upload, Image, Verify, Retire, Swap,
     Link, Cleanup, Remote
<1>6. CASE \/ Preflight \/ PreflightFails \/ Push \/ Submit \/ SubmitFails \/ Poll \/ PollBlip
           \/ PollTimeout \/ ReadExit \/ Fetch \/ Check \/ Index \/ SkipIndex
           \/ TakeBatch \/ Ingest \/ IngestDies \/ BatchesDone \/ \E d \in Docs : PerFile(d)
  BY <1>3, <1>6 DEF Preflight, PreflightFails, Push, Submit, SubmitFails, Poll, PollBlip, PollTimeout,
     ReadExit, Fetch, Check, Index, SkipIndex, TakeBatch, Ingest, IngestDies, BatchesDone, PerFile
<1> QED
  BY <1>1, <1>2, <1>3, <1>4, <1>5, <1>6 DEF Next, ScriptStep, vars

\* This machine and the repositories.
LEMMA TreesKept == Shape /\ [Next]_vars => Trees'
<1> SUFFICES ASSUME Shape, [Next]_vars PROVE Trees'
  OBVIOUS
<1>1. source' \in Versions /\ config' \in Versions
  BY TreeMoves DEF Shape, Trees
<1>2. server' \in BOOLEAN
  BY TreeMoves, Zenon DEF Shape, Trees
<1>3. /\ target' \in Repos \cup {None} /\ previous' \in Repos \cup {None}
      /\ staged' \in Repos \cup {None}
  <2>1. CASE SyncConfig \/ SyncManifest
    <3>1. target \in Repos
      BY <2>1 DEF SyncConfig, SyncManifest, Shape, Place, Trees
    <3>2. UNCHANGED <<previous, staged>>
      BY <2>1 DEF SyncConfig, SyncManifest
    <3>3. pc \in {"config", "manifest"}
      BY <2>1 DEF SyncConfig, SyncManifest
    <3>4. PICK c \in Versions \cup {0}, m \in Manifests \cup {None} :
             \/ target' = target
             \/ target' = [source |-> target.source, config |-> c,
                           manifest |-> m, image |-> target.image]
      BY <3>1, <3>3, RepoMoves DEF Upload, Image, Remote, Retire, Swap, Cleanup, Repos
    <3> QED
      BY <3>1, <3>2, <3>4 DEF Repos, Shape, Trees
  <2>2. CASE Image
    <3>1. staged \in Repos
      BY <2>2 DEF Image, Remote, Shape, Place, Trees, Staging
    <3> QED
      BY <2>2, <3>1, RepoMoves DEF SyncConfig, SyncManifest, Upload, Image, Remote, Retire, Swap,
         Cleanup, Repos, Shape, Trees
  <2> QED
    BY <2>1, <2>2, RepoMoves DEF Shape, Trees
<1>4. deployed' \in BOOLEAN
  <2>1. deployed' = deployed \/ deployed' = TRUE
    BY RepoMoves
  <2> QED
    BY <2>1, Zenon DEF Shape, Trees
<1> QED
  BY <1>1, <1>2, <1>3, <1>4, HereMoves DEF Trees

\* What a step does on the cluster: one job moves, or PDFs come.
LEMMA ClusterMoves ==
    ASSUME Shape, [Next]_vars
    PROVE  \/ UNCHANGED <<corpus, jobs>>
           \/ Push /\ data \subseteq data' /\ data' \subseteq Docs /\ UNCHANGED <<parsed, result, jobs>>
           \/ Submit /\ jobs' = [jobs EXCEPT ![count.runs].state = "new"] /\ UNCHANGED corpus
           \/ \E k \in DOMAIN jobs : JobStep(k) /\ data' = data
<1>1. CASE Push
  BY <1>1 DEF Push, Shape, Cluster, Script
<1>2. CASE Submit
  BY <1>2 DEF Submit
<1>3. CASE \E k \in DOMAIN jobs : JobStep(k)
  BY <1>3 DEF JobStep, OfTheJob, JobListed, JobStarts, JobEnds, JobKilled, JobRecorded, JobForgotten,
     JobParses
<1>4. CASE UNCHANGED <<corpus, jobs>>
  BY <1>4
<1>5. CASE \/ Stop \/ (\E m \in Modes, z \in (SUBSET Docs) \ {{}} : Start(m, z))
           \/ StartServer \/ StopServer \/ (\E v \in Versions : EditSource(v) \/ EditConfig(v))
  BY <1>4, <1>5 DEF Stop, Start, StartServer, StopServer, EditSource, EditConfig
<1>6. CASE \/ Pack \/ Compare \/ SyncConfig \/ SyncManifest \/ Upload \/ Image \/ Verify \/ Retire
           \/ Swap \/ Link \/ Cleanup
  BY <1>4, <1>6 DEF Pack, Compare, SyncConfig, SyncManifest, Upload, Image, Verify, Retire, Swap,
     Link, Cleanup, Remote
<1>7. CASE \/ Preflight \/ PreflightFails \/ SubmitFails \/ Poll \/ PollBlip
           \/ PollTimeout \/ ReadExit \/ Fetch \/ Check \/ Index \/ SkipIndex
           \/ TakeBatch \/ Ingest \/ IngestDies \/ BatchesDone \/ \E d \in Docs : PerFile(d)
  BY <1>4, <1>7 DEF Preflight, PreflightFails, SubmitFails, Poll, PollBlip, PollTimeout,
     ReadExit, Fetch, Check, Index, SkipIndex, TakeBatch, Ingest, IngestDies, BatchesDone, PerFile
<1> QED
  BY <1>1, <1>2, <1>3, <1>4, <1>5, <1>6, <1>7 DEF Next, ScriptStep, vars

\* A step of a job, field by field.
LEMMA JobMoves ==
    ASSUME Shape, NEW k \in DOMAIN jobs, JobStep(k)
    PROVE  \E r \in JobRecords :
              /\ jobs' = [jobs EXCEPT ![k] = r]
              /\ \/ /\ jobs[k].state \in {"new", "exiting", "ended"}
                    /\ \/ jobs[k].state = "new" /\ r.state = "queued"
                       \/ jobs[k].state = "exiting" /\ r.state = "ended"
                       \/ jobs[k].state = "ended" /\ r.state = "forgotten" /\ JobForgotten(k)
                    /\ r.exit = jobs[k].exit /\ r.input = jobs[k].input
                    /\ r.good = jobs[k].good /\ r.failed = jobs[k].failed
                    /\ UNCHANGED <<parsed, result>>
                 \/ /\ jobs[k].state = "queued" /\ r.state = "running"
                    /\ r.input = data /\ r.good = data \cap parsed
                    /\ r.exit = jobs[k].exit /\ r.failed = jobs[k].failed
                    /\ UNCHANGED <<parsed, result>>
                 \/ /\ jobs[k].state = "running" /\ r.state = "running"
                    /\ r.exit = jobs[k].exit /\ r.input = jobs[k].input
                    /\ \E d \in jobs[k].input :
                          \/ /\ r.good = jobs[k].good \cup {d} /\ r.failed = jobs[k].failed
                             /\ parsed' = parsed \cup {d}
                          \/ /\ r.good = jobs[k].good /\ r.failed = jobs[k].failed \cup {d}
                             /\ parsed' = parsed
                    /\ result' = result
                 \/ /\ jobs[k].state = "running" /\ r.state = "exiting"
                    /\ r.input = jobs[k].input
                    /\ r.good = jobs[k].good /\ r.failed = jobs[k].failed
                    /\ parsed' = parsed
                    /\ \/ r.exit = 1 /\ result' = result
                       \/ /\ jobs[k].input \subseteq jobs[k].good \cup jobs[k].failed
                          /\ result' = [good |-> jobs[k].good, failed |-> jobs[k].failed,
                                        abrupt |-> FALSE]
<1>0. /\ jobs \in [1 .. MaxRuns -> JobRecords] /\ jobs[k] \in JobRecords
      /\ data \subseteq Docs /\ parsed \subseteq data /\ jobs[k].input \subseteq data
  BY DEF Shape, Cluster
<1> USE <1>0 DEF JobRecords
<1>1. CASE JobListed(k) \/ JobRecorded(k) \/ JobForgotten(k)
  <2> DEFINE r == [jobs[k] EXCEPT !.state = CASE jobs[k].state = "new" -> "queued"
                                              [] jobs[k].state = "exiting" -> "ended"
                                              [] OTHER -> "forgotten"]
  <2>1. jobs' = [jobs EXCEPT ![k] = r] /\ UNCHANGED <<parsed, result>>
    BY <1>1 DEF JobListed, JobRecorded, JobForgotten
  <2>2. jobs[k].state \in {"new", "exiting", "ended"} /\ (jobs[k].state = "ended" => JobForgotten(k))
    BY <1>1 DEF JobListed, JobRecorded, JobForgotten
  <2>3. r \in JobRecords /\ r.exit = jobs[k].exit /\ r.input = jobs[k].input /\ r.good = jobs[k].good
        /\ r.failed = jobs[k].failed
    OBVIOUS
  <2>4. /\ jobs[k].state = "new" => r.state = "queued"
        /\ jobs[k].state = "exiting" => r.state = "ended"
        /\ jobs[k].state = "ended" => r.state = "forgotten"
    OBVIOUS
  <2> QED
    BY <2>1, <2>2, <2>3, <2>4
<1>2. CASE JobStarts(k)
  <2> DEFINE r == [jobs[k] EXCEPT !.state = "running", !.input = data, !.good = data \cap parsed]
  <2>1. jobs' = [jobs EXCEPT ![k] = r] /\ UNCHANGED <<parsed, result>> /\ jobs[k].state = "queued"
    BY <1>2 DEF JobStarts
  <2>2. /\ r \in JobRecords /\ r.state = "running" /\ r.input = data /\ r.good = data \cap parsed
        /\ r.exit = jobs[k].exit /\ r.failed = jobs[k].failed
    OBVIOUS
  <2> QED
    BY <2>1, <2>2
<1>3. CASE \E d \in Docs : JobParses(k, d)
  <2> PICK d \in Docs : JobParses(k, d)
    BY <1>3
  <2>1. d \in jobs[k].input /\ jobs[k].state = "running" /\ result' = result
    BY DEF JobParses, Ahead
  <2>2. CASE jobs' = [jobs EXCEPT ![k].good = @ \cup {d}] /\ parsed' = parsed \cup {d}
    <3> DEFINE r == [jobs[k] EXCEPT !.good = @ \cup {d}]
    <3>1. /\ jobs' = [jobs EXCEPT ![k] = r]
      BY <2>2
    <3>2. /\ r \in JobRecords /\ r.state = "running" /\ r.exit = jobs[k].exit
          /\ r.input = jobs[k].input /\ r.good = jobs[k].good \cup {d} /\ r.failed = jobs[k].failed
      BY <2>1
    <3> QED
      BY <2>1, <2>2, <3>1, <3>2
  <2>3. CASE jobs' = [jobs EXCEPT ![k].failed = @ \cup {d}] /\ parsed' = parsed
    <3> DEFINE r == [jobs[k] EXCEPT !.failed = @ \cup {d}]
    <3>1. /\ jobs' = [jobs EXCEPT ![k] = r]
      BY <2>3
    <3>2. /\ r \in JobRecords /\ r.state = "running" /\ r.exit = jobs[k].exit
          /\ r.input = jobs[k].input /\ r.failed = jobs[k].failed \cup {d} /\ r.good = jobs[k].good
      BY <2>1
    <3> QED
      BY <2>1, <2>3, <3>1, <3>2
  <2> QED
    BY <2>2, <2>3 DEF JobParses
<1>4. CASE JobEnds(k) \/ JobKilled(k)
  <2>1. PICK e \in 0 .. 1 :
           /\ jobs' = [jobs EXCEPT ![k] = [jobs[k] EXCEPT !.state = "exiting", !.exit = e]]
           /\ JobKilled(k) => e = 1
    <3>1. CASE JobKilled(k)
      <4>1. jobs' = [jobs EXCEPT ![k] = [jobs[k] EXCEPT !.state = "exiting", !.exit = 1]]
        BY <3>1 DEF JobKilled
      <4> QED
        BY <4>1
    <3>2. CASE JobEnds(k) /\ ~JobKilled(k)
      <4> DEFINE e == IF jobs[k].good = {} /\ jobs[k].input # {} THEN 1 ELSE 0
      <4>1. jobs' = [jobs EXCEPT ![k] = [jobs[k] EXCEPT !.state = "exiting", !.exit = e]]
        BY <3>2 DEF JobEnds
      <4>2. e \in 0 .. 1
        OBVIOUS
      <4> QED
        BY <3>2, <4>1, <4>2
    <3> QED
      BY <1>4, <3>1, <3>2
  <2> DEFINE r == [jobs[k] EXCEPT !.state = "exiting", !.exit = e]
  <2>2. /\ r \in JobRecords /\ r.state = "exiting" /\ r.exit = e
        /\ r.input = jobs[k].input /\ r.failed = jobs[k].failed /\ r.good = jobs[k].good
    OBVIOUS
  <2>3. jobs[k].state = "running" /\ parsed' = parsed
    BY <1>4 DEF JobEnds, JobKilled
  <2>4. JobKilled(k) => result' = result
    BY DEF JobKilled
  <2>5. JobEnds(k) => /\ jobs[k].input \subseteq jobs[k].good \cup jobs[k].failed
                      /\ result' = [good |-> jobs[k].good, failed |-> jobs[k].failed, abrupt |-> FALSE]
    BY DEF JobEnds, Ahead
  <2> QED
    BY <1>4, <2>1, <2>2, <2>3, <2>4, <2>5
<1> QED
  BY <1>1, <1>2, <1>3, <1>4 DEF JobStep

\* The cluster.
LEMMA ClusterKept == Shape /\ [Next]_vars => Cluster'
<1> SUFFICES ASSUME Shape, [Next]_vars PROVE Cluster'
  OBVIOUS
<1> USE DEF Shape, Cluster
<1>1. CASE UNCHANGED <<corpus, jobs>>
  BY <1>1 DEF corpus
<1>2. CASE Push /\ data \subseteq data' /\ data' \subseteq Docs /\ UNCHANGED <<parsed, result, jobs>>
  BY <1>2
<1>3. CASE Submit /\ jobs' = [jobs EXCEPT ![count.runs].state = "new"] /\ UNCHANGED corpus
  <2>0. count.runs \in 1 .. MaxRuns
    BY <1>3, Bounds DEF Submit, Counted, Counts
  <2>1. jobs' \in [1 .. MaxRuns -> JobRecords]
    <3> DEFINE r == [jobs[count.runs] EXCEPT !.state = "new"]
    <3>1. r \in JobRecords
      BY <2>0 DEF JobRecords
    <3>2. jobs' = [jobs EXCEPT ![count.runs] = r]
      BY <1>3
    <3> QED
      BY <2>0, <3>1, <3>2
  <2>2. \A k \in 1 .. MaxRuns : jobs'[k].good = jobs[k].good /\ jobs'[k].input = jobs[k].input
    BY <1>3, <2>0 DEF JobRecords
  <2> QED
    BY <1>3, <2>1, <2>2 DEF corpus
<1>4. CASE \E k \in DOMAIN jobs : JobStep(k) /\ data' = data
  <2> PICK k \in DOMAIN jobs : JobStep(k) /\ data' = data
    BY <1>4
  <2>1. PICK r \in JobRecords : jobs' = [jobs EXCEPT ![k] = r]
                                /\ r.good \subseteq parsed' /\ r.input \subseteq data
                                /\ parsed \subseteq parsed' /\ parsed' \subseteq data
    BY JobMoves
  <2>2. result' \in Results \cup {None}
    <3>1. result' = result \/ result' = [good |-> jobs[k].good, failed |-> jobs[k].failed,
                                        abrupt |-> FALSE]
      BY JobMoves
    <3>2. jobs[k].good \subseteq Docs /\ jobs[k].failed \subseteq Docs
      BY DEF JobRecords
    <3>3. [good |-> jobs[k].good, failed |-> jobs[k].failed, abrupt |-> FALSE] \in Results
      BY <3>2 DEF Results
    <3> QED
      BY <3>1, <3>3
  <2> QED
    BY <2>1, <2>2
<1> QED
  BY <1>1, <1>2, <1>3, <1>4, ClusterMoves

\* How a step moves the script from one place to another.
LEMMA PlaceMoves ==
    ASSUME Shape, [Next]_vars
    PROVE  \/ UNCHANGED <<pc, mode, packed, claim>>
           \/ \E m \in Modes, z \in (SUBSET Docs) \ {{}} : Start(m, z)
           \/ /\ pc' = "idle"
              /\ UNCHANGED <<packed, claim>> \/ (packed' = None /\ claim' = None)
           \/ Pack \/ Compare \/ Preflight
           \/ /\ UNCHANGED <<mode, packed, claim>>
              /\ \/ SyncConfig /\ pc' = "manifest"
                 \/ SyncManifest /\ pc' = "preflight"
                 \/ (Upload \/ Image \/ Verify \/ Retire \/ Swap \/ Link) /\ pc' = "cleanup"
                 \/ Upload /\ pc' = "image"
                 \/ Image /\ pc' = "verify"
                 \/ Verify /\ pc' = "retire"
                 \/ Retire /\ pc' = "swap"
                 \/ Swap /\ pc' = "link"
                 \/ Link /\ pc' = "clean"
                 \/ Cleanup /\ pc' = "preflight"
                 \/ Push /\ pc' = "submit"
                 \/ Submit /\ pc' = "poll"
                 \/ (Poll \/ PollBlip) /\ pc' \in {"poll", "exit"}
                 \/ ReadExit /\ pc' = "fetch"
                 \/ Fetch /\ pc' = "check"
                 \/ Check /\ pc' = "index"
                 \/ TakeBatch /\ pc' = "ingest"
                 \/ BatchesDone /\ pc' = "index"
                 \/ (Ingest \/ IngestDies) /\ pc' \in {"ingest", "batch"}
<1> USE DEF Goto, Fails, Succeeds
<1>1. CASE (\E m \in Modes, z \in (SUBSET Docs) \ {{}} : Start(m, z)) \/ Stop \/ Pack \/ Compare \/ Preflight
  BY <1>1 DEF Stop
<1>2. CASE SyncConfig \/ SyncManifest \/ Cleanup
  BY <1>2 DEF SyncConfig, SyncManifest, Cleanup
<1>3. CASE Upload \/ Image \/ Verify \/ Link
  <2>1. /\ UNCHANGED <<mode, packed, claim>>
        /\ \/ pc' = "cleanup"
           \/ Upload /\ pc' = "image"
           \/ Image /\ pc' = "verify"
           \/ Verify /\ pc' = "retire"
           \/ Link /\ pc' = "clean"
    BY <1>3 DEF Upload, Image, Verify, Link, Remote
  <2> QED
    BY <1>3, <2>1
<1>4. CASE Retire \/ Swap
  <2>1. /\ UNCHANGED <<mode, packed, claim>>
        /\ pc' = "cleanup" \/ (Retire /\ pc' = "swap") \/ (Swap /\ pc' = "link")
    BY <1>4 DEF Retire, Swap, Cut
  <2> QED
    BY <1>4, <2>1
<1>5. CASE Push \/ Submit \/ SubmitFails \/ PreflightFails
  <2>1. \/ /\ pc' = "idle"
           /\ UNCHANGED <<packed, claim>> \/ (packed' = None /\ claim' = None)
        \/ /\ UNCHANGED <<mode, packed, claim>>
           /\ (Push /\ pc' = "submit") \/ (Submit /\ pc' = "poll")
    BY <1>5 DEF Push, Submit, SubmitFails, PreflightFails
  <2> QED
    BY <2>1
<1>8. CASE Poll \/ PollBlip \/ PollTimeout
  BY <1>8 DEF Poll, PollBlip, PollTimeout, NotFound
<1>9. CASE ReadExit \/ Fetch
  <2>1. \/ /\ pc' = "idle"
           /\ UNCHANGED <<packed, claim>> \/ (packed' = None /\ claim' = None)
        \/ /\ UNCHANGED <<mode, packed, claim>>
           /\ (ReadExit /\ pc' = "fetch") \/ (Fetch /\ pc' = "check")
    BY <1>9 DEF ReadExit, Fetch
  <2> QED
    BY <2>1
<1>10. CASE Check \/ Index \/ SkipIndex
  BY <1>10 DEF Check, Index, SkipIndex
<1>11. CASE TakeBatch \/ Ingest \/ IngestDies \/ BatchesDone \/ \E d \in Docs : PerFile(d)
  <2>1. /\ UNCHANGED <<mode, packed, claim>>
        /\ \/ pc' = pc
           \/ (TakeBatch /\ pc' = "ingest") \/ (BatchesDone /\ pc' = "index")
           \/ (Ingest \/ IngestDies) /\ pc' \in {"ingest", "batch"}
    BY <1>11 DEF TakeBatch, Ingest, IngestDies, BatchesDone, PerFile, Judged
  <2> QED
    BY <2>1
<1>6. CASE UNCHANGED script
  BY <1>6 DEF script
<1>7. CASE \/ StartServer \/ StopServer \/ (\E v \in Versions : EditSource(v) \/ EditConfig(v))
           \/ \E k \in DOMAIN jobs : JobStep(k)
  BY <1>6, <1>7 DEF StartServer, StopServer, EditSource, EditConfig, JobStep, OfTheJob, JobListed,
     JobStarts, JobEnds, JobKilled, JobRecorded, JobForgotten, JobParses
<1> QED
  BY <1>1, <1>2, <1>3, <1>4, <1>5, <1>6, <1>7, <1>8, <1>9, <1>10, <1>11 DEF Next, ScriptStep, vars

\* What each step of a run relies on.
LEMMA PlaceKept == Shape /\ [Next]_vars => Place'
<1> SUFFICES ASSUME Shape, [Next]_vars PROVE Place'
  OBVIOUS
<1> USE DEF Shape, Place
<1>1. pc' \in {"compare", "upload"} => packed' # None
  <2>1. CASE Pack \/ Compare
    BY <2>1, DeployInputs DEF Pack, Compare, Manifest, Manifests, Trees
  <2> QED
    BY <2>1, PlaceMoves DEF Start, Preflight
<1>2. pc' \in {"config", "manifest"} => target' # None /\ claim' # None
  <2>1. CASE Compare
    BY <2>1, DeployInputs DEF Compare, SourceCurrent, Manifest, Manifests, Trees, repos
  <2>2. CASE SyncConfig
    <3>1. target \in Repos /\ (claim' = claim \/ pc' = "idle")
      BY <2>2 DEF SyncConfig, Trees, Goto, Fails
    <3>2. target' \in Repos \/ pc' = "idle"
      BY <2>2, <3>1, RepoMoves DEF SyncConfig, SyncManifest, Upload, Image, Remote, Retire, Swap, Cleanup,
         Repos
    <3> QED
      BY <2>2, <3>1, <3>2, DeployInputs DEF SyncConfig
  <2>3. CASE UNCHANGED <<pc, claim>> /\ pc \in {"config", "manifest"}
    <3>1. CASE SyncConfig \/ SyncManifest
      BY <2>3, <3>1, RepoMoves, DeployInputs DEF SyncConfig, SyncManifest, Goto, Fails
    <3>2. CASE UNCHANGED target
      BY <2>3, <3>2
    <3> QED
      BY <2>3, <3>1, <3>2, RepoMoves DEF Retire, Swap, Upload, Image, Remote, Cleanup
  <2>4. CASE \E m \in Modes, z \in (SUBSET Docs) \ {{}} : Start(m, z)
    BY <2>4 DEF Start
  <2> QED
    BY <2>1, <2>2, <2>3, <2>4, PlaceMoves DEF Preflight, Pack
<1>3. pc' \in Staging => staged' # None /\ (pc' \in {"retire", "swap"} => staged'.image)
  <2>1. CASE Upload
    <3>1. packed \in Manifests /\ pc' \in {"image", "cleanup"}
      BY <2>1 DEF Upload, Remote, Script, Goto
    <3>2. pc' = "image" => staged' \in Repos
      BY <2>1, <3>1 DEF Upload, Repos, Manifests
    <3> QED
      BY <3>1, <3>2, DeployInputs DEF Staging
  <2>2. CASE Image
    <3>1. CASE pc' = "verify"
      <4>1. staged \in Repos
        BY <2>2 DEF Image, Remote, Trees, Staging
      <4>2. staged' = [source |-> staged.source, config |-> staged.config,
                       manifest |-> staged.manifest, image |-> TRUE]
        BY <2>2, <3>1, <4>1 DEF Image, Repos
      <4>3. staged' \in Repos
        BY <4>1, <4>2 DEF Repos
      <4> QED
        BY <3>1, <4>3, DeployInputs
    <3> QED
      BY <2>2, <3>1 DEF Image, Remote, Goto, Staging
  <2>3. CASE Verify
    BY <2>3 DEF Verify, Remote, Goto, Staging, repos
  <2>4. CASE Retire
    BY <2>4, RepoMoves DEF Retire, Goto, Cut, Staging
  <2>5. CASE Swap \/ Cleanup \/ SyncManifest
    BY <2>5 DEF Swap, Cleanup, SyncManifest, Goto, Cut, Fails, Staging
  <2>6. CASE UNCHANGED staged /\ (pc' = pc \/ pc' \notin Staging)
    BY <2>6
  <2>7. CASE \E m \in Modes, z \in (SUBSET Docs) \ {{}} : Start(m, z)
    BY <2>7 DEF Start, Staging
  <2>8. CASE Pack \/ Compare \/ Preflight
    BY <2>8 DEF Pack, Compare, Preflight, Staging
  <2>9. UNCHANGED staged \/ Upload \/ Image \/ Swap \/ Cleanup
    BY RepoMoves
  <2>10. pc' = pc \/ pc' \notin Staging \/ Upload \/ Image \/ Verify \/ Retire
    <3>1. CASE \/ Upload \/ Image \/ Verify \/ Retire
      BY <3>1
    <3>2. CASE pc' \in {"idle", "manifest", "preflight", "cleanup", "link", "clean", "submit", "poll",
                       "exit", "fetch", "check", "index", "ingest", "batch"}
      BY <3>2 DEF Staging
    <3>3. CASE Pack \/ Compare \/ Preflight \/ \E m \in Modes, z \in (SUBSET Docs) \ {{}} : Start(m, z)
      BY <3>3 DEF Pack, Compare, Preflight, Start, Staging
    <3> QED
      BY <3>1, <3>2, <3>3, PlaceMoves
  <2> QED
    BY <2>1, <2>2, <2>3, <2>4, <2>5, <2>6, <2>9, <2>10
<1>4. \A r \in {target', previous'} \ {None} : r.image
  <2>1. CASE SyncConfig \/ SyncManifest
    <3>1. target # None
      BY <2>1 DEF SyncConfig, SyncManifest
    <3>2. previous' = previous
      BY <2>1 DEF SyncConfig, SyncManifest
    <3>3. target' = target \/ target'.image = target.image
      BY <2>1, RepoMoves DEF SyncConfig, SyncManifest, Upload, Image, Remote, Retire, Swap, Cleanup
    <3> QED
      BY <3>1, <3>2, <3>3
  <2>2. CASE Swap
    BY <2>2 DEF Swap
  <2> QED
    BY <2>1, <2>2, RepoMoves
<1>5. pc' \in Packing \cup Sending => mode' # "local"
  <2> USE DEF Packing, Sending, Staging, Local
  <2>1. CASE \E m \in Modes, z \in (SUBSET Docs) \ {{}} : Start(m, z)
    BY <2>1 DEF Start
  <2>2. CASE Pack \/ Compare \/ Preflight
    BY <2>2 DEF Pack, Compare, Preflight
  <2> QED
    BY <2>1, <2>2, PlaceMoves DEF SyncConfig, SyncManifest, Upload, Image, Verify, Retire, Swap, Link,
       Cleanup, Remote, Push, Submit, Poll, PollBlip, ReadExit, Fetch
<1>6. pc' \in Local => mode' = "local"
  <2> USE DEF Packing, Sending, Staging, Local
  <2>1. CASE \E m \in Modes, z \in (SUBSET Docs) \ {{}} : Start(m, z)
    BY <2>1 DEF Start
  <2>2. CASE Pack \/ Compare \/ Preflight
    BY <2>2 DEF Pack, Compare, Preflight
  <2> QED
    BY <2>1, <2>2, PlaceMoves DEF TakeBatch, Ingest, IngestDies
<1> QED
  BY <1>1, <1>2, <1>3, <1>4, <1>5, <1>6 DEF Staging

\* It holds to begin with, ...
LEMMA ShapeInit == Init => Shape
<1> USE Bounds, DeployInputs DEF Init
<1>1. Init => Script /\ Trees
  BY DEF Script, Trees
<1>6. Init => Driven
  BY DEF Driven, Drivers, NoDriver
<1>7. Init => Place
  BY DEF Place, Packing, Sending, Staging, Local
<1>2. Init => missing \in 0 .. 2 /\ mine \in 0 .. MaxRuns
  OBVIOUS
<1>3. Init => seen \in BOOLEAN
  BY Zenon
<1>4. Init => Counted
  BY DEF Counted, Counts
<1>5. Init => Cluster
  BY DEF Cluster, JobRecords, NoJob
<1> QED
  BY <1>1, <1>2, <1>3, <1>4, <1>5, <1>6, <1>7 DEF Shape, Waiting

\* ... every step keeps it, ...
LEMMA ShapeKept == Shape /\ [Next]_vars => Shape'
BY ScriptKept, WaitingKept, CountedKept, DrivenKept, TreesKept, ClusterKept, PlaceKept DEF Shape

\* ... and so it holds whatever happens, every incident included.
THEOREM TypeCorrect == Spec => []Shape
BY ShapeInit, ShapeKept, PTL DEF Spec

\* It implies the type invariant that the runs check.
LEMMA ShapeTypes == Shape => TypeOK
<1> SUFFICES ASSUME Shape PROVE TypeOK
  OBVIOUS
<1>1. \A r \in Repos : IsRepo(r)
  BY DEF Repos, Manifests, IsRepo
<1>2. \A r \in {target, previous, staged} \ {None} : r \in Repos
  BY DEF Shape, Trees
<1>3. driver.attempts \in 0 .. Retries + 1
  BY DEF Shape, Driven, Drivers
<1>4. missing \in 0 .. 2
  BY DEF Shape, Waiting
<1>5. /\ parsed \subseteq data
      /\ \A k \in DOMAIN jobs : jobs[k].good \subseteq parsed /\ jobs[k].input \subseteq data
  BY DEF Shape, Cluster
<1> QED
  BY <1>1, <1>2, <1>3, <1>4, <1>5 DEF Shape, Script, Trees, Place, TypeOK

\* A manifest on the cluster, through a step.
LEMMA CurrentKept == ASSUME "reverted" \notin Incidents PROVE Shape /\ Current /\ [Next]_vars => Current'
<1> SUFFICES ASSUME Shape, Current, [Next]_vars PROVE Current'
  OBVIOUS
<1>0. Shape'
  BY ShapeKept
<1>a. config \in Nat /\ config' \in Nat /\ config <= config' /\ Versions \subseteq Nat
  <2>1. config' = config \/ config' > config
    <3>1. CASE config' = config
      BY <3>1
    <3>2. CASE \E v \in Versions : EditConfig(v) /\ config' = v
      <4> PICK v \in Versions : EditConfig(v) /\ config' = v
        BY <3>2
      <4>1. v # config /\ ~(v < config)
        BY DEF EditConfig, Allowed
      <4> QED
        BY <4>1, Bounds DEF Shape, Trees
    <3> QED
      BY <3>1, <3>2, TreeMoves
  <2> QED
    BY <1>0, <2>1, Bounds DEF Shape, Trees
<1>b. \A m \in Manifests : m.config \in Nat
  BY Bounds DEF Manifests
<1>c. \A r \in Repos : r.manifest # None => r.manifest \in Manifests
  BY DEF Repos
<1>d. target \in Repos \cup {None} /\ staged \in Repos \cup {None}
  BY DEF Shape, Trees
<1>1. packed' # None => packed'.config <= config'
  <2>1. CASE Pack \/ Compare \/ Preflight
    BY <2>1, <1>a, <1>b DEF Pack, Compare, Preflight, Current, Manifest, tree, Shape, Script
  <2>2. CASE packed' = packed
    BY <2>2, <1>a, <1>b DEF Current, Shape, Script
  <2>3. packed' = None \/ packed' = packed \/ Pack \/ Compare \/ Preflight
    BY PlaceMoves DEF Start
  <2> QED
    BY <2>1, <2>2, <2>3
<1>2. staged' # None => /\ staged'.manifest # None /\ staged'.config = staged'.manifest.config
                        /\ staged'.manifest.source = staged'.source
                        /\ staged'.manifest.config <= config'
  <2>1. CASE Upload
    <3>1. packed \in Manifests /\ packed.config <= config
      BY <2>1 DEF Upload, Remote, Shape, Script, Place, Current
    <3> QED
      BY <2>1, <3>1, <1>a, <1>b, DeployInputs DEF Upload
  <2>2. CASE Image
    <3>1. staged \in Repos /\ staged.manifest \in Manifests
      BY <2>2, <1>d DEF Image, Remote, Shape, Place, Staging, Current, Repos
    <3> DEFINE b == (pc' = "verify")
    <3>2. staged' = [staged EXCEPT !.image = b]
      BY <2>2 DEF Image
    <3> HIDE DEF b
    <3>3. /\ staged'.source = staged.source /\ staged'.config = staged.config
          /\ staged'.manifest = staged.manifest
      BY <3>1, <3>2 DEF Repos
    <3>4. staged # None /\ staged.config = staged.manifest.config
          /\ staged.manifest.source = staged.source /\ staged.manifest.config <= config
      BY <3>1, DeployInputs DEF Current, Manifests
    <3> QED
      BY <3>1, <3>3, <3>4, <1>a, <1>b, DeployInputs
  <2>3. CASE staged' = staged
    <3>1. staged # None => staged.manifest \in Manifests
      BY <1>c, <1>d DEF Current
    <3> QED
      BY <2>3, <3>1, <1>a, <1>b DEF Current
  <2> QED
    BY <2>1, <2>2, <2>3, RepoMoves
<1>3. target' # None =>
         /\ target'.manifest # None => target'.manifest.source = target'.source
                                      /\ target'.manifest.config <= config'
         /\ target'.manifest # None => target'.config = target'.manifest.config
                                      \/ target'.manifest.config < config'
  <2>1. CASE SyncConfig
    <3>1. target \in Repos /\ claim \in Manifests /\ claim.config <= config
      BY <2>1, <1>d DEF SyncConfig, Shape, Place, Current, Script
    <3>2. PICK c \in {config, target.config, 0} : target' = [target EXCEPT !.config = c]
      BY <2>1 DEF SyncConfig
    <3>3. target'.manifest = target.manifest /\ target'.source = target.source
      BY <3>1, <3>2 DEF Repos
    <3>4. target.manifest # None => target.manifest.config < claim.config
      BY <2>1 DEF SyncConfig, Current
    <3>5. target.manifest # None =>
             target.manifest \in Manifests /\ target.manifest.source = target.source
      BY <3>1, <1>c, DeployInputs DEF Current
    <3>6. target.manifest # None => target.manifest.config < config'
      BY <3>1, <3>4, <3>5, <1>a, <1>b
    <3> QED
      BY <3>3, <3>5, <3>6, <1>a, <1>b
  <2>2. CASE SyncManifest
    <3>1. target \in Repos /\ claim \in Manifests /\ claim.config <= config
      BY <2>2, <1>d DEF SyncManifest, Shape, Place, Current, Script
    <3>2. PICK m \in {claim, target.manifest, None} : target' = [target EXCEPT !.manifest = m]
      BY <2>2 DEF SyncManifest
    <3>3. target'.manifest = m /\ target'.source = target.source /\ target'.config = target.config
      BY <3>1, <3>2 DEF Repos
    <3>4. /\ target.manifest # None => target.manifest.config < claim.config
          /\ target.config = claim.config \/ claim.config < config
          /\ claim.source = target.source
      BY <2>2 DEF SyncManifest, Current
    <3>5. target.manifest # None =>
             target.manifest \in Manifests /\ target.manifest.source = target.source
             /\ target.manifest.config < config'
      BY <3>1, <3>4, <1>a, <1>b, <1>c, DeployInputs DEF Current
    <3>6. claim.config <= config' /\ (target.config = claim.config \/ claim.config < config')
      BY <3>1, <3>4, <1>a, <1>b
    <3> QED
      BY <3>2, <3>3, <3>4, <3>5, <3>6, <1>a, <1>b
  <2>3. CASE Swap
    BY <2>3, <1>a, <1>b, <1>c, <1>d DEF Swap, Current
  <2>4. CASE target' = target
    BY <2>4, <1>a, <1>b, <1>c, <1>d DEF Current
  <2> QED
    BY <2>1, <2>2, <2>3, <2>4, RepoMoves
<1>4. pc' \in {"config", "manifest"} =>
         /\ claim'.source = target'.source /\ claim'.config <= config'
         /\ target'.manifest # None => target'.manifest.config < claim'.config
         /\ pc' = "manifest" => target'.config = claim'.config \/ claim'.config < config'
  <2>1. CASE Compare
    <3> SUFFICES ASSUME pc' = "config" PROVE pc' \in {"config", "manifest"} =>
         /\ claim'.source = target'.source /\ claim'.config <= config'
         /\ target'.manifest # None => target'.manifest.config < claim'.config
         /\ pc' = "manifest" => target'.config = claim'.config \/ claim'.config < config'
      BY <2>1 DEF Compare
    <3>1. target' = target /\ target # None /\ target.manifest # None /\ target.manifest.source = source
          /\ claim' = Manifest /\ target.manifest # Manifest
      BY <2>1 DEF Compare, SourceCurrent, repos
    <3>2. target.manifest \in Manifests
      BY <3>1, <1>c, <1>d
    <3>3. target.manifest = [source |-> target.manifest.source, config |-> target.manifest.config]
      BY <3>2 DEF Manifests
    <3>4. target.manifest.config # config
      BY <3>1, <3>3 DEF Manifest
    <3>5. target.source = source /\ target.manifest.config <= config
      BY <3>1 DEF Current
    <3> QED
      BY <3>1, <3>2, <3>4, <3>5, <1>a, <1>b DEF Manifest
  <2>2. CASE SyncConfig
    <3> SUFFICES ASSUME pc' # "idle" PROVE
         /\ claim'.source = target'.source /\ claim'.config <= config'
         /\ target'.manifest # None => target'.manifest.config < claim'.config
         /\ pc' = "manifest" => target'.config = claim'.config \/ claim'.config < config'
      OBVIOUS
    <3>1. target' = [target EXCEPT !.config = config] /\ claim' = claim
      BY <2>2 DEF SyncConfig, Goto, Fails
    <3>2. target \in Repos /\ claim \in Manifests
      BY <2>2, <1>d DEF SyncConfig, Shape, Place, Script
    <3>3. target'.source = target.source /\ target'.manifest = target.manifest /\ target'.config = config
      BY <3>1, <3>2 DEF Repos
    <3>4. /\ claim.source = target.source /\ claim.config <= config
          /\ target.manifest # None => target.manifest.config < claim.config
      BY <2>2 DEF SyncConfig, Current
    <3> QED
      BY <3>1, <3>2, <3>3, <3>4, <1>a, <1>b, <1>c
  <2>3. CASE SyncManifest
    BY <2>3 DEF SyncManifest, Goto, Fails
  <2>4. CASE pc' = pc /\ UNCHANGED <<target, claim>>
    <3> SUFFICES ASSUME pc \in {"config", "manifest"} PROVE
         /\ claim.source = target.source /\ claim.config <= config'
         /\ target.manifest # None => target.manifest.config < claim.config
         /\ pc = "manifest" => target.config = claim.config \/ claim.config < config'
      BY <2>4
    <3>1. claim \in Manifests
      BY DEF Shape, Script, Place
    <3> QED
      BY <3>1, <1>a, <1>b, <1>c DEF Current
  <2>5. CASE pc' \notin {"config", "manifest"}
    BY <2>5
  <2>6. pc' \in {"config", "manifest"} => SyncConfig \/ Compare \/ SyncManifest \/ (pc' = pc /\ UNCHANGED claim)
    <3>1. CASE \/ Pack \/ Preflight \/ \E m \in Modes, z \in (SUBSET Docs) \ {{}} : Start(m, z)
      BY <3>1 DEF Start, Pack, Preflight
    <3> QED
      BY <3>1, PlaceMoves
  <2>7. target' = target \/ SyncConfig \/ SyncManifest \/ pc \in {"retire", "swap"}
    BY RepoMoves DEF Retire, Swap
  <2> QED
    BY <2>1, <2>2, <2>3, <2>4, <2>5, <2>6, <2>7
<1> QED
  BY <1>1, <1>2, <1>3, <1>4 DEF Current

\* A repository stays on the cluster, through a step.
LEMMA RepoStays ==
    ASSUME "twice" \notin Incidents PROVE Shape /\ Kept /\ [Next]_vars => Kept'
<1> SUFFICES ASSUME Shape, Kept, [Next]_vars PROVE Kept'
  OBVIOUS
<1>0. count.cuts \in Nat
  BY DEF Shape, Counted, Counts
<1>1. CASE Retire
  <2>1. pc = "retire" /\ deployed' = deployed
    BY <1>1 DEF Retire
  <2>2. CASE previous' = target /\ target' = None /\ pc' = "swap" /\ count' = count
    BY <2>1, <2>2 DEF Kept
  <2>3. CASE target' = target /\ Cut /\ previous' \in {previous, None}
    BY <2>1, <2>3, <1>0, CutOff DEF Kept, Cut, Allowed, Goto
  <2>4. CASE target' = target /\ pc' = "swap" /\ Slip
    BY <2>1, <2>4, Slipped DEF Kept
  <2>5. CASE target' = None /\ previous # None /\ previous' = previous /\ pc' = "swap" /\ Slip
    BY <2>1, <2>5, Slipped DEF Kept
  <2> QED
    BY <1>1, <2>2, <2>3, <2>4, <2>5 DEF Retire, Goto
<1>2. CASE Swap
  <2>1. pc = "swap" /\ previous' = previous /\ staged # None
    BY <1>2 DEF Swap, Shape, Place, Staging
  <2>2. CASE target' = (IF target = None THEN staged ELSE target) /\ pc' = "link"
    BY <1>2, <2>1, <2>2 DEF Kept
  <2>3. CASE UNCHANGED <<target, deployed>> /\ Cut
    BY <2>1, <2>3, <1>0, CutOff DEF Kept, Cut, Allowed, Goto
  <2> QED
    BY <1>2, <2>2, <2>3 DEF Swap, Goto
<1>3. CASE SyncConfig \/ SyncManifest
  <2>1. target \in Repos
    BY <1>3 DEF SyncConfig, SyncManifest, Shape, Place, Trees
  <2>2. target' # None
    <3>1. CASE SyncConfig
      <4>1. PICK c \in {config, target.config, 0} : target' = [target EXCEPT !.config = c]
        BY <3>1 DEF SyncConfig
      <4>2. c \in Versions \cup {0}
        BY <2>1 DEF Repos, Shape, Trees
      <4>3. target' \in Repos
        BY <2>1, <4>1, <4>2 DEF Repos
      <4> QED
        BY <4>3, DeployInputs
    <3>2. CASE SyncManifest
      <4>1. PICK m \in {claim, target.manifest, None} : target' = [target EXCEPT !.manifest = m]
        BY <3>2 DEF SyncManifest
      <4>2. m \in Manifests \cup {None}
        BY <2>1 DEF Repos, Shape, Script
      <4>3. target' \in Repos
        BY <2>1, <4>1, <4>2 DEF Repos
      <4> QED
        BY <4>3, DeployInputs
    <3> QED
      BY <1>3, <3>1, <3>2
  <2>3. pc' # "swap"
    BY <1>3 DEF SyncConfig, SyncManifest, Goto, Fails
  <2> QED
    BY <2>2, <2>3 DEF Kept
<1>4. CASE ~(Retire \/ Swap \/ SyncConfig \/ SyncManifest)
  <2>1. UNCHANGED <<target, previous, deployed>> /\ count'.cuts = count.cuts
    BY <1>4, RepoMoves, CountMoves
  <2>2. pc' = "swap" <=> pc = "swap"
    <3>1. CASE \/ Pack \/ Compare \/ Preflight \/ Stop
               \/ \E m \in Modes, z \in (SUBSET Docs) \ {{}} : Start(m, z)
      BY <3>1 DEF Pack, Compare, Preflight, Start, Stop, Fails
    <3>2. pc = "swap" => pc' = "swap"
      BY <1>4 DEF Next, ScriptStep, vars, script, Stop, Start, StartServer, StopServer, EditSource,
         EditConfig, JobStep, OfTheJob, JobListed, JobStarts, JobEnds, JobKilled, JobRecorded,
         JobForgotten, JobParses, Pack, Compare, Upload, Image, Verify,
         Link, Cleanup, Remote, Preflight, PreflightFails, Push, Submit, SubmitFails, Poll, PollBlip,
         PollTimeout, ReadExit, Fetch, Check, Index, SkipIndex, TakeBatch, Ingest, IngestDies,
         BatchesDone, PerFile
    <3>3. pc' = "swap" => pc = "swap"
      BY <1>4, <3>1, PlaceMoves
    <3> QED
      BY <3>2, <3>3
  <2> QED
    BY <2>1, <2>2 DEF Kept
<1> QED
  BY <1>1, <1>2, <1>3, <1>4

\* No server runs beside a deployment, through a step.
LEMMA AloneKept == ASSUME "served" \notin Incidents PROVE Shape /\ Alone /\ [Next]_vars => Alone'
<1> SUFFICES ASSUME Shape, Alone, [Next]_vars PROVE Alone'
  OBVIOUS
<1> USE DEF Shape, Place, Sending, Local, Packing, Staging
<1>1. CASE \E m \in Modes, z \in (SUBSET Docs) \ {{}} : Start(m, z)
  BY <1>1 DEF Start, Alone
<1>2. CASE Pack \/ Compare
  BY <1>2 DEF Pack, Compare, Alone
<1>3. CASE Preflight
  BY <1>3 DEF Preflight, Alone
<1>4. CASE StartServer
  BY <1>4 DEF StartServer, Allowed, Alone, script
<1>5. CASE ~StartServer /\ ~Preflight /\ ~Pack /\ ~Compare /\ ~\E m \in Modes, z \in (SUBSET Docs) \ {{}} : Start(m, z)
  <2>1. server' = TRUE => server = TRUE
    BY <1>5, TreeMoves
  <2>2. server' = FALSE \/ server' = server
    BY <1>5, TreeMoves
  <2>3. pc' \in Sending \cup {"index"} /\ mode' # "local" => pc \in Sending \cup {"index"} /\ mode # "local"
    BY <1>5, PlaceMoves DEF SyncConfig, SyncManifest, Upload, Image, Verify, Retire, Swap, Link,
       Cleanup, Remote, Push, Submit, Poll, PollBlip, ReadExit, Fetch, Check, TakeBatch, BatchesDone,
       Ingest, IngestDies
  <2> QED
    BY <2>2, <2>3 DEF Alone
<1> QED
  BY <1>1, <1>2, <1>3, <1>4, <1>5

\* The invariant for the cluster and this machine.
CInv == Shape /\ Current /\ Kept /\ Alone

\* The invariant holds as long as nobody takes an edit of config.toml back, no
\* activation is cut off after another, and no server is started meanwhile.
THEOREM ClusterInvariance ==
    ASSUME Incidents \cap {"reverted", "twice", "served"} = {}
    PROVE  Spec => []CInv
<1>1. Init => CInv
  BY ShapeInit DEF Init, CInv, Current, Kept, Alone, Sending
<1>2. CInv /\ [Next]_vars => CInv'
  BY ShapeKept, CurrentKept, RepoStays, AloneKept DEF CInv
<1> QED
  BY <1>1, <1>2, PTL DEF Spec

\* It implies what the runs check.
LEMMA CInvSound == CInv => ClusterSound
<1> SUFFICES ASSUME CInv PROVE ClusterSound
  OBVIOUS
<1>1. TypeOK
  BY ShapeTypes DEF CInv
<1>2. ManifestTrue
  <2> SUFFICES ASSUME target # None, target.manifest = Manifest
      PROVE target.source = source /\ target.config = config
    BY DEF ManifestTrue
  <2>1. Manifest \in Manifests /\ Manifest.source = source /\ Manifest.config = config
    BY DEF CInv, Shape, Trees, Manifest, Manifests
  <2>2. config \in Nat
    BY Bounds DEF CInv, Shape, Trees
  <2> QED
    BY <2>1, <2>2, DeployInputs DEF CInv, Current
<1>3. RepoKept
  BY DEF CInv, Kept, RepoKept, Shape, Place, Staging
<1>4. BuildAlone
  BY DEF CInv, Alone, BuildAlone
<1> QED
  BY <1>1, <1>2, <1>3, <1>4 DEF ClusterSound

\* Wherever a call over ssh fails or the script stops, the manifest tells what is
\* deployed, the cluster has a whole repository from the first activation on, and
\* no index is built under a running server.
THEOREM ClusterIsSound ==
    ASSUME Incidents \cap {"reverted", "twice", "served"} = {}
    PROVE  Spec => []ClusterSound
<1>1. Spec => []CInv
  BY ClusterInvariance
<1> QED
  BY <1>1, CInvSound, PTL

\* What a step does to what a run reports.
LEMMA ReportMoves ==
    ASSUME Shape, [Next]_vars
    PROVE  \/ UNCHANGED <<zip, told, outcome>>
           \/ pc' = "idle" /\ outcome' = "failed" /\ zip' \subseteq zip
           \/ (Index \/ SkipIndex) /\ pc' = "idle" /\ outcome' = "ok" /\ UNCHANGED <<zip, told>>
           \/ Check /\ pc' = "index" /\ UNCHANGED <<zip, outcome>>
           \/ \E d \in Docs : PerFile(d) /\ UNCHANGED <<zip, outcome, pc>> /\ told \subseteq told'
           \/ \E m \in Modes, z \in (SUBSET Docs) \ {{}} : Start(m, z)
<1> USE DEF Goto, Fails, Succeeds
<1>1. CASE (\E m \in Modes, z \in (SUBSET Docs) \ {{}} : Start(m, z)) \/ Stop \/ Pack \/ Compare \/ Preflight
  BY <1>1 DEF Stop, Pack, Compare, Preflight
<1>2. CASE SyncConfig \/ SyncManifest \/ Cleanup \/ Upload \/ Image \/ Verify \/ Link \/ Retire \/ Swap
  BY <1>2 DEF SyncConfig, SyncManifest, Cleanup, Upload, Image, Verify, Link, Remote, Retire, Swap, Cut
<1>3. CASE Push \/ Submit \/ SubmitFails \/ PreflightFails \/ Poll \/ PollBlip \/ PollTimeout
  BY <1>3 DEF Push, Submit, SubmitFails, PreflightFails, Poll, PollBlip, PollTimeout, NotFound
<1>4. CASE ReadExit \/ Fetch
  BY <1>4 DEF ReadExit, Fetch
<1>5. CASE Check
  BY <1>5 DEF Check
<1>6. CASE Index \/ SkipIndex
  BY <1>6 DEF Index, SkipIndex
<1>7. CASE TakeBatch \/ Ingest \/ IngestDies \/ BatchesDone
  BY <1>7 DEF TakeBatch, Ingest, IngestDies, BatchesDone, Judged
<1>8. CASE \E d \in Docs : PerFile(d)
  BY <1>8 DEF PerFile
<1>9. CASE UNCHANGED script
  BY <1>9 DEF script
<1>10. CASE \/ StartServer \/ StopServer \/ (\E v \in Versions : EditSource(v) \/ EditConfig(v))
           \/ \E k \in DOMAIN jobs : JobStep(k)
  BY <1>9, <1>10 DEF StartServer, StopServer, EditSource, EditConfig, JobStep, OfTheJob, JobListed,
     JobStarts, JobEnds, JobKilled, JobRecorded, JobForgotten, JobParses
<1> QED
  BY <1>1, <1>2, <1>3, <1>4, <1>5, <1>6, <1>7, <1>8, <1>9, <1>10 DEF Next, ScriptStep, vars

\* A step of a job is none of the script.
LEMMA JobAside ==
    ASSUME NEW k \in DOMAIN jobs, JobStep(k)
    PROVE  UNCHANGED <<pc, mode, zip, told, outcome, mine, missing, seen, driver, home, homeResult>>
BY DEF JobStep, OfTheJob, JobListed, JobStarts, JobEnds, JobKilled, JobRecorded, JobForgotten, JobParses,
   script, waiting, here

\* A run's own job does not exist before it is submitted.
LEMMA FreshKept == Shape /\ Fresh /\ [Next]_vars => Fresh'
<1> SUFFICES ASSUME Shape, Fresh, [Next]_vars PROVE Fresh'
  OBVIOUS
<1>0. count.runs \in 0 .. MaxRuns /\ DOMAIN jobs = 1 .. MaxRuns /\ MaxRuns \in Nat
  BY Bounds DEF Shape, Counted, Counts, Cluster
<1>1. CASE \E m \in Modes, z \in (SUBSET Docs) \ {{}} : Start(m, z)
  <2>1. mine' = 0 /\ jobs' = jobs
    BY <1>1 DEF Start
  <2>2. count'.runs = count.runs + 1 /\ count'.runs \in 1 .. MaxRuns
    BY <1>0, <1>1, Ticked, Bounds DEF Start, Counts
  <2> QED
    BY <1>0, <2>1, <2>2 DEF Fresh
<1>2. CASE Submit
  <2>1. /\ pc = "submit" /\ pc' \in {"poll", "idle"}
        /\ \A k \in DOMAIN jobs : k # count.runs => jobs'[k] = jobs[k]
        /\ DOMAIN jobs' = DOMAIN jobs
    BY <1>0, <1>2 DEF Submit, Goto, Fails
  <2>2. count'.runs = count.runs
    BY <1>2, Slipped DEF Submit
  <2> QED
    BY <1>0, <2>1, <2>2 DEF Fresh, Early, Packing, Staging, Local
<1>3. CASE \E k \in DOMAIN jobs : JobStep(k)
  <2> PICK k \in DOMAIN jobs : JobStep(k)
    BY <1>3
  <2>1. PICK r \in JobRecords : jobs' = [jobs EXCEPT ![k] = r]
    BY JobMoves
  <2>2. jobs[k].state # "none"
    BY DEF JobStep, JobListed, JobStarts, JobEnds, JobKilled, JobRecorded, JobForgotten, JobParses
  <2>3. jobs[k] # NoJob
    BY <2>2 DEF NoJob
  <2>4. count'.runs = count.runs
    BY Ticked, Bounds DEF JobStep, JobListed, JobStarts, JobEnds, JobKilled, JobRecorded, JobForgotten,
       JobParses
  <2> QED
    BY <1>0, <2>1, <2>3, <2>4, JobAside DEF Fresh, Early
<1>4. CASE ~Submit /\ (~\E m \in Modes, z \in (SUBSET Docs) \ {{}} : Start(m, z)) /\ ~\E k \in DOMAIN jobs : JobStep(k)
  <2>1. jobs' = jobs /\ count'.runs = count.runs
    BY <1>4, ClusterMoves, CountMoves
  <2>2. mine' = 0 \/ mine' = mine
    BY <1>4, WaitMoves
  <2>3. pc' \in Early \cup Local => pc \in Early \cup Local
    BY <1>4, PlaceMoves DEF Pack, Compare, Preflight, Early, Packing, Staging, Local, SyncConfig, SyncManifest,
       Upload, Image, Verify, Retire, Swap, Link, Cleanup, Remote, Push, TakeBatch, Ingest, IngestDies
  <2>4. pc' \in Early => pc \in Early
    BY <1>4, PlaceMoves DEF Pack, Compare, Preflight, Early, Packing, Staging, Local, SyncConfig, SyncManifest,
       Upload, Image, Verify, Retire, Swap, Link, Cleanup, Remote, Push, TakeBatch, Ingest, IngestDies
  <2> QED
    BY <2>1, <2>2, <2>3, <2>4 DEF Fresh
<1> QED
  BY <1>1, <1>2, <1>3, <1>4

\* A run that stays where it waits keeps its job.
LEMMA MineStays ==
    ASSUME Shape, [Next]_vars, pc' = pc, pc \in {"poll", "exit", "fetch", "check"}
    PROVE  mine' = mine
<1>1. CASE UNCHANGED waiting
  BY <1>1 DEF waiting
<1>2. CASE Poll \/ PollBlip
  BY <1>2 DEF Poll, PollBlip
<1>3. CASE \/ StartServer \/ StopServer \/ (\E v \in Versions : EditSource(v) \/ EditConfig(v))
           \/ \E k \in DOMAIN jobs : JobStep(k)
  BY <1>1, <1>3 DEF StartServer, StopServer, EditSource, EditConfig, JobStep, OfTheJob, JobListed,
     JobStarts, JobEnds, JobKilled, JobRecorded, JobForgotten, JobParses
<1>4. CASE Stop \/ \E m \in Modes, z \in (SUBSET Docs) \ {{}} : Start(m, z)
  BY <1>4 DEF Stop, Start, Fails
<1>5. CASE ~(Poll \/ PollBlip) /\ ScriptStep
  BY <1>1, <1>5 DEF ScriptStep, Pack, Compare, SyncConfig, SyncManifest, Upload, Image, Verify, Retire, Swap,
     Link, Cleanup, Remote, Preflight, PreflightFails, Push, Submit, SubmitFails,
     PollTimeout, ReadExit, Fetch, Check, Index, SkipIndex, TakeBatch, Ingest, IngestDies,
     BatchesDone, PerFile, Fails
<1> QED
  BY <1>1, <1>2, <1>3, <1>4, <1>5 DEF Next, vars

\* A job that goes on.
LEMMA AlikeGoesOn ==
    ASSUME Trusted, Shape, NEW k \in DOMAIN jobs, JobStep(k), mine \in DOMAIN jobs, Alike(mine),
           zip \subseteq data
    PROVE  Alike(mine)'
<1>1. PICK r \in JobRecords : jobs' = [jobs EXCEPT ![k] = r]
  BY JobMoves
<1>2. DOMAIN jobs' = DOMAIN jobs /\ jobs'[k] = r /\ \A l \in DOMAIN jobs : l # k => jobs'[l] = jobs[l]
  BY <1>1
<1>3. zip' = zip /\ mine' = mine
  BY JobAside
<1>4. Live(k)' => Live(k)
  BY <1>2, JobMoves DEF Live
<1>5. CASE k # mine
  <2>1. jobs'[mine] = jobs[mine] /\ ~Live(k)
    BY <1>2, <1>5 DEF Alike
  <2>2. result' = result
    BY <2>1, JobMoves DEF Live
  <2>3. \A l \in DOMAIN jobs' : l # mine' => ~Live(l)'
    BY <1>2, <1>3, <1>4, <1>5, <2>1 DEF Alike, Live
  <2> QED
    BY <1>3, <2>1, <2>2, <2>3 DEF Alike
<1>6. CASE k = mine
  <2>1. \A l \in DOMAIN jobs' : l # mine' => ~Live(l)'
    BY <1>2, <1>3, <1>6 DEF Alike, Live
  <2>2. r.state # "none"
    BY <1>1, <1>2, JobMoves
  <2>3. r.state \in {"running"} \cup Over => zip \subseteq r.input
    BY <1>2, <1>6, JobMoves DEF Alike, Over
  <2>4. r.state = "forgotten" => r.exit = 0
    BY <1>2, <1>6, JobMoves DEF Alike, Trusted, JobForgotten, Allowed
  <2>5. r.state \in Over /\ r.exit = 0 =>
           r.input \subseteq r.good \cup r.failed /\ result' # None /\ result'.failed = r.failed
    <3>1. [good |-> jobs[k].good, failed |-> jobs[k].failed, abrupt |-> FALSE] \in Results
      BY DEF Shape, Cluster, JobRecords, Results
    <3> SUFFICES ASSUME r.state \in Over, r.exit = 0
        PROVE  r.input \subseteq r.good \cup r.failed /\ result' # None /\ result'.failed = r.failed
      OBVIOUS
    <3>2. CASE jobs[k].state = "running"
      <4>1. /\ r.input = jobs[k].input /\ r.good = jobs[k].good /\ r.failed = jobs[k].failed
            /\ jobs[k].input \subseteq jobs[k].good \cup jobs[k].failed
            /\ result' = [good |-> jobs[k].good, failed |-> jobs[k].failed, abrupt |-> FALSE]
        BY <1>2, <3>2, JobMoves DEF Over
      <4> QED
        BY <3>1, <4>1, DeployInputs
    <3>3. CASE jobs[k].state \in Over
      <4>1. /\ r.input = jobs[k].input /\ r.good = jobs[k].good /\ r.failed = jobs[k].failed
            /\ r.exit = jobs[k].exit /\ result' = result
        BY <1>2, <3>3, JobMoves DEF Over
      <4> QED
        BY <1>6, <3>3, <4>1 DEF Alike
    <3> QED
      BY <1>2, <3>2, <3>3, JobMoves DEF Over
  <2> QED
    BY <1>2, <1>3, <1>6, <2>1, <2>2, <2>3, <2>4, <2>5 DEF Alike
<1> QED
  BY <1>5, <1>6

\* The run that waits has the job that brings its PDFs, through a step.
LEMMA HiredKept ==
    ASSUME Trusted PROVE Shape /\ Fresh /\ Hired /\ [Next]_vars => Hired'
<1> SUFFICES ASSUME Shape, Fresh, Hired, [Next]_vars PROVE Hired'
  OBVIOUS
<1>0. DOMAIN jobs = 1 .. MaxRuns /\ mine \in 0 .. MaxRuns /\ MaxRuns \in Nat
  BY Bounds DEF Shape, Waiting, Cluster
<1>1. CASE \E k \in DOMAIN jobs : JobStep(k)
  <2> PICK k \in DOMAIN jobs : JobStep(k)
    BY <1>1
  <2>1. UNCHANGED <<pc, zip, mine, data>>
    BY JobAside DEF JobStep, OfTheJob, JobListed, JobStarts, JobEnds, JobKilled, JobRecorded,
       JobForgotten, JobParses
  <2>2. mine # 0 => Alike(mine)'
    BY <1>0, AlikeGoesOn DEF Hired
  <2> QED
    BY <2>1, <2>2 DEF Hired
<1>2. CASE Submit
  <2>1. /\ pc = "submit" /\ count.runs \in DOMAIN jobs /\ jobs[count.runs] = NoJob /\ mine = 0
        /\ zip \subseteq data /\ \A l \in DOMAIN jobs : ~Live(l)
    <3>1. pc = "submit" /\ \A l \in DOMAIN jobs : ~Live(l)
      BY <1>2 DEF Submit, Allowed, Trusted
    <3>2. count.runs \in 1 .. MaxRuns
      BY <1>0, <3>1 DEF Shape, Counted, Counts
    <3> QED
      BY <1>0, <3>1, <3>2 DEF Fresh, Early, Hired
  <2>2. CASE mine' = count.runs
    <3>1. /\ jobs' = [jobs EXCEPT ![count.runs].state = "new"]
          /\ UNCHANGED <<zip, data>> /\ pc' = "poll"
      BY <1>2, <2>1, <2>2, <1>0 DEF Submit, Goto, corpus, Fails, Shape, Counted
    <3>2. jobs'[count.runs] = [NoJob EXCEPT !.state = "new"]
      BY <2>1, <3>1
    <3>3. jobs'[count.runs].state = "new"
      BY <3>2 DEF NoJob
    <3>4. \A l \in DOMAIN jobs' : l # count.runs => ~Live(l)'
      BY <2>1, <3>1 DEF Live
    <3>5. Alike(mine)'
      BY <2>2, <3>3, <3>4 DEF Alike, Over
    <3> QED
      BY <1>0, <2>1, <2>2, <3>1, <3>5 DEF Hired
  <2>3. CASE mine' = mine /\ pc' = "idle"
    BY <2>1, <2>3 DEF Hired
  <2> QED
    BY <1>2, <2>1, <2>2, <2>3 DEF Submit, Fails
<1>3. CASE (~\E k \in DOMAIN jobs : JobStep(k)) /\ ~Submit
  <2>1. UNCHANGED <<jobs, result>> /\ data \subseteq data'
    BY <1>3, ClusterMoves DEF corpus
  <2>2. mine' = 0 \/ mine' = mine
    BY <1>3, WaitMoves
  <2>3. zip' \subseteq zip \/ (mine' = 0 /\ pc' \notin {"submit", "poll", "exit", "fetch", "check"})
    BY ReportMoves DEF Start
  <2>4. pc' \in {"poll", "exit", "fetch", "check"} =>
           pc \in {"poll", "exit", "fetch", "check"} /\ mine' = mine
    <3>1. pc' \in {"poll", "exit", "fetch", "check"} => \/ pc' = pc
                                                       \/ Poll \/ PollBlip \/ ReadExit \/ Fetch
      BY <1>3, PlaceMoves DEF Start, Pack, Compare, Preflight
    <3>2. CASE Poll \/ PollBlip \/ ReadExit \/ Fetch
      BY <3>2 DEF Poll, PollBlip, ReadExit, Fetch, waiting
    <3>3. CASE pc' = pc /\ pc \in {"poll", "exit", "fetch", "check"}
      BY <3>2, <3>3, MineStays
    <3> QED
      BY <3>1, <3>2, <3>3
  <2>5. pc' = "submit" => zip' \subseteq data'
    <3>1. CASE Push
      BY <3>1 DEF Push, Goto, Fails
    <3>2. pc' = "submit" => pc' = pc \/ Push
      BY PlaceMoves DEF Start, Pack, Compare, Preflight
    <3> QED
      BY <2>1, <2>3, <3>1, <3>2 DEF Hired
  <2>6. ASSUME mine' # 0 PROVE zip' \subseteq data' /\ Alike(mine)'
    <3>1. mine' = mine /\ zip' \subseteq zip /\ zip \subseteq data /\ Alike(mine)
      BY <2>2, <2>3, <2>6 DEF Hired
    <3>2. \A l \in DOMAIN jobs' : Live(l)' => Live(l)
      BY <2>1 DEF Live
    <3> QED
      BY <2>1, <3>1, <3>2 DEF Alike
  <2> QED
    BY <2>4, <2>5, <2>6 DEF Hired
<1> QED
  BY <1>1, <1>2, <1>3

\* A job that is over stays over, with its exit code.
LEMMA OverStays ==
    ASSUME Shape, [Next]_vars, NEW k \in DOMAIN jobs, ~Live(k), ~Submit
    PROVE  k \in DOMAIN jobs' /\ ~Live(k)' /\ jobs'[k].exit = jobs[k].exit
<1>1. CASE \E l \in DOMAIN jobs : JobStep(l)
  <2> PICK l \in DOMAIN jobs : JobStep(l)
    BY <1>1
  <2>1. PICK r \in JobRecords : jobs' = [jobs EXCEPT ![l] = r]
    BY JobMoves
  <2>2. CASE k = l
    <3>1. jobs'[k] = r
      BY <2>1, <2>2
    <3>2. jobs[k].state \in {"exiting", "ended"} => r.state \in {"ended", "forgotten"} /\ r.exit = jobs[k].exit
      BY <2>2, <3>1, JobMoves
    <3>3. jobs[k].state \in {"new", "queued", "running", "exiting", "ended"}
      BY <2>2, JobMoves
    <3> QED
      BY <2>1, <3>1, <3>2, <3>3 DEF Live
  <2> QED
    BY <2>1, <2>2 DEF Live
<1>2. CASE jobs' = jobs
  BY <1>2 DEF Live
<1> QED
  BY <1>1, <1>2, ClusterMoves

\* What a run takes its job to be, through a step.
LEMMA FetchedKept ==
    ASSUME Trusted PROVE Shape /\ Fresh /\ Hired /\ Fetched /\ [Next]_vars => Fetched'
<1> SUFFICES ASSUME Shape, Fresh, Hired, Fetched, [Next]_vars PROVE Fetched'
  OBVIOUS
<1>0. DOMAIN jobs = 1 .. MaxRuns /\ mine \in 0 .. MaxRuns /\ MaxRuns \in Nat
  BY Bounds DEF Shape, Waiting, Cluster
<1>1. CASE Submit
  BY <1>1 DEF Submit, Goto, Fails, Fetched
<1>2. CASE Poll \/ PollBlip
  <2>1. mine' = mine /\ jobs' = jobs /\ pc' \in {"poll", "exit"}
    BY <1>2 DEF Poll, PollBlip, NotFound, Goto
  <2>2. pc' = "exit" => ~Live(mine)
    BY <1>2, <2>1 DEF Poll, PollBlip, Allowed, Trusted, Finished, Live, Goto
  <2> QED
    BY <2>1, <2>2 DEF Fetched, Live
<1>3. CASE ReadExit
  <2>1. mine' = mine /\ jobs' = jobs /\ pc' \in {"fetch", "idle"} /\ pc = "exit"
    BY <1>3 DEF ReadExit, waiting, Goto, Fails
  <2>2. ~Live(mine) /\ mine \in DOMAIN jobs /\ Alike(mine)
    BY <1>0, <2>1 DEF Fetched, Hired
  <2>3. jobs[mine].state \in Over /\ jobs[mine].exit \in 0 .. 1
    BY <2>2 DEF Live, Alike, Shape, Cluster, JobRecords, Over
  <2>4. pc' = "fetch" => jobs[mine].exit = 0
    BY <1>3, <2>2, <2>3 DEF ReadExit, Allowed, Trusted, Alike, Over, Goto, Fails
  <2> QED
    BY <2>1, <2>2, <2>4 DEF Fetched, Live
<1>4. CASE Fetch
  <2>1. /\ mine' = mine /\ jobs' = jobs /\ pc' \in {"check", "idle"} /\ pc = "fetch"
        /\ zip' = zip \/ pc' = "idle"
        /\ pc' = "check" => home' = home \cup parsed /\ homeResult' = result
    BY <1>4 DEF Fetch, waiting, Goto, Fails
  <2>2. ~Live(mine) /\ mine \in DOMAIN jobs /\ Alike(mine) /\ jobs[mine].exit = 0
    BY <1>0, <2>1 DEF Fetched, Hired
  <2>3. jobs[mine].state \in Over
    BY <2>2 DEF Live, Alike, Shape, Cluster, JobRecords, Over
  <2>4. /\ zip \subseteq jobs[mine].good \cup jobs[mine].failed /\ result # None
        /\ result.failed = jobs[mine].failed /\ jobs[mine].good \subseteq parsed
    BY <1>0, <2>2, <2>3 DEF Alike, Shape, Cluster
  <2> QED
    BY <2>1, <2>2, <2>4 DEF Fetched, Live
<1>5. CASE ~(Submit \/ Poll \/ PollBlip \/ ReadExit \/ Fetch)
  <2>1. pc' \in {"exit", "fetch", "check"} => pc' = pc
    BY <1>5, PlaceMoves DEF Start, Pack, Compare, Preflight
  <2> SUFFICES ASSUME pc \in {"exit", "fetch", "check"}, pc' = pc PROVE Fetched'
    BY <2>1 DEF Fetched
  <2>2. mine' = mine /\ mine \in DOMAIN jobs
    BY <1>0, MineStays DEF Hired
  <2>3. ~Live(mine)' /\ jobs'[mine].exit = jobs[mine].exit
    BY <1>5, <2>2, OverStays DEF Fetched
  <2>4. zip' \subseteq zip /\ home \subseteq home'
    BY HereMoves, ReportMoves DEF Start
  <2>5. homeResult' = homeResult
    BY <1>5, HereMoves DEF Ingest, IngestDies, PerFile
  <2> QED
    BY <2>2, <2>3, <2>4, <2>5 DEF Fetched
<1> QED
  BY <1>1, <1>2, <1>3, <1>4, <1>5

\* The batches of the local driver, through a step.
LEMMA BatchesKept ==
    ASSUME Trusted PROVE Shape /\ Batches /\ [Next]_vars => Batches'
<1> SUFFICES ASSUME Shape, Batches, [Next]_vars PROVE Batches'
  OBVIOUS
<1>0. driver \in Drivers /\ home \subseteq home'
  BY HereMoves DEF Shape, Driven
<1>1. CASE \E m \in Modes, z \in (SUBSET Docs) \ {{}} : Start(m, z)
  <2> PICK m \in Modes, z \in (SUBSET Docs) \ {{}} : Start(m, z)
    BY <1>1
  <2>1. zip' = z /\ pc' \in {"preflight", "batch", "pack"} /\ (pc' = "batch" => m = "local")
    BY DEF Start
  <2>2. m = "local" => driver'.rest = z
    BY DEF Start, NoDriver
  <2> QED
    BY <2>1, <2>2 DEF Batches, Local
<1>2. CASE TakeBatch
  <2>1. PICK b \in (SUBSET driver.rest) \ {{}} :
           driver' = [driver EXCEPT !.rest = @ \ b, !.batch = b, !.good = 0, !.attempts = 0]
    BY <1>2 DEF TakeBatch
  <2>2. /\ driver'.rest = driver.rest \ b /\ driver'.batch = b /\ driver'.good = 0
        /\ driver'.stalled = driver.stalled
    BY <1>0, <2>1 DEF Drivers
  <2>3. pc = "batch" /\ pc' = "ingest" /\ UNCHANGED <<zip, told>>
    BY <1>2 DEF TakeBatch, Goto
  <2>4. zip \subseteq driver.rest \cup driver.stalled \cup home \cup told
    BY <2>3 DEF Batches, Local
  <2>5. zip' \subseteq driver'.rest \cup driver'.stalled \cup home' \cup told' \cup driver'.batch
    BY <1>0, <2>2, <2>3, <2>4
  <2>6. driver'.batch # {}
    BY <2>2
  <2> QED
    BY <2>2, <2>3, <2>5, <2>6 DEF Batches, Local
<1>3. CASE Ingest \/ IngestDies
  <2>1. /\ pc = "ingest" /\ UNCHANGED <<zip, told>> /\ pc' \in {"ingest", "batch"}
        /\ homeResult' \in Results \cup {None}
    BY <1>3, HereMoves DEF Ingest, IngestDies, Judged, Goto
  <2>2. Good' \in Nat
    BY <2>1, GoodCounts
  <2>3. driver.batch # {} /\ driver.good = 0 /\ IsFiniteSet(driver.batch)
    BY <1>0, <2>1, DeployInputs, FS_Subset DEF Batches, Drivers
  <2>4. Cardinality(driver.batch) \in Nat /\ Cardinality(driver.batch) # 0
    BY <2>3, FS_CardinalityType, FS_EmptySet
  <2>5. /\ driver'.rest = driver.rest /\ driver'.batch = driver.batch
        /\ driver'.good = Good'
        /\ driver'.stalled = IF pc' # "ingest" /\ Cardinality(driver.batch) > Good'
                             THEN driver.stalled \cup driver.batch ELSE driver.stalled
        /\ pc' = "ingest" => Good' = 0
    <3>1. PICK failed \in BOOLEAN : Judged(failed)
      BY <1>3 DEF Ingest, IngestDies
    <3> DEFINE again == failed /\ Abrupt' /\ driver.attempts < Retries
    <3> DEFINE good == driver.good + Good'
    <3>2. /\ driver' = [driver EXCEPT !.good = good, !.attempts = @ + 1,
                          !.stalled = IF ~again /\ Cardinality(driver.batch) > good
                                        THEN @ \cup driver.batch ELSE @]
          /\ again => ~(good > 0)
          /\ pc' = IF again THEN "ingest" ELSE "batch"
      BY <3>1 DEF Judged, Goto, Allowed, Trusted
    <3>3. good = Good' /\ Good' \in Nat
      <4>1. \A n \in Nat : driver.good + n = n
        BY <2>3
      <4> QED
        BY <2>2, <4>1, Zenon
    <3> HIDE DEF again, good
    <3>4. /\ driver'.rest = driver.rest /\ driver'.batch = driver.batch /\ driver'.good = good
          /\ driver'.stalled = IF ~again /\ Cardinality(driver.batch) > good
                               THEN driver.stalled \cup driver.batch ELSE driver.stalled
      BY <1>0, <3>2 DEF Drivers
    <3> QED
      BY <2>2, <3>2, <3>3, <3>4
  <2>6. Cardinality(driver.batch) <= Good' => driver.batch \subseteq home'
    <3>1. CASE Ingest
      <4>1. PICK new \in SUBSET (driver.batch \ home) :
               /\ home' = home \cup new
               /\ homeResult' # None =>
                    homeResult'.good = driver.batch \ (driver.batch \ (home \cup new))
        BY <3>1 DEF Ingest
      <4> DEFINE good == driver.batch \ (driver.batch \ (home \cup new))
      <4>2. good \subseteq driver.batch /\ good \subseteq home'
        BY <4>1
      <4>3. Good' = 0 \/ Good' = Cardinality(good)
        BY <4>1 DEF Good
      <4> HIDE DEF good
      <4>4. /\ IsFiniteSet(good) /\ Cardinality(good) <= Cardinality(driver.batch)
            /\ Cardinality(good) = Cardinality(driver.batch) => good = driver.batch
        BY <2>3, <4>2, FS_Subset
      <4>5. Cardinality(good) \in Nat
        BY <4>4, FS_CardinalityType
      <4> QED
        BY <2>4, <4>2, <4>3, <4>4, <4>5
    <3>2. CASE IngestDies
      <4>1. homeResult' = None
        BY <3>2 DEF IngestDies, Allowed, Trusted
      <4> QED
        BY <2>4, <4>1 DEF Good
    <3> QED
      BY <1>3, <3>1, <3>2
  <2> QED
    BY <1>0, <2>1, <2>2, <2>3, <2>4, <2>5, <2>6 DEF Batches, Local
<1>4. CASE \E d \in Docs : PerFile(d)
  <2> PICK d \in Docs : PerFile(d)
    BY <1>4
  <2>1. /\ driver' = [driver EXCEPT !.stalled = @ \ {d}] /\ pc = "batch" /\ UNCHANGED <<pc, zip>>
        /\ d \in home' \cup told' /\ told \subseteq told'
    BY DEF PerFile
  <2>2. driver'.rest = driver.rest /\ driver'.stalled = driver.stalled \ {d}
    BY <1>0, <2>1 DEF Drivers
  <2> QED
    BY <1>0, <2>1, <2>2 DEF Batches, Local
<1>5. CASE ~(TakeBatch \/ Ingest \/ IngestDies \/ \E d \in Docs : PerFile(d))
           /\ ~\E m \in Modes, z \in (SUBSET Docs) \ {{}} : Start(m, z)
  <2>1. pc' \in Local => pc' = pc
    BY <1>5, PlaceMoves DEF Pack, Compare, Preflight, Local
  <2> SUFFICES ASSUME pc \in Local, pc' = pc PROVE Batches'
    BY <2>1 DEF Batches, Local
  <2>2. UNCHANGED <<zip, told>>
    BY <1>5, ReportMoves DEF Check, Local
  <2>3. driver' = driver
    BY <1>5 DEF Next, ScriptStep, vars, Stop, Start, StartServer, StopServer, EditSource,
         EditConfig, JobStep, OfTheJob, JobListed, JobStarts, JobEnds, JobKilled, JobRecorded,
         JobForgotten, JobParses, Pack, Compare, SyncConfig, SyncManifest, Upload, Image, Verify, Retire, Swap,
         Link, Cleanup, Remote, Preflight, PreflightFails, Push, Submit, SubmitFails, Poll, PollBlip,
         PollTimeout, ReadExit, Fetch, Check, Index, SkipIndex, BatchesDone, Fails, Goto, Local
  <2> QED
    BY <1>0, <2>2, <2>3 DEF Batches
<1> QED
  BY <1>1, <1>2, <1>3, <1>4, <1>5

\* The invariant for what a deployment delivers.
DInv == Shape /\ Fresh /\ Hired /\ Fetched /\ Batches /\ Arrives

\* What has arrived when the script comes to the index, through a step.
LEMMA ArrivesKept ==
    ASSUME Trusted PROVE DInv /\ [Next]_vars => Arrives'
<1> SUFFICES ASSUME DInv, [Next]_vars PROVE Arrives'
  OBVIOUS
<1>0. /\ DOMAIN jobs = 1 .. MaxRuns /\ mine \in 0 .. MaxRuns /\ MaxRuns \in Nat
      /\ home \subseteq home' /\ Shape
  BY Bounds, HereMoves DEF DInv, Shape, Waiting, Cluster
<1>1. CASE Check
  <2>1. /\ pc = "check" /\ told' = homeResult.failed /\ UNCHANGED <<zip, home, mine, jobs>>
        /\ pc' \in {"index", "idle"} /\ (pc' = "idle" => outcome' = "failed") /\ outcome' # "ok"
    BY <1>1 DEF Check, waiting, here, DInv, Fetched, Arrives
  <2> QED
    BY <2>1 DEF Arrives, DInv, Fetched, Live
<1>2. CASE BatchesDone
  <2>1. /\ pc = "batch" /\ driver.rest = {} /\ driver.stalled = {} /\ pc' = "index"
        /\ UNCHANGED <<zip, home, told, mine, outcome>>
    BY <1>2 DEF BatchesDone, Goto, waiting, here
  <2>2. mine = 0 /\ zip \subseteq home \cup told /\ outcome # "ok"
    BY <2>1 DEF DInv, Fresh, Batches, Arrives, Local
  <2> QED
    BY <2>1, <2>2 DEF Arrives
<1>3. CASE Index \/ SkipIndex
  <2>1. pc = "index" /\ pc' = "idle" /\ UNCHANGED <<mine, jobs, home>>
    BY <1>3 DEF Index, SkipIndex, Succeeds, Fails, waiting, here
  <2>2. outcome' = "ok" => UNCHANGED <<zip, told>>
    BY <1>3 DEF Index, SkipIndex, Succeeds, Fails
  <2> QED
    BY <2>1, <2>2 DEF Arrives, DInv, Live
<1>4. CASE \E m \in Modes, z \in (SUBSET Docs) \ {{}} : Start(m, z)
  BY <1>4 DEF Start, Arrives
<1>5. CASE ~(Check \/ BatchesDone \/ Index \/ SkipIndex)
           /\ ~\E m \in Modes, z \in (SUBSET Docs) \ {{}} : Start(m, z)
  <2>1. pc' = "index" => pc = "index"
    <3> SUFFICES ASSUME pc' = "index", pc # "index" PROVE FALSE
      OBVIOUS
    <3>1. ~(Pack \/ Compare \/ Preflight)
      BY DEF Pack, Compare, Preflight
    <3> QED
      BY <1>0, <1>5, <3>1, PlaceMoves
  <2>2. outcome' = "ok" => outcome = "ok" /\ UNCHANGED <<zip, told, outcome>>
    BY <1>5, ReportMoves DEF DInv, Arrives, PerFile
  <2>3. pc = "idle" => pc' = "idle" /\ mine' = mine
    BY <1>5 DEF Next, ScriptStep, vars, script, waiting, Stop, StartServer, StopServer, EditSource,
         EditConfig, JobStep, OfTheJob, JobListed, JobStarts, JobEnds, JobKilled, JobRecorded,
         JobForgotten, JobParses, Pack, Compare, SyncConfig, SyncManifest, Upload, Image, Verify, Retire, Swap,
         Link, Cleanup, Remote, Preflight, PreflightFails, Push, Submit, SubmitFails, Poll, PollBlip,
         PollTimeout, ReadExit, Fetch, TakeBatch, Ingest, IngestDies, PerFile
  <2>4. pc = "index" /\ pc' = "index" => mine' = mine /\ UNCHANGED <<zip, told>>
    BY <1>5 DEF Next, ScriptStep, vars, script, waiting, Stop, StartServer, StopServer, EditSource,
         EditConfig, JobStep, OfTheJob, JobListed, JobStarts, JobEnds, JobKilled, JobRecorded,
         JobForgotten, JobParses, Pack, Compare, SyncConfig, SyncManifest, Upload, Image, Verify, Retire, Swap,
         Link, Cleanup, Remote, Preflight, PreflightFails, Push, Submit, SubmitFails, Poll, PollBlip,
         PollTimeout, ReadExit, Fetch, TakeBatch, Ingest, IngestDies, PerFile, Fails
  <2>5. Submit => pc = "submit"
    BY DEF Submit
  <2>6. mine # 0 /\ ~Live(mine) /\ ~Submit => ~Live(mine)' \/ mine' # mine
    BY <1>0, OverStays DEF Live
  <2>7. mine # 0 /\ ~Live(mine) /\ ~Submit => jobs'[mine].exit = jobs[mine].exit
    BY <1>0, OverStays
  <2>8. outcome = "ok" => pc = "idle"
    BY DEF DInv, Arrives
  <2> QED
    BY <1>0, <2>1, <2>2, <2>3, <2>4, <2>5, <2>6, <2>7, <2>8 DEF DInv, Arrives
<1> QED
  BY <1>1, <1>2, <1>3, <1>4, <1>5

\* The invariant holds if the run's job and its result are what they seem.
THEOREM DeliveryInvariance == ASSUME Trusted PROVE Spec => []DInv
<1>1. Init => DInv
  <2>1. Init => Fresh
    BY DEF Init, Fresh, NoJob, Early, Packing, Staging, Local
  <2>2. Init => Hired /\ Fetched /\ Batches /\ Arrives
    BY DEF Init, Hired, Fetched, Batches, Arrives, Local
  <2> QED
    BY <2>1, <2>2, ShapeInit DEF DInv
<1>2. DInv /\ [Next]_vars => DInv'
  BY ShapeKept, FreshKept, HiredKept, FetchedKept, BatchesKept, ArrivesKept DEF DInv
<1> QED
  BY <1>1, <1>2, PTL DEF Spec

\* A deployment that reports success leaves each PDF with Markdown here or reported
\* as failed, and its PBS job over and successful: for any number of runs, PDFs,
\* failing calls and dying jobs.
THEOREM SuccessIsTrue == ASSUME Trusted PROVE Spec => []SuccessTrue
<1>1. DInv => SuccessTrue
  BY DEF DInv, Arrives, SuccessTrue
<1>2. Spec => []DInv
  BY DeliveryInvariance
<1> QED
  BY <1>1, <1>2, PTL

=============================================================================
