----------------------------- MODULE IndexStore -----------------------------
(***************************************************************************)
(* The directories that hold the search index: the live database, a staged *)
(* build, the backup snapshots, and the two kinds of directories in which  *)
(* a swap parks files (.index_preserve_X and .index_rollover_X). One job   *)
(* at a time publishes a build, makes a backup or restores one; index      *)
(* edits come from requests. Every file operation of a job is a step: a    *)
(* crash or an edit can fall between any two, and it may fail.             *)
(*                                                                         *)
(* A definition under a comment "Mutation:" is no part of the              *)
(* specification: it is the next definition with a slip in it that the     *)
(* properties have to notice.                                              *)
(***************************************************************************)
EXTENDS Naturals, Sequences

CONSTANTS
    Edits,       \* manual edits and deletions of index records
    Keep,        \* LANCEDB_BACKUP_KEEP
    HardLinks,   \* may making a hardlink work (TRUE), may it fail (FALSE)?
    Kinds,       \* the jobs that are run: "publish", "rebuild", "backup", "restore"
    Overlap,     \* bound: may an edit overlap a job, where the code allows it?
    Faults,      \* the steps that may fail
    MaxErrors,   \* bound: failures of file operations
    MaxJobs,     \* bound: jobs started
    MaxCrashes,  \* bound: crashes of the server
    MaxMishaps,  \* bound: failures and crashes together
    Absent

ASSUME StoreBounds ==
    /\ Keep \in Nat /\ MaxErrors \in Nat /\ MaxJobs \in Nat \ {0} /\ MaxCrashes \in Nat
    /\ MaxMishaps \in Nat
    /\ HardLinks \in (SUBSET BOOLEAN) \ {{}} /\ Overlap \in BOOLEAN
    /\ Kinds \subseteq {"publish", "rebuild", "backup", "restore"}
    /\ Faults \subseteq {"preserve", "roll", "install", "clear", "rollback",
                       "reinstate", "drop", "tidy", "link"}

ASSUME NoFile ==
    /\ \A n \in 0 .. MaxJobs : n # Absent
    /\ \A n \in 0 .. MaxJobs, m \in 0 .. MaxJobs : <<n, m>> # Absent
    /\ \A es \in SUBSET Edits : es # Absent

VARIABLES
    live,               \* the live database directory
    staged,             \* the staged build
    aside, rollover,    \* the directories of the swap under way
    strandedAsides, strandedRollovers,  \* those that outlived theirs
    shelf,              \* the snapshots under backups/, newest first
    snapshot,           \* their files
    pc, kind, step,     \* the job: what it does, and at which component
    target, copying,    \* restore: the snapshot, and is it copied or moved?
    result,             \* how the job ends; "untidy" is reported as "failed" is
    editor, loaded,     \* the edit under way, the overrides it read
    up, jobs, crashes,
    failures,           \* the steps that have failed
    kept,               \* history: the edits that are to be in effect
    dropped,            \* history: those that a repair found parked, and gave up
    requested,          \* history: the index a restore is to bring back
    before, incoming,   \* history: the index the swap replaces, and by which
    replaces            \* history: does the snapshot bring overrides of its own?

dirs    == <<live, staged, aside, rollover>>
parked  == <<strandedAsides, strandedRollovers>>
backups == <<shelf, snapshot>>
job     == <<pc, kind, step, target, copying, result>>
edit    == <<editor, loaded>>
counts  == <<up, jobs, failures, crashes>>
history == <<kept, dropped, requested, before, incoming, replaces>>
vars    == <<dirs, parked, backups, job, edit, counts, history>>

\* _index_backup_component_paths, _PRESERVE_COMPONENT_NAMES
Components == <<"lancedb", "manifest", "overrides", "hashes">>
Names      == {Components[i] : i \in 1 .. 4}
Sidecars   == {"overrides", "hashes"}
Empty      == [c \in Names |-> Absent]
Snapshots  == 1 .. MaxJobs

\* A lancedb/ directory is <<index it holds, inodes it is made of>>. Jobs are
\* numbered, and the number of the job that made them names both.
Complete(d) == d["lancedb"] # Absent /\ d["manifest"] = d["lancedb"][1]
IndexOf(d)  == IF Complete(d) THEN d["manifest"] ELSE 0
EditsIn(d)  == IF d["overrides"] = Absent THEN {} ELSE d["overrides"]

\* No snapshot is on the shelf twice.
OnShelf(s) == \E i \in DOMAIN shelf : shelf[i] = s
Others(s)  ==
    IF ~OnShelf(s) THEN shelf
    ELSE LET at == CHOOSE i \in DOMAIN shelf : shelf[i] = s
         IN  [i \in 1 .. Len(shelf) - 1 |-> shelf[IF i < at THEN i ELSE i + 1]]

\* _backup_is_hardlinked: some other directory has the same inodes.
Hardlinked(s) ==
    /\ snapshot[s]["lancedb"] # Absent
    /\ \E d \in {live, rollover} \cup strandedRollovers
              \cup {snapshot[t] : t \in Snapshots \ {s}} :
           d["lancedb"] = snapshot[s]["lancedb"]

\* What the swap takes its files from.
Source == IF kind = "publish" THEN staged ELSE snapshot[target]

Component == Components[step]

-----------------------------------------------------------------------------
Init ==
    /\ live \in {[Empty EXCEPT !["lancedb"] = <<1, 0>>, !["manifest"] = 1,
                               !["overrides"] = o, !["hashes"] = h] :
                     o \in {Absent, {}}, h \in {Absent, {}}}
    /\ staged = Empty /\ aside = Empty /\ rollover = Empty
    /\ strandedAsides = {} /\ strandedRollovers = {}
    /\ shelf = <<>> /\ snapshot = [s \in Snapshots |-> Empty]
    /\ pc = "idle" /\ kind = "none" /\ step = 1
    /\ target = 0 /\ copying = FALSE /\ result = "none"
    /\ editor = "none" /\ loaded = {}
    /\ up = TRUE /\ jobs = 1 /\ failures = <<>> /\ crashes = 0
    /\ kept = {} /\ dropped = {} /\ requested = 0 /\ before = 0 /\ incoming = 0 /\ replaces = FALSE

\* _index_write_lock: the next job starts when the last one has ended.
Start(k) ==
    /\ up /\ pc = "idle"
    /\ k \in Kinds
    /\ Overlap \/ editor = "none"
    /\ jobs < MaxJobs /\ jobs' = jobs + 1
    /\ kind' = IF k = "rebuild" THEN "publish" ELSE k
    /\ result' = "ok"
    /\ step' = 1
    /\ UNCHANGED <<up, failures, crashes>>

\* The next component, or the next part of the job when there is none.
Continue(next) ==
    /\ pc' = IF step = 4 THEN next ELSE pc
    /\ step' = IF step = 4 THEN 1 ELSE step + 1
    /\ UNCHANGED <<kind, target, copying, result>>

Goto(next) == pc' = next /\ step' = 1 /\ UNCHANGED <<kind, target, copying>>

\* A file operation of the job fails.
FailsWith(fault) ==
    /\ fault \in Faults
    /\ Len(failures) < MaxErrors /\ failures' = Append(failures, fault)
    /\ Len(failures) + crashes < MaxMishaps
    /\ UNCHANGED <<up, jobs, crashes>>

Failing(here) == up /\ pc = here /\ FailsWith(here)

\* What a failed removal of a directory (shutil.rmtree) leaves of it.
Remains(d) == {[c \in Names |-> IF c \in left THEN d[c] ELSE Absent] : left \in SUBSET Names}

-----------------------------------------------------------------------------
(* Building and publishing: _run_indexing.                                 *)

StartBuild ==
    /\ Start("publish")
    /\ pc' = "build"
    /\ UNCHANGED <<dirs, parked, backups, target, copying, edit, history>>

\* _drop_live_index: a rebuild throws the live table away first.
StartRebuild ==
    /\ Start("rebuild")
    /\ pc' = "build"
    /\ live' = [live EXCEPT !["lancedb"] = Absent]
    /\ before' = 0
    /\ UNCHANGED <<staged, aside, rollover, parked, backups, target, copying,
                   edit, kept, dropped, requested, incoming, replaces>>

\* The subprocess ends: the staged directory has a table, a manifest and a
\* copy of the live overrides.
Build ==
    /\ up /\ pc = "build"
    /\ staged' = [Empty EXCEPT !["lancedb"] = <<jobs, jobs>>, !["manifest"] = jobs,
                               !["overrides"] = live["overrides"]]
    /\ Goto("publish_gate") /\ result' = result
    /\ UNCHANGED <<live, aside, rollover, parked, backups, edit, counts, history>>

\* It fails or is cancelled, before or while the job waits for chats.
BuildAborted ==
    /\ up /\ pc \in {"build", "publish_gate"}
    /\ staged' = Empty
    /\ Goto("idle") /\ result' = "failed"
    /\ UNCHANGED <<live, aside, rollover, parked, backups, edit, counts, history>>

\* _publish_staged_index takes INDEX_LOCK.
PublishBegins ==
    /\ up /\ pc = "publish_gate"
    /\ editor \notin {"loaded"}
    /\ before' = IndexOf(live) /\ incoming' = IndexOf(staged)
    /\ replaces' = FALSE
    /\ Goto("preserve") /\ result' = result
    /\ UNCHANGED <<dirs, parked, backups, edit, counts, kept, dropped, requested>>

-----------------------------------------------------------------------------
(* Backups: create_index_backup.                                           *)

\* A backup job; the snapshot carries the number of the job.
StartBackup ==
    /\ Start("backup")
    /\ live["lancedb"] # Absent
    /\ shelf' = <<jobs'>> \o shelf
    /\ pc' = "link"
    /\ UNCHANGED <<dirs, parked, snapshot, target, copying, edit, history>>

\* restore_index_from_backup: checks, then the safety backup if there is
\* anything to back up.
StartRestore(s) ==
    /\ Start("restore")
    /\ OnShelf(s) /\ snapshot[s]["lancedb"] # Absent
    /\ target' = s
    /\ requested' = IndexOf(snapshot[s])
    /\ IF live["lancedb"] # Absent
         THEN pc' = "link" /\ shelf' = <<jobs'>> \o shelf
         ELSE pc' = "mode" /\ shelf' = shelf
    /\ UNCHANGED <<dirs, parked, snapshot, copying, edit, kept, dropped, before,
                   incoming, replaces>>

\* _hardlink_or_copy: where a hardlink cannot be made, the file is copied, and
\* a copy has inodes of its own.
Linked(c, hard) ==
    IF c = "lancedb" /\ ~hard /\ live[c] # Absent
      THEN <<live[c][1], jobs>> ELSE live[c]

Link ==
    /\ up /\ pc = "link"
    /\ \E hard \in HardLinks :
           snapshot' = [snapshot EXCEPT ![jobs][Component] = Linked(Component, hard)]
    /\ Continue("prune")
    /\ UNCHANGED <<dirs, parked, shelf, edit, counts, history>>

\* The half-made snapshot is removed; a restore goes on without one.
LinkFails ==
    /\ Failing("link")
    /\ shelf' = Others(jobs)
    /\ snapshot' = [snapshot EXCEPT ![jobs] = Empty]
    /\ IF kind = "restore"
         THEN Goto("mode") /\ result' = result
         ELSE Goto("idle") /\ result' = "failed"
    /\ UNCHANGED <<dirs, parked, edit, history>>

\* _prune_index_backups
Prune ==
    /\ up /\ pc = "prune"
    /\ shelf' = IF Keep > 0 /\ Len(shelf) > Keep THEN SubSeq(shelf, 1, Keep) ELSE shelf
    /\ snapshot' = [s \in Snapshots |-> IF OnShelf(s)' THEN snapshot[s] ELSE Empty]
    /\ Goto(IF kind = "restore" THEN "mode" ELSE "idle") /\ result' = result
    /\ UNCHANGED <<dirs, parked, edit, counts, history>>

\* Restore copies a snapshot that shares its inodes, and moves any other.
ChooseMode ==
    /\ up /\ pc = "mode"
    /\ copying' = Hardlinked(target)
    /\ before' = IndexOf(live) /\ incoming' = IndexOf(snapshot[target])
    /\ replaces' = (snapshot[target]["overrides"] # Absent)
    /\ pc' = "preserve" /\ step' = 1
    /\ UNCHANGED <<dirs, parked, backups, kind, target, result, edit, counts, kept,
                   dropped, requested>>

-----------------------------------------------------------------------------
(* The swap: _swap_index_into, with the parts _publish_staged_index adds.  *)

\* A sidecar that only the live database has is parked.
Preserve ==
    /\ up /\ pc = "preserve"
    /\ LET c == Component IN
         IF c \in Sidecars /\ Source[c] = Absent /\ live[c] # Absent
           THEN /\ aside' = [aside EXCEPT ![c] = live[c]]
                /\ live' = [live EXCEPT ![c] = Absent]
           ELSE UNCHANGED <<aside, live>>
    /\ Continue("roll")
    /\ UNCHANGED <<staged, rollover, parked, backups, edit, counts, history>>

\* The loop stands before the try: what is parked stays parked.
PreserveFails ==
    /\ Failing("preserve")
    /\ strandedAsides' = strandedAsides \cup ({aside} \ {Empty})
    /\ aside' = Empty
    /\ Goto("idle") /\ result' = "failed"
    /\ UNCHANGED <<live, staged, rollover, strandedRollovers, backups, edit, history>>

\* Mutation: only what the source has too is moved.
RollCarried ==
    /\ up /\ pc = "roll"
    /\ LET c == Component IN
         IF live[c] # Absent /\ Source[c] # Absent
           THEN /\ rollover' = [rollover EXCEPT ![c] = live[c]]
                /\ live' = [live EXCEPT ![c] = Absent]
           ELSE UNCHANGED <<rollover, live>>
    /\ Continue("install")
    /\ UNCHANGED <<staged, aside, parked, backups, edit, counts, history>>

\* What is live is moved to the rollover directory.
Roll ==
    /\ up /\ pc = "roll"
    /\ LET c == Component IN
         IF live[c] # Absent
           THEN /\ rollover' = [rollover EXCEPT ![c] = live[c]]
                /\ live' = [live EXCEPT ![c] = Absent]
           ELSE UNCHANGED <<rollover, live>>
    /\ Continue("install")
    /\ UNCHANGED <<staged, aside, parked, backups, edit, counts, history>>

\* After the installation a restore brings the sidecars back before it drops
\* the rollover directory; a publish does so after its swap.
AfterInstall == IF kind = "publish" THEN "drop" ELSE "reinstate"

Copied(c) == IF c = "lancedb" THEN <<Source[c][1], jobs>> ELSE Source[c]

\* The source's component is copied, or moved into place; moving one out of a
\* snapshot makes the snapshot the newest.
Install ==
    /\ up /\ pc = "install"
    /\ LET c == Component IN
         CASE Source[c] = Absent -> UNCHANGED <<live, staged, backups>>
           [] Source[c] # Absent /\ kind # "publish" /\ copying ->
                /\ live' = [live EXCEPT ![c] = Copied(c)]
                /\ UNCHANGED <<staged, backups>>
           [] Source[c] # Absent /\ kind # "publish" /\ ~copying ->
                /\ live' = [live EXCEPT ![c] = Source[c]]
                /\ snapshot' = [snapshot EXCEPT ![target][c] = Absent]
                /\ shelf' = <<target>> \o Others(target)
                /\ UNCHANGED staged
           [] Source[c] # Absent /\ kind = "publish" ->
                /\ live' = [live EXCEPT ![c] = Source[c]]
                /\ staged' = [staged EXCEPT ![c] = Absent]
                /\ UNCHANGED backups
    /\ Continue(AfterInstall)
    /\ UNCHANGED <<aside, rollover, parked, edit, counts, history>>

RollFails ==
    /\ Failing("roll")
    /\ Goto("rollback") /\ result' = "failed"
    /\ UNCHANGED <<dirs, parked, backups, edit, history>>

\* Mutation: the handler does not raise again.
InstallFailsQuietly ==
    /\ Failing("install")
    /\ Goto("rollback") /\ result' = result
    /\ UNCHANGED <<dirs, parked, backups, edit, history>>

InstallFails ==
    /\ Failing("install")
    /\ Goto("rollback") /\ result' = "failed"
    /\ UNCHANGED <<dirs, parked, backups, edit, history>>

\* Mutation: what was installed before the failure stays.
RollbackMissing ==
    /\ up /\ pc = "rollback"
    /\ LET c == Component IN
         /\ live' = [live EXCEPT ![c] = IF @ = Absent THEN rollover[c] ELSE @]
         /\ rollover' = [rollover EXCEPT ![c] = Absent]
    /\ Continue(AfterInstall)
    /\ UNCHANGED <<staged, aside, parked, backups, edit, counts, history>>

\* The exception handler: the live component is removed, whether or not it
\* was moved away before, and what the rollover directory has comes back.
Rollback ==
    /\ up /\ pc = "rollback"
    /\ LET c == Component IN
         /\ live' = [live EXCEPT ![c] = rollover[c]]
         /\ rollover' = [rollover EXCEPT ![c] = Absent]
    /\ Continue(AfterInstall)
    /\ UNCHANGED <<staged, aside, parked, backups, edit, counts, history>>

\* The removal of a live component fails: the exception leaves the handler.
ClearFails ==
    /\ up /\ pc = "rollback" /\ FailsWith("clear")
    /\ live[Component] # Absent
    /\ Goto("drop") /\ result' = "failed"
    /\ UNCHANGED <<dirs, parked, backups, edit, history>>

\* The move back fails, and leaves it likewise.
RollbackFails ==
    /\ Failing("rollback")
    /\ rollover[Component] # Absent
    /\ live' = [live EXCEPT ![Component] = Absent]
    /\ Goto("drop") /\ result' = "failed"
    /\ UNCHANGED <<staged, aside, rollover, parked, backups, edit, history>>

\* _restore_preserved_components, _restore_preserved
Reinstate ==
    /\ up /\ pc = "reinstate"
    /\ LET c == Component IN
         IF aside[c] # Absent /\ live[c] = Absent
           THEN /\ live' = [live EXCEPT ![c] = aside[c]]
                /\ aside' = [aside EXCEPT ![c] = Absent]
           ELSE UNCHANGED <<live, aside>>
    /\ Continue(IF kind = "publish" THEN "tidy" ELSE "drop")
    /\ UNCHANGED <<staged, rollover, parked, backups, edit, counts, history>>

\* Such a failure is logged.
ReinstateFails ==
    /\ Failing("reinstate")
    /\ aside[Component] # Absent
    /\ Continue(IF kind = "publish" THEN "tidy" ELSE "drop")
    /\ UNCHANGED <<dirs, parked, backups, edit, history>>

\* From here on a restored snapshot's overrides are the ones in effect.
TakesEffect == kept' = IF replaces /\ result = "ok" THEN EditsIn(live) ELSE kept

\* The rollover directory is removed.
DropRollover ==
    /\ up /\ pc = "drop"
    /\ rollover' = Empty
    /\ TakesEffect
    /\ Goto(IF kind = "publish" THEN "reinstate" ELSE "tidy") /\ result' = result
    /\ UNCHANGED <<live, staged, aside, parked, backups, edit, counts, dropped,
                   requested, before, incoming, replaces>>

\* The job is reported as failed, although the swap has gone well.
Spoilt == IF result = "ok" THEN "untidy" ELSE result

\* The removal fails, in whole or in part. The exception leaves the finally of
\* _swap_index_into, which ends a restore; a publish goes on to its own.
DropFails ==
    /\ Failing("drop")
    /\ \E d \in Remains(rollover) :
           strandedRollovers' = strandedRollovers \cup ({d} \ {Empty})
    /\ rollover' = Empty
    /\ TakesEffect
    /\ IF kind = "publish"
         THEN Goto("reinstate") /\ UNCHANGED <<aside, strandedAsides>>
         ELSE /\ Goto("idle") /\ aside' = Empty
              /\ strandedAsides' = strandedAsides \cup ({aside} \ {Empty})
    /\ result' = Spoilt
    /\ UNCHANGED <<live, staged, backups, edit, dropped, requested, before, incoming,
                   replaces>>

\* A sidecar could not be moved back.
Unreturned == \E c \in Sidecars : aside[c] # Absent /\ live[c] = Absent

\* The aside directory is removed, unless it holds what live does not have.
Tidy ==
    /\ up /\ pc = "tidy"
    /\ strandedAsides' = IF Unreturned THEN strandedAsides \cup {aside} ELSE strandedAsides
    /\ aside' = Empty
    /\ staged' = Empty
    /\ Goto("idle") /\ result' = result
    /\ UNCHANGED <<live, rollover, strandedRollovers, backups, edit, counts, history>>

\* That removal fails.
TidyFails ==
    /\ Failing("tidy")
    /\ ~Unreturned
    /\ \E d \in Remains(aside) : strandedAsides' = strandedAsides \cup ({d} \ {Empty})
    /\ aside' = Empty
    /\ staged' = Empty
    /\ Goto("idle") /\ result' = Spoilt
    /\ UNCHANGED <<live, rollover, strandedRollovers, backups, edit, history>>

-----------------------------------------------------------------------------
(* Index edits: the record and deletion endpoints.                         *)

Publishing == kind = "publish" /\ pc # "idle"

\* _ensure_index_mutation_allowed: refused while a job is in the phases
\* "indexing" and "publishing_index", in no other.
BeginEdit(e) ==
    /\ up /\ editor = "none"
    /\ e \notin kept
    /\ ~Publishing
    /\ Overlap \/ pc = "idle"
    /\ editor' = "checked"
    /\ UNCHANGED <<dirs, parked, backups, job, loaded, counts, history>>

\* Under INDEX_LOCK, which a publish holds and a restore does not, the record
\* is read and changed, then the overrides are loaded.
LoadOverrides ==
    /\ up /\ editor = "checked"
    /\ ~(Publishing /\ pc \notin {"build", "publish_gate"})
    /\ live["lancedb"] # Absent
    /\ loaded' = EditsIn(live)
    /\ editor' = "loaded"
    /\ UNCHANGED <<dirs, parked, backups, job, counts, history>>

\* persist_index_edit, persist_index_deletions
PersistEdit(e) ==
    /\ up /\ editor = "loaded"
    /\ e \notin kept
    /\ live' = [live EXCEPT !["overrides"] = loaded \cup {e}]
    /\ kept' = kept \cup {e}
    /\ editor' = "none" /\ loaded' = {}
    /\ UNCHANGED <<staged, aside, rollover, parked, backups, job, counts, dropped,
                   requested, before, incoming, replaces>>

\* The record is not found.
EditFails ==
    /\ up /\ editor = "checked"
    /\ live["lancedb"] = Absent
    /\ editor' = "none"
    /\ UNCHANGED <<dirs, parked, backups, job, loaded, counts, history>>

-----------------------------------------------------------------------------
(* Crash and startup.                                                      *)

Crash ==
    /\ up /\ up' = FALSE
    /\ crashes < MaxCrashes /\ crashes' = crashes + 1
    /\ Len(failures) + crashes < MaxMishaps
    /\ strandedAsides' = strandedAsides \cup ({aside} \ {Empty})
    /\ strandedRollovers' = strandedRollovers \cup ({rollover} \ {Empty})
    /\ aside' = Empty /\ rollover' = Empty
    /\ pc' = "idle" /\ kind' = "none" /\ step' = 1
    /\ target' = 0 /\ copying' = FALSE /\ result' = "none"
    /\ editor' = "none" /\ loaded' = {}
    /\ UNCHANGED <<live, staged, backups, jobs, failures, history>>

\* Mutation: aside directories are swept like abandoned builds.
RepairSweeps(a) ==
    /\ ~up
    /\ a \in strandedAsides
    /\ strandedAsides' = strandedAsides \ {a}
    /\ UNCHANGED <<dirs, strandedRollovers, backups, job, edit, counts, history>>

\* _repair_preserved_components, for one aside directory. A parked sidecar
\* that the live database has too is taken for stale and removed.
Repair(a) ==
    /\ ~up
    /\ a \in strandedAsides
    /\ live' = [c \in Names |-> IF c \in Sidecars /\ live[c] = Absent
                                  THEN a[c] ELSE live[c]]
    /\ strandedAsides' = strandedAsides \ {a}
    /\ dropped' = dropped \cup (EditsIn(a) \ EditsIn(live'))
    /\ UNCHANGED <<staged, aside, rollover, strandedRollovers, backups, job, edit,
                   counts, kept, requested, before, incoming, replaces>>

\* Mutation: rollover directories are swept as well.
RestartSweeps ==
    /\ ~up /\ up' = TRUE
    /\ strandedAsides = {}
    /\ staged' = Empty /\ strandedRollovers' = {}
    /\ UNCHANGED <<live, aside, rollover, strandedAsides, backups, job, edit, jobs,
                   failures, crashes, history>>

\* The rest of the startup: rollover directories are only reported, and an
\* abandoned build is swept, or left alone and never used again.
Restart ==
    /\ ~up /\ up' = TRUE
    /\ strandedAsides = {}
    /\ staged' = Empty
    /\ UNCHANGED <<live, aside, rollover, parked, backups, job, edit, jobs, failures,
                   crashes, history>>

-----------------------------------------------------------------------------
JobStep ==
    \/ Build \/ BuildAborted \/ PublishBegins
    \/ Link \/ LinkFails \/ Prune \/ ChooseMode
    \/ Preserve \/ PreserveFails \/ Roll \/ RollFails
    \/ Install \/ InstallFails \/ Rollback \/ RollbackFails \/ ClearFails
    \/ Reinstate \/ ReinstateFails \/ DropRollover \/ DropFails \/ Tidy \/ TidyFails

Next ==
    \/ StartBuild \/ StartRebuild \/ StartBackup
    \/ \E s \in Snapshots : StartRestore(s)
    \/ JobStep
    \/ \E e \in Edits : BeginEdit(e) \/ PersistEdit(e)
    \/ LoadOverrides \/ EditFails
    \/ Crash
    \/ \E a \in strandedAsides : Repair(a)
    \/ Restart

Spec == Init /\ [][Next]_vars

-----------------------------------------------------------------------------
(* Properties.                                                             *)

\* A directory; of hashes/ only the presence matters.
IsDir(d) ==
    /\ DOMAIN d = Names
    /\ d["lancedb"] # Absent => d["lancedb"] \in (1 .. MaxJobs) \X (0 .. MaxJobs)
    /\ d["manifest"] # Absent => d["manifest"] \in 1 .. MaxJobs
    /\ d["overrides"] # Absent => d["overrides"] \subseteq Edits
    /\ d["hashes"] # Absent => d["hashes"] = {}

\* The shape of the state; the snapshots on the shelf are the ones that have
\* files, and none is listed twice.
TypeOK ==
    /\ IsDir(live) /\ IsDir(staged) /\ IsDir(aside) /\ IsDir(rollover)
    /\ \A d \in strandedAsides \cup strandedRollovers : IsDir(d)
    /\ DOMAIN snapshot = Snapshots
    /\ \A s \in Snapshots : IsDir(snapshot[s])
    /\ shelf \in Seq(Snapshots)
    /\ \A i, j \in DOMAIN shelf : shelf[i] = shelf[j] => i = j
    /\ \A s \in Snapshots : ~OnShelf(s) => snapshot[s] = Empty
    /\ pc \in {"idle", "build", "publish_gate", "link", "prune", "mode", "preserve",
               "roll", "install", "rollback", "reinstate", "drop", "tidy"}
    /\ kind \in {"none", "publish", "backup", "restore"}
    /\ step \in 1 .. 4 /\ target \in 0 .. MaxJobs /\ copying \in BOOLEAN
    /\ result \in {"none", "ok", "failed", "untidy"}
    /\ editor \in {"none", "checked", "loaded"} /\ loaded \subseteq Edits
    /\ up \in BOOLEAN /\ jobs \in 1 .. MaxJobs
    /\ failures \in Seq(Faults) /\ Len(failures) <= MaxErrors /\ crashes \in 0 .. MaxCrashes
    /\ kept \subseteq Edits /\ dropped \subseteq Edits /\ replaces \in BOOLEAN
    /\ {requested, before, incoming} \subseteq 0 .. MaxJobs

\* Nothing has failed so far that leaves a swap without a way back: neither the
\* move of a live component into the rollover directory nor the rollback, with
\* the removals it makes.
Orderly == \A i \in DOMAIN failures : failures[i] \notin {"roll", "clear", "rollback"}

\* The directories that hold what is, or was, live.
LiveCopies == {live, aside, rollover} \cup strandedAsides \cup strandedRollovers

\* A swap that replaces one whole index by another keeps all of the old or all
\* of the new among the live and rollover directories, through failures,
\* crashes and restarts: _swap_index_into, _warn_stranded_rollover_dirs.
IndexKept ==
    Orderly /\ before # 0 /\ incoming # 0 =>
        \E i \in {before, incoming} :
            /\ \E d \in LiveCopies : d["lancedb"] # Absent /\ d["lancedb"][1] = i
            /\ \E d \in LiveCopies : d["manifest"] = i

\* No manual edit is lost: a swap that brings no overrides of its own leaves
\* them live or parked, and the repair at startup brings back what a crash has
\* parked (_publish_staged_index, _repair_preserved_components), except where
\* an overrides file has come into being beside the parked one. While a
\* snapshot with overrides of its own comes in, an edit may count as made
\* before it.
EditsKept ==
    Orderly /\ (replaces => pc = "idle") =>
        \A e \in kept \ dropped : \E d \in LiveCopies : e \in EditsIn(d)

\* A table never stands beside the manifest of another index, live or in a
\* snapshot, be there crashes or, outside the exception handler, failures
\* (_swap_index_into, create_index_backup). It takes two mishaps to mix two
\* indexes: a crash in the midst of the rollback, or a component that the
\* rollback cannot remove.
Unclear == \E i \in DOMAIN failures : failures[i] = "clear"
NoMixedIndex ==
    failures = <<>> \/ (crashes = 0 /\ pc # "rollback" /\ ~Unclear) =>
        \A d \in {live} \cup {snapshot[s] : s \in Snapshots} :
            d["lancedb"] # Absent /\ d["manifest"] # Absent => Complete(d)

\* The shape of the state, and no index mixed with another.
StoreSound == TypeOK /\ NoMixedIndex

\* A publish that reports success has made the build live, and a restore that
\* does has made live the snapshot it was asked for (_publish_staged_index,
\* restore_index_from_backup).
SwapEnds == pc \in {"drop", "tidy"} /\ pc' = "idle" /\ up'
SwapDelivers ==
    [][SwapEnds /\ result' = "ok" =>
          LET wanted == IF kind = "publish" THEN incoming ELSE requested
          IN  wanted # 0 => IndexOf(live') = wanted]_vars

\* A job that is reported as failed leaves one whole index live: the one that
\* was live before it (the rollback in _swap_index_into), except where all that
\* failed is the removal of a rollover or aside directory after the
\* installation: then the new one is live.
FailedSwapRollsBack ==
    [][SwapEnds /\ Orderly /\ before # 0 =>
          /\ result' = "failed" => IndexOf(live') = before
          /\ result' = "untidy" /\ incoming # 0 => IndexOf(live') = incoming]_vars

=============================================================================
