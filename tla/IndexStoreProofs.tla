-------------------------- MODULE IndexStoreProofs --------------------------
(***************************************************************************)
(* Theorems about IndexStore, for every set of edits, any number of jobs,  *)
(* failures and crashes, and any number of snapshots kept.                 *)
(*                                                                         *)
(* RInv, the strengthened type invariant, says where the pieces of the     *)
(* index may be at each location of a job. On it rest four arguments: no   *)
(* index is mixed with another (Unmixed); a swap has either the whole old  *)
(* index or the whole new one among the directories that a repair reads    *)
(* (KInv); a swap delivers what it was to deliver (Asked, AskedFor); and a *)
(* manual edit is always in some directory that is read again (EInv).      *)
(***************************************************************************)
EXTENDS IndexStore, TLAPS

-----------------------------------------------------------------------------
(* Components and directories.                                             *)

\* The steps go through the four components in order.
LEMMA Order ==
    /\ Components[1] = "lancedb" /\ Components[2] = "manifest"
    /\ Components[3] = "overrides" /\ Components[4] = "hashes"
    /\ Names = {"lancedb", "manifest", "overrides", "hashes"}
  BY SMT DEF Components, Names

\* The component that a step is about.
LEMMA Stepping ==
    ASSUME step \in 1 .. 4
    PROVE  /\ Component \in Names
           /\ Component = "lancedb" <=> step = 1
           /\ Component = "manifest" <=> step = 2
           /\ Component = "overrides" <=> step = 3
           /\ Component = "hashes" <=> step = 4
  BY Order, SMT DEF Component

\* The number of a job is no missing file, nor is a table, nor a set of edits.
LEMMA Present ==
    /\ \A n \in 0 .. MaxJobs : n # Absent
    /\ \A n \in 0 .. MaxJobs, m \in 0 .. MaxJobs : <<n, m>> # Absent
    /\ \A es \in SUBSET Edits : es # Absent
    /\ 0 \in 0 .. MaxJobs /\ MaxJobs \in Nat
  BY NoFile, StoreBounds

\* Nothing is in the empty directory.
LEMMA EmptyDir ==
    /\ IsDir(Empty)
    /\ \A c \in Names : Empty[c] = Absent
  BY Order, SMT DEF Empty, IsDir

\* A file can be removed from a directory, and replaced by one of another.
LEMMA PutFile ==
    ASSUME NEW d, IsDir(d), NEW e, IsDir(e), NEW c \in Names
    PROVE  /\ IsDir([d EXCEPT ![c] = Absent])
           /\ IsDir([d EXCEPT ![c] = e[c]])
  BY Order, SMT DEF IsDir

\* A table can be copied.
LEMMA PutTable ==
    ASSUME NEW d, IsDir(d), NEW e, IsDir(e), e["lancedb"] # Absent,
           NEW n \in 0 .. MaxJobs
    PROVE  IsDir([d EXCEPT !["lancedb"] = <<e["lancedb"][1], n>>])
<1> DEFINE t == <<e["lancedb"][1], n>>
<1>1. t \in (1 .. MaxJobs) \X (0 .. MaxJobs)
  BY SMT DEF IsDir
<1> HIDE DEF t
<1> QED
  BY <1>1, Order, SMT DEF IsDir

\* A removal that fails leaves a directory with some of the files.
LEMMA Leftover ==
    ASSUME NEW d, IsDir(d), NEW r \in Remains(d)
    PROVE  /\ IsDir(r)
           /\ \A c \in Names : r[c] = Absent \/ r[c] = d[c]
  BY Order, SMT DEF IsDir, Remains

\* The overrides can be replaced.
LEMMA PutOverrides ==
    ASSUME NEW d, IsDir(d), NEW es \in SUBSET Edits
    PROVE  IsDir([d EXCEPT !["overrides"] = es])
  BY Order, SMT DEF IsDir

-----------------------------------------------------------------------------
(* The shelf.                                                              *)

\* What is on the shelf: snapshots of jobs that have begun, none twice.
Listed(sh) ==
    /\ sh \in Seq(Snapshots)
    /\ \A i, j \in DOMAIN sh : sh[i] = sh[j] => i = j
Lists(sh, s) == \E i \in DOMAIN sh : sh[i] = s

\* Removing a snapshot from the shelf leaves the others, each once.
LEMMA OthersStay ==
    ASSUME Listed(shelf), NEW s \in Snapshots
    PROVE  /\ Listed(Others(s))
           /\ \A t : Lists(Others(s), t) <=> OnShelf(t) /\ t # s
<1>1. CASE ~OnShelf(s)
  BY <1>1, SMT DEF Others, OnShelf, Listed, Lists
<1>2. CASE OnShelf(s)
  <2> DEFINE k == CHOOSE i \in DOMAIN shelf : shelf[i] = s
             o == [i \in 1 .. Len(shelf) - 1 |-> shelf[IF i < k THEN i ELSE i + 1]]
  <2>1. k \in DOMAIN shelf /\ shelf[k] = s
    BY <1>2 DEF OnShelf
  <2>2. Others(s) = o
    BY <1>2 DEF Others
  <2>3. /\ shelf \in Seq(Snapshots) /\ k \in 1 .. Len(shelf)
        /\ Len(shelf) \in Nat /\ DOMAIN shelf = 1 .. Len(shelf)
        /\ \A i \in 1 .. Len(shelf) : shelf[i] \in Snapshots
    BY <2>1 DEF Listed
  <2> HIDE DEF k
  <2>7. /\ DOMAIN o = 1 .. (Len(shelf) - 1)
        /\ \A i \in 1 .. (Len(shelf) - 1) : o[i] = IF i < k THEN shelf[i] ELSE shelf[i + 1]
    BY <2>3, SMT
  <2>6. o \in Seq(Snapshots)
    <3>1. \A i \in 1 .. Len(shelf) - 1 : shelf[IF i < k THEN i ELSE i + 1] \in Snapshots
      BY <2>3, SMT
    <3>2. 0 <= Len(shelf) - 1 /\ Len(shelf) - 1 \in Nat
      BY <2>3, SMT
    <3> QED
      BY <3>1, <3>2, SMT
  <2> HIDE DEF o
  <2>8. \A i, j \in DOMAIN o : o[i] = o[j] => i = j
    <3> SUFFICES ASSUME NEW i \in DOMAIN o, NEW j \in DOMAIN o, o[i] = o[j]
                 PROVE  i = j
      OBVIOUS
    <3> DEFINE at(m) == IF m < k THEN m ELSE m + 1
    <3>1. \A m \in DOMAIN o : at(m) \in DOMAIN shelf /\ o[m] = shelf[at(m)]
      BY <2>3, <2>7, SMT
    <3>2. at(i) = at(j)
      BY <3>1 DEF Listed
    <3> QED
      BY <2>3, <2>7, <3>2, SMT
  <2>9. ASSUME NEW t
        PROVE  (\E i \in DOMAIN o : o[i] = t) <=> OnShelf(t) /\ t # s
    <3>1. ASSUME NEW i \in DOMAIN o, o[i] = t PROVE OnShelf(t) /\ t # s
      BY <2>1, <2>3, <2>7, <3>1, SMT DEF OnShelf, Listed
    <3>2. ASSUME NEW i \in DOMAIN shelf, shelf[i] = t, t # s
          PROVE  \E j \in DOMAIN o : o[j] = t
      <4>1. CASE i < k
        BY <2>3, <2>7, <3>2, <4>1, SMT
      <4>2. CASE i > k
        <5>1. i - 1 \in DOMAIN o /\ o[i - 1] = shelf[i]
          BY <2>3, <2>7, <4>2, SMT
        <5> QED
          BY <3>2, <5>1
      <4>3. i # k
        BY <2>1, <3>2
      <4> QED
        BY <4>1, <4>2, <4>3, <2>3, SMT
    <3> QED
      BY <3>1, <3>2 DEF OnShelf
  <2> QED
    BY <2>2, <2>6, <2>8, <2>9 DEF Listed, Lists
<1> QED
  BY <1>1, <1>2

\* A snapshot that is not on the shelf can be put in front.
LEMMA PutFirst ==
    ASSUME NEW sh, Listed(sh), NEW s \in Snapshots, ~Lists(sh, s),
           NEW o, o = <<s>> \o sh
    PROVE  /\ Listed(o)
           /\ \A t : Lists(o, t) <=> t = s \/ Lists(sh, t)
<1>1. /\ sh \in Seq(Snapshots) /\ Len(sh) \in Nat /\ DOMAIN sh = 1 .. Len(sh)
  BY DEF Listed
<1>2. /\ o \in Seq(Snapshots) /\ DOMAIN o = 1 .. (Len(sh) + 1)
      /\ o[1] = s /\ \A i \in 1 .. Len(sh) : o[i + 1] = sh[i]
  BY <1>1, SMT
<1>3. \A i \in DOMAIN o : i = 1 \/ (i - 1 \in DOMAIN sh /\ o[i] = sh[i - 1])
  BY <1>1, <1>2, SMT
<1>4. \A i, j \in DOMAIN o : o[i] = o[j] => i = j
  BY <1>1, <1>2, <1>3, SMT DEF Listed, Lists
<1>5. ASSUME NEW t
      PROVE  (\E i \in DOMAIN o : o[i] = t) <=> t = s \/ \E i \in DOMAIN sh : sh[i] = t
  <2>1. ASSUME NEW i \in DOMAIN sh, sh[i] = t PROVE \E j \in DOMAIN o : o[j] = t
    <3>1. i + 1 \in DOMAIN o /\ o[i + 1] = sh[i]
      BY <1>1, <1>2, SMT
    <3> QED
      BY <3>1, <2>1
  <2>2. 1 \in DOMAIN o
    BY <1>1, <1>2, SMT
  <2> QED
    BY <1>2, <1>3, <2>1, <2>2
<1> QED
  BY <1>2, <1>4, <1>5 DEF Listed, Lists

\* The newest ones are kept.
LEMMA Newest ==
    ASSUME NEW sh, Listed(sh), NEW n \in Nat, n <= Len(sh)
    PROVE  /\ Listed(SubSeq(sh, 1, n))
           /\ \A i \in DOMAIN SubSeq(sh, 1, n) : i \in DOMAIN sh /\ SubSeq(sh, 1, n)[i] = sh[i]
  BY SMT DEF Listed

-----------------------------------------------------------------------------
(* Where the job is.                                                       *)

\* The locations of the job in a swap, and outside one.
Swap  == {"preserve", "roll", "install", "rollback", "reinstate", "drop", "tidy"}
Quiet == {"idle", "build", "publish_gate", "link", "prune", "mode"}

\* The type invariant in three parts: the directories of the swap, the
\* backups, and the rest.
Dirs ==
    /\ IsDir(live) /\ IsDir(staged) /\ IsDir(aside) /\ IsDir(rollover)
    /\ \A d \in strandedAsides \cup strandedRollovers : IsDir(d)
Backups ==
    /\ DOMAIN snapshot = Snapshots
    /\ \A s \in Snapshots : IsDir(snapshot[s])
    /\ Listed(shelf)
    /\ \A s \in Snapshots : ~OnShelf(s) => snapshot[s] = Empty
Plain ==
    /\ pc \in Swap \cup Quiet
    /\ kind \in {"none", "publish", "backup", "restore"}
    /\ step \in 1 .. 4 /\ target \in 0 .. MaxJobs
    /\ result \in {"none", "ok", "failed", "untidy"}
    /\ editor \in {"none", "checked", "loaded"} /\ loaded \subseteq Edits
    /\ jobs \in 1 .. MaxJobs
    /\ failures \in Seq(Faults) /\ Len(failures) <= MaxErrors /\ crashes \in 0 .. MaxCrashes
    /\ kept \subseteq Edits /\ dropped \subseteq Edits
    /\ requested \in 0 .. MaxJobs /\ before \in 0 .. MaxJobs /\ incoming \in 0 .. MaxJobs
Flags == copying \in BOOLEAN /\ up \in BOOLEAN /\ replaces \in BOOLEAN

\* The four parts make up the type invariant.
LEMMA Parts == Dirs /\ Backups /\ Plain /\ Flags => TypeOK
<1> SUFFICES ASSUME Dirs, Backups, Plain, Flags PROVE TypeOK
  OBVIOUS
<1>1. /\ IsDir(live) /\ IsDir(staged) /\ IsDir(aside) /\ IsDir(rollover)
      /\ \A d \in strandedAsides \cup strandedRollovers : IsDir(d)
  BY DEF Dirs
<1>2. /\ DOMAIN snapshot = Snapshots
      /\ \A s \in Snapshots : IsDir(snapshot[s])
      /\ shelf \in Seq(Snapshots)
      /\ \A i, j \in DOMAIN shelf : shelf[i] = shelf[j] => i = j
      /\ \A s \in Snapshots : ~OnShelf(s) => snapshot[s] = Empty
  BY DEF Backups, Listed
<1>3. pc \in {"idle", "build", "publish_gate", "link", "prune", "mode", "preserve",
               "roll", "install", "rollback", "reinstate", "drop", "tidy"}
  BY SMT DEF Plain, Swap, Quiet
<1> QED
  BY <1>1, <1>2, <1>3, Zenon DEF TypeOK, Plain, Flags

\* What the location of the job says of its kind, its target and its result.
Located ==
    /\ ~up => pc = "idle"
    /\ pc \in {"build", "publish_gate"} => kind = "publish"
    /\ pc \in {"link", "prune"} => kind \in {"backup", "restore"}
    /\ pc = "mode" => kind = "restore"
    /\ pc \in Swap => kind \in {"publish", "restore"}
    /\ kind = "restore" /\ pc # "idle" => target \in Snapshots /\ target # jobs
    /\ pc \in (Quiet \ {"idle"}) \cup {"preserve", "roll", "install"} => result = "ok"
    /\ pc = "rollback" => result = "failed" /\ failures # <<>>
    /\ pc = "drop" \/ (pc = "reinstate" /\ kind = "restore") => result \in {"ok", "failed"}
    /\ pc \in {"reinstate", "tidy"} => result \in {"ok", "failed", "untidy"}

\* The numbers of later jobs are unused, and a backup under way is on the
\* shelf, without what it has not copied yet.
Numbered ==
    /\ \A i \in DOMAIN shelf : shelf[i] <= jobs
    /\ pc = "link" => OnShelf(jobs)
    /\ pc = "link" => \A i \in step .. 4 : snapshot[jobs][Components[i]] = Absent

\* No table and no manifest is ever parked.
Bare == \A d \in {aside} \cup strandedAsides : d["lancedb"] = Absent /\ d["manifest"] = Absent

RInv == Dirs /\ Backups /\ Plain /\ Flags /\ Located /\ Numbered /\ Bare

\* The source of a swap is a directory.
LEMMA SourceDir ==
    ASSUME Dirs, Backups, Plain, Located, pc \in Swap
    PROVE  /\ IsDir(Source)
           /\ kind \in {"publish", "restore"}
           /\ kind # "publish" => target \in Snapshots /\ Source = snapshot[target]
           /\ kind = "publish" => Source = staged
<1>1. kind = "restore" => target \in Snapshots
  BY DEF Located, Swap
<1> QED
  BY <1>1 DEF Source, Dirs, Backups, Located

\* The index of a directory has the number of a job, or none.
LEMMA IndexNumber ==
    ASSUME NEW d, IsDir(d)
    PROVE  IndexOf(d) \in 0 .. MaxJobs
  BY Present, SMT DEF IsDir, IndexOf, Complete

\* The initial state is sound.
LEMMA InitSound == Init => RInv
<1> SUFFICES ASSUME Init PROVE RInv
  OBVIOUS
<1>0. 1 \in 1 .. MaxJobs
  BY StoreBounds, SMT
<1>1. Dirs
  <2>1. PICK o \in {Absent, {}}, h \in {Absent, {}} :
            live = [Empty EXCEPT !["lancedb"] = <<1, 0>>, !["manifest"] = 1,
                                 !["overrides"] = o, !["hashes"] = h]
    BY DEF Init
  <2> DEFINE t == <<1, 0>>
  <2>2. t \in (1 .. MaxJobs) \X (0 .. MaxJobs)
    BY <1>0, Present, SMT
  <2> HIDE DEF t
  <2>3. live = [Empty EXCEPT !["lancedb"] = t, !["manifest"] = 1,
                             !["overrides"] = o, !["hashes"] = h]
    BY <2>1 DEF t
  <2>4. IsDir(live)
    BY <1>0, <2>2, <2>3, EmptyDir, Order, SMT DEF IsDir
  <2> QED
    BY <2>4, EmptyDir, Zenon DEF Init, Dirs
<1>2. Backups
  BY EmptyDir, SMT DEF Init, Backups, Listed
<1>3. Plain
  <2>1. failures \in Seq(Faults) /\ Len(failures) <= MaxErrors
    BY StoreBounds, SMT DEF Init
  <2>2. /\ pc = "idle" /\ kind = "none" /\ step = 1
        /\ target = 0 /\ copying = FALSE /\ result = "none"
        /\ editor = "none" /\ loaded = {}
        /\ up = TRUE /\ jobs = 1 /\ crashes = 0
        /\ kept = {} /\ dropped = {} /\ requested = 0 /\ before = 0 /\ incoming = 0
        /\ replaces = FALSE
    BY DEF Init
  <2> QED
    <3>1. pc \in Swap \cup Quiet /\ step \in 1 .. 4
      BY <2>2, SMT DEF Swap, Quiet
    <3>2. /\ 0 \in 0 .. MaxJobs /\ 0 \in 0 .. MaxCrashes
      BY StoreBounds, SMT
    <3> QED
      BY <2>1, <2>2, <1>0, <3>1, <3>2 DEF Plain
<1>6. Flags
  BY DEF Init, Flags
<1>4. Located /\ Numbered
  BY SMT DEF Init, Located, Numbered, Swap
<1>5. Bare
  BY EmptyDir, Order, Zenon DEF Init, Bare
<1> QED
  BY <1>1, <1>2, <1>3, <1>4, <1>5, <1>6 DEF RInv

-----------------------------------------------------------------------------
(* The steps: what each leaves alone.                                      *)

\* The steps that move files between the live database and the other
\* directories.
Moves ==
    \/ StartRebuild \/ Build \/ BuildAborted
    \/ Preserve \/ PreserveFails \/ Roll \/ Install \/ Rollback \/ RollbackFails
    \/ Reinstate \/ DropRollover \/ DropFails \/ Tidy \/ TidyFails
    \/ \E e \in Edits : PersistEdit(e)
    \/ Crash \/ (\E a \in strandedAsides : Repair(a)) \/ Restart

\* The steps that change the backups.
Backs ==
    \/ StartBackup \/ (\E s \in Snapshots : StartRestore(s))
    \/ Link \/ LinkFails \/ Prune \/ Install

\* The other steps of the job, and those of an edit, leave the files alone.
LEMMA FilesStay ==
    ASSUME [Next]_vars
    PROVE  /\ Moves \/ UNCHANGED <<dirs, parked>>
           /\ Backs \/ UNCHANGED backups
<1>1. CASE StartBuild
  BY <1>1 DEF StartBuild
<1>2. CASE StartRebuild
  BY <1>2 DEF StartRebuild, Moves
<1>3. CASE StartBackup
  BY <1>3 DEF StartBackup, Backs
<1>4. CASE \E s \in Snapshots : StartRestore(s)
  BY <1>4 DEF StartRestore, Backs
<1>5. CASE JobStep
  <2>1. CASE Build \/ BuildAborted
    BY <2>1 DEF Build, BuildAborted, Moves
  <2>2. CASE PublishBegins \/ ChooseMode \/ RollFails \/ InstallFails \/ ClearFails \/ ReinstateFails
    BY <2>2 DEF PublishBegins, ChooseMode, RollFails, InstallFails, ClearFails, ReinstateFails
  <2>3. CASE Link \/ LinkFails \/ Prune
    BY <2>3 DEF Link, LinkFails, Prune, Backs
  <2>4. CASE Preserve \/ PreserveFails \/ Roll \/ Rollback \/ RollbackFails
               \/ Reinstate \/ DropRollover \/ DropFails \/ Tidy \/ TidyFails
    BY <2>4 DEF Preserve, PreserveFails, Roll, Rollback, RollbackFails, Reinstate,
                DropRollover, DropFails, Tidy, TidyFails, Moves
  <2>5. CASE Install
    BY <2>5 DEF Moves, Backs
  <2> QED
    BY <1>5, <2>1, <2>2, <2>3, <2>4, <2>5 DEF JobStep
<1>6. CASE \E e \in Edits : BeginEdit(e) \/ PersistEdit(e)
  BY <1>6 DEF BeginEdit, PersistEdit, Moves
<1>7. CASE LoadOverrides \/ EditFails
  BY <1>7 DEF LoadOverrides, EditFails
<1>8. CASE Crash
  BY <1>8 DEF Crash, Moves
<1>9. CASE \E a \in strandedAsides : Repair(a)
  BY <1>9 DEF Repair, Moves
<1>10. CASE Restart
  BY <1>10 DEF Restart, Moves
<1>11. CASE UNCHANGED vars
  BY <1>11 DEF vars
<1> QED
  BY <1>1, <1>2, <1>3, <1>4, <1>5, <1>6, <1>7, <1>8, <1>9, <1>10, <1>11 DEF Next

-----------------------------------------------------------------------------
(* The type invariant of the directories.                                  *)

\* A step leaves directories behind.
LEMMA NextDirs ==
    ASSUME RInv, [Next]_vars
    PROVE  Dirs'
<1>0. /\ Dirs /\ Backups /\ Plain /\ Located
      /\ IsDir(live) /\ IsDir(staged) /\ IsDir(aside) /\ IsDir(rollover)
      /\ \A d \in strandedAsides \cup strandedRollovers : IsDir(d)
      /\ IsDir(Empty)
  BY EmptyDir DEF RInv, Dirs
<1>c. Component \in Names
  BY <1>0, Stepping DEF Plain
<1>1. CASE UNCHANGED <<dirs, parked>>
  BY <1>0, <1>1, SMT DEF Dirs, dirs, parked
<1>2. CASE StartRebuild
  <2>1. IsDir([live EXCEPT !["lancedb"] = Absent])
    BY <1>0, PutFile, Order
  <2> QED
    BY <1>0, <1>2, <2>1, SMT DEF Dirs, StartRebuild, parked
<1>3. CASE Build
  <2>1. jobs \in 1 .. MaxJobs /\ jobs \in 0 .. MaxJobs
    BY <1>0, SMT DEF Plain
  <2>2. IsDir(staged')
    <3> DEFINE t == <<jobs, jobs>>
    <3>1. t \in (1 .. MaxJobs) \X (0 .. MaxJobs)
      BY <2>1
    <3> HIDE DEF t
    <3>2. staged' = [Empty EXCEPT !["lancedb"] = t, !["manifest"] = jobs,
                                  !["overrides"] = live["overrides"]]
      BY <1>3 DEF Build, t
    <3> QED
      BY <1>0, <2>1, <3>1, <3>2, EmptyDir, Order, SMT DEF IsDir
  <2> QED
    BY <1>0, <1>3, <2>2, SMT DEF Dirs, Build, parked
<1>4. CASE BuildAborted
  BY <1>0, <1>4, SMT DEF Dirs, BuildAborted, parked
<1>5. CASE Preserve
  <2>1. IsDir(aside') /\ IsDir(live')
    <3>1. /\ IsDir([aside EXCEPT ![Component] = live[Component]])
          /\ IsDir([live EXCEPT ![Component] = Absent])
      BY <1>0, <1>c, PutFile
    <3>2. \/ /\ aside' = [aside EXCEPT ![Component] = live[Component]]
             /\ live' = [live EXCEPT ![Component] = Absent]
          \/ UNCHANGED <<aside, live>>
      BY <1>5 DEF Preserve
    <3> QED
      BY <1>0, <3>1, <3>2, Zenon
  <2> QED
    BY <1>0, <1>5, <2>1, SMT DEF Dirs, Preserve, parked
<1>6. CASE PreserveFails
  BY <1>0, <1>6, SMT DEF Dirs, PreserveFails
<1>7. CASE Roll
  <2>1. IsDir(rollover') /\ IsDir(live')
    <3>1. /\ IsDir([rollover EXCEPT ![Component] = live[Component]])
          /\ IsDir([live EXCEPT ![Component] = Absent])
      BY <1>0, <1>c, PutFile
    <3>2. \/ /\ rollover' = [rollover EXCEPT ![Component] = live[Component]]
             /\ live' = [live EXCEPT ![Component] = Absent]
          \/ UNCHANGED <<rollover, live>>
      BY <1>7 DEF Roll
    <3> QED
      BY <1>0, <3>1, <3>2, Zenon
  <2> QED
    BY <1>0, <1>7, <2>1, SMT DEF Dirs, Roll, parked
<1>8. CASE Install
  <2>1. IsDir(Source)
    BY <1>0, <1>8, SourceDir DEF Install, Swap
  <2>2. jobs \in 0 .. MaxJobs
    BY <1>0, SMT DEF Plain
  <2>3. Source["lancedb"] # Absent =>
          IsDir([live EXCEPT !["lancedb"] = <<Source["lancedb"][1], jobs>>])
    BY <1>0, <2>1, <2>2, PutTable
  <2>4. Source[Component] # Absent => IsDir([live EXCEPT ![Component] = Copied(Component)])
    BY <1>0, <1>c, <2>1, <2>3, PutFile DEF Copied
  <2>5. /\ IsDir([live EXCEPT ![Component] = Source[Component]])
        /\ IsDir([staged EXCEPT ![Component] = Absent])
    BY <1>0, <1>c, <2>1, PutFile
  <2>6. IsDir(live') /\ IsDir(staged')
    BY <1>0, <1>8, <2>4, <2>5, Zenon DEF Install
  <2> QED
    BY <1>0, <1>8, <2>6, SMT DEF Dirs, Install, parked
<1>9. CASE Rollback
  <2>1. IsDir(rollover') /\ IsDir(live')
    BY <1>0, <1>c, <1>9, PutFile, Zenon DEF Rollback
  <2> QED
    BY <1>0, <1>9, <2>1, SMT DEF Dirs, Rollback, parked
<1>10. CASE RollbackFails
  <2>1. IsDir(live')
    BY <1>0, <1>c, <1>10, PutFile, Zenon DEF RollbackFails
  <2> QED
    BY <1>0, <1>10, <2>1, SMT DEF Dirs, RollbackFails, parked
<1>11. CASE Reinstate
  <2>1. IsDir(aside') /\ IsDir(live')
    <3>1. /\ IsDir([live EXCEPT ![Component] = aside[Component]])
          /\ IsDir([aside EXCEPT ![Component] = Absent])
      BY <1>0, <1>c, PutFile
    <3>2. \/ /\ live' = [live EXCEPT ![Component] = aside[Component]]
             /\ aside' = [aside EXCEPT ![Component] = Absent]
          \/ UNCHANGED <<live, aside>>
      BY <1>11 DEF Reinstate
    <3> QED
      BY <1>0, <3>1, <3>2, Zenon
  <2> QED
    BY <1>0, <1>11, <2>1, SMT DEF Dirs, Reinstate, parked
<1>12. CASE DropRollover
  BY <1>0, <1>12, SMT DEF Dirs, DropRollover, parked
<1>13. CASE Tidy
  BY <1>0, <1>13, SMT DEF Dirs, Tidy
<1>14. CASE \E e \in Edits : PersistEdit(e)
  <2>1. PICK e \in Edits : PersistEdit(e)
    BY <1>14
  <2>2. loaded \cup {e} \in SUBSET Edits
    BY <1>0 DEF Plain
  <2>3. IsDir(live')
    BY <1>0, <2>1, <2>2, PutOverrides DEF PersistEdit
  <2> QED
    BY <1>0, <2>1, <2>3, SMT DEF Dirs, PersistEdit, parked
<1>15. CASE Crash
  BY <1>0, <1>15, SMT DEF Dirs, Crash
<1>16. CASE \E a \in strandedAsides : Repair(a)
  <2>1. PICK a \in strandedAsides : Repair(a)
    BY <1>16
  <2>2. IsDir(live')
    <3>1. live' = [c \in Names |-> IF c \in Sidecars /\ live[c] = Absent
                                     THEN a[c] ELSE live[c]]
      BY <2>1 DEF Repair
    <3>2. IsDir(a)
      BY <1>0
    <3> QED
      BY <1>0, <3>1, <3>2, Order, SMT DEF IsDir, Sidecars
  <2> QED
    BY <1>0, <2>1, <2>2, SMT DEF Dirs, Repair
<1>17. CASE Restart
  BY <1>0, <1>17, SMT DEF Dirs, Restart, parked
<1>18. CASE DropFails
  <2>1. PICK d \in Remains(rollover) :
            strandedRollovers' = strandedRollovers \cup ({d} \ {Empty})
    BY <1>18 DEF DropFails
  <2>2. IsDir(d)
    BY <1>0, Leftover
  <2>3. /\ UNCHANGED <<live, staged>> /\ rollover' = Empty /\ aside' \in {aside, Empty}
        /\ strandedAsides' \subseteq strandedAsides \cup {aside}
    BY <1>18 DEF DropFails
  <2> QED
    BY <1>0, <2>1, <2>2, <2>3, SMT DEF Dirs
<1>19. CASE TidyFails
  <2>1. PICK d \in Remains(aside) : strandedAsides' = strandedAsides \cup ({d} \ {Empty})
    BY <1>19 DEF TidyFails
  <2>2. IsDir(d)
    BY <1>0, Leftover
  <2> QED
    BY <1>0, <1>19, <2>1, <2>2, SMT DEF Dirs, TidyFails
<1> QED
  BY <1>1, <1>2, <1>3, <1>4, <1>5, <1>6, <1>7, <1>8, <1>9, <1>10, <1>11, <1>12, <1>13,
     <1>14, <1>15, <1>16, <1>17, <1>18, <1>19, FilesStay DEF Moves

-----------------------------------------------------------------------------
(* The type invariant of the backups.                                      *)

\* A step that leaves the backups alone starts none either.
LEMMA NoNewBackup ==
    ASSUME RInv, [Next]_vars, ~Backs
    PROVE  /\ jobs' \in Nat /\ jobs' >= jobs
           /\ pc' = "link" => UNCHANGED <<pc, step, jobs>>
<1>0. jobs \in Nat
  BY SMT DEF RInv, Plain
<1>1. CASE StartBuild \/ StartRebuild
  BY <1>0, <1>1, SMT DEF StartBuild, StartRebuild, Start
<1>5. CASE JobStep
  <2>1. UNCHANGED jobs
    BY <1>5 DEF Backs, JobStep, Build, BuildAborted, PublishBegins, ChooseMode, RollFails,
                InstallFails, ReinstateFails, Preserve, PreserveFails, Roll, Rollback,
                RollbackFails, ClearFails, Reinstate, DropRollover, DropFails, Tidy, TidyFails,
                Failing, FailsWith, counts
  <2>2. CASE Build \/ BuildAborted \/ PublishBegins \/ ChooseMode
    BY <1>0, <2>1, <2>2 DEF Build, BuildAborted, PublishBegins, ChooseMode, Goto
  <2>3. CASE RollFails \/ InstallFails \/ PreserveFails \/ RollbackFails \/ ClearFails
    BY <1>0, <2>1, <2>3 DEF RollFails, InstallFails, PreserveFails, RollbackFails, ClearFails, Goto
  <2>4. CASE Preserve \/ Roll \/ Rollback
    BY <1>0, <2>1, <2>4 DEF Preserve, Roll, Rollback, Continue, AfterInstall
  <2>5. CASE Reinstate \/ ReinstateFails
    BY <1>0, <2>1, <2>5 DEF Reinstate, ReinstateFails, Continue, Failing, FailsWith
  <2>6. CASE DropRollover \/ DropFails \/ Tidy \/ TidyFails
    BY <1>0, <2>1, <2>6 DEF DropRollover, DropFails, Tidy, TidyFails, Goto
  <2> QED
    BY <1>5, <2>2, <2>3, <2>4, <2>5, <2>6 DEF JobStep, Backs
<1>6. CASE \E e \in Edits : BeginEdit(e) \/ PersistEdit(e)
  BY <1>0, <1>6 DEF BeginEdit, PersistEdit, counts, job
<1>7. CASE LoadOverrides \/ EditFails
  BY <1>0, <1>7 DEF LoadOverrides, EditFails, counts, job
<1>8. CASE Crash
  BY <1>0, <1>8 DEF Crash
<1>9. CASE \E a \in strandedAsides : Repair(a)
  BY <1>0, <1>9 DEF Repair, counts, job
<1>10. CASE Restart
  BY <1>0, <1>10 DEF Restart, job
<1>11. CASE UNCHANGED vars
  BY <1>0, <1>11 DEF vars, counts, job
<1> QED
  BY <1>1, <1>5, <1>6, <1>7, <1>8, <1>9, <1>10, <1>11 DEF Next, Backs

\* A snapshot is made under a number that none has had.
LEMMA NewSnapshot ==
    ASSUME RInv, jobs < MaxJobs, jobs' = jobs + 1, shelf' = <<jobs'>> \o shelf,
           UNCHANGED snapshot, step' = 1
    PROVE  Backups' /\ Numbered'
<1>0. Backups /\ Listed(shelf)
  BY DEF RInv, Backups
<1>1. jobs \in Nat /\ jobs' \in Snapshots /\ jobs' > jobs
  BY StoreBounds, SMT DEF RInv, Plain, Snapshots
<1>2. /\ \A i \in DOMAIN shelf : shelf[i] \in Nat /\ shelf[i] <= jobs
  <2>1. \A i \in DOMAIN shelf : shelf[i] \in Snapshots
    BY <1>0, SMT DEF Listed
  <2> QED
    BY <2>1, SMT DEF RInv, Numbered, Snapshots
<1>3. ~Lists(shelf, jobs')
  BY <1>1, <1>2, SMT DEF Lists
<1>4. /\ Listed(shelf')
      /\ \A t : Lists(shelf', t) <=> t = jobs' \/ Lists(shelf, t)
  BY <1>0, <1>1, <1>3, PutFirst
<1>5. Backups'
  BY <1>0, <1>4 DEF Backups, OnShelf, Lists
<1>6. \A i \in DOMAIN shelf' : shelf'[i] <= jobs'
  <2>1. \A i \in DOMAIN shelf' : shelf'[i] = jobs' \/ \E j \in DOMAIN shelf : shelf[j] = shelf'[i]
    BY <1>4 DEF Lists
  <2> QED
    BY <1>1, <1>2, <2>1, SMT
<1>7. OnShelf(jobs)'
  BY <1>4 DEF OnShelf, Lists
<1>8. \A i \in step' .. 4 : snapshot'[jobs'][Components[i]] = Absent
  <2>1. snapshot'[jobs'] = Empty
    BY <1>0, <1>1, <1>3 DEF Backups, OnShelf, Lists
  <2>2. \A i \in 1 .. 4 : Components[i] \in Names
    BY DEF Names
  <2> QED
    BY <2>1, <2>2, EmptyDir
<1> QED
  BY <1>5, <1>6, <1>7, <1>8 DEF Numbered

\* A step leaves every snapshot on the shelf once, and only those.
LEMMA NextBackups ==
    ASSUME RInv, [Next]_vars
    PROVE  Backups' /\ Numbered'
<1>0. Backups /\ Numbered /\ Dirs /\ Plain /\ Located /\ Listed(shelf)
  BY DEF RInv, Backups
<1>j. jobs \in Nat /\ jobs \in Snapshots /\ jobs \in 0 .. MaxJobs
  BY <1>0, StoreBounds, SMT DEF Plain, Snapshots
<1>l. \A i \in DOMAIN shelf : shelf[i] \in Nat /\ shelf[i] <= jobs
  <2>1. \A i \in DOMAIN shelf : shelf[i] \in Snapshots
    BY <1>0, SMT DEF Listed
  <2> QED
    BY <1>0, <2>1, SMT DEF Numbered, Snapshots
<1>c. Component \in Names
  BY <1>0, Stepping DEF Plain
<1>1. CASE ~Backs
  <2>1. UNCHANGED <<shelf, snapshot>>
    BY <1>1, FilesStay DEF backups
  <2>2. Backups'
    BY <1>0, <2>1 DEF Backups, OnShelf, Lists
  <2>3. /\ jobs' \in Nat /\ jobs' >= jobs
        /\ pc' = "link" => UNCHANGED <<pc, step, jobs>>
    BY <1>1, NoNewBackup
  <2>4. \A i \in DOMAIN shelf' : shelf'[i] <= jobs'
    BY <1>j, <1>l, <2>1, <2>3, SMT
  <2>5. pc' = "link" => OnShelf(jobs)'
    BY <1>0, <2>1, <2>3 DEF Numbered, OnShelf, Lists
  <2>6. pc' = "link" => \A i \in step' .. 4 : snapshot'[jobs'][Components[i]] = Absent
    BY <1>0, <2>1, <2>3 DEF Numbered
  <2> QED
    BY <2>2, <2>4, <2>5, <2>6 DEF Numbered
<1>2. CASE StartBackup
  BY <1>2, NewSnapshot DEF StartBackup, Start, backups
<1>3. CASE \E s \in Snapshots : StartRestore(s)
  <2>1. PICK s \in Snapshots : StartRestore(s)
    BY <1>3
  <2>2. CASE live["lancedb"] # Absent
    BY <2>1, <2>2, NewSnapshot DEF StartRestore, Start
  <2>3. CASE live["lancedb"] = Absent
    <3>1. UNCHANGED <<shelf, snapshot>> /\ jobs' = jobs + 1 /\ pc' = "mode"
      BY <2>1, <2>3 DEF StartRestore, Start
    <3>2. Backups'
      BY <1>0, <3>1 DEF Backups, OnShelf, Lists
    <3>3. \A i \in DOMAIN shelf' : shelf'[i] <= jobs'
      BY <1>j, <1>l, <3>1, SMT
    <3> QED
      BY <3>1, <3>2, <3>3 DEF Numbered
  <2> QED
    BY <2>2, <2>3
<1>4. CASE Link
  <2>1. PICK hard \in HardLinks :
            snapshot' = [snapshot EXCEPT ![jobs][Component] = Linked(Component, hard)]
    BY <1>4 DEF Link
  <2>2. pc = "link" /\ UNCHANGED <<shelf, jobs>> /\ Continue("prune")
    BY <1>4 DEF Link, counts
  <2>3. IsDir(snapshot[jobs]) /\ IsDir(live)
    BY <1>0, <1>j DEF Backups, Dirs
  <2>4. /\ IsDir([snapshot[jobs] EXCEPT ![Component] = live[Component]])
        /\ live["lancedb"] # Absent =>
              IsDir([snapshot[jobs] EXCEPT !["lancedb"] = <<live["lancedb"][1], jobs>>])
    BY <1>c, <1>j, <2>3, PutFile, PutTable
  <2>5. snapshot' = [snapshot EXCEPT ![jobs] =
                        [snapshot[jobs] EXCEPT ![Component] = Linked(Component, hard)]]
    BY <2>1
  <2>6. IsDir([snapshot[jobs] EXCEPT ![Component] = Linked(Component, hard)])
    BY <2>4 DEF Linked
  <2>7. /\ DOMAIN snapshot' = Snapshots
        /\ \A s \in Snapshots : s # jobs => snapshot'[s] = snapshot[s]
        /\ snapshot'[jobs] = [snapshot[jobs] EXCEPT ![Component] = Linked(Component, hard)]
    BY <1>0, <1>j, <2>5 DEF Backups
  <2>8. OnShelf(jobs)
    BY <1>0, <2>2 DEF Numbered
  <2>9. Backups'
    BY <1>0, <2>2, <2>6, <2>7, <2>8 DEF Backups, OnShelf, Lists
  <2>10. pc' = "link" => \A i \in step' .. 4 : snapshot'[jobs'][Components[i]] = Absent
    <3> SUFFICES ASSUME pc' = "link", NEW i \in step' .. 4
                 PROVE  snapshot'[jobs'][Components[i]] = Absent
      OBVIOUS
    <3>1. step' = step + 1 /\ step \in 1 .. 3 /\ i \in step .. 4 /\ i # step /\ i \in 1 .. 4
      BY <1>0, <2>2, SMT DEF Continue, Plain
    <3>2. snapshot[jobs][Components[i]] = Absent
      BY <1>0, <2>2, <3>1 DEF Numbered
    <3>3. Components[i] # Component /\ Components[i] \in Names
      BY <3>1, Order, SMT DEF Component
    <3>4. DOMAIN snapshot[jobs] = Names
      BY <2>3 DEF IsDir
    <3> QED
      BY <1>c, <2>2, <2>7, <3>2, <3>3, <3>4
  <2> QED
    BY <1>0, <2>2, <2>8, <2>9, <2>10 DEF Numbered, OnShelf, Lists
<1>5. CASE LinkFails
  <2>1. /\ shelf' = Others(jobs) /\ UNCHANGED jobs /\ pc' # "link"
        /\ snapshot' = [snapshot EXCEPT ![jobs] = Empty]
    BY <1>5 DEF LinkFails, Failing, FailsWith, Goto
  <2>2. /\ Listed(shelf')
        /\ \A t : Lists(shelf', t) <=> OnShelf(t) /\ t # jobs
    BY <1>0, <1>j, <2>1, OthersStay
  <2>3. /\ DOMAIN snapshot' = Snapshots
        /\ \A s \in Snapshots : snapshot'[s] = IF s = jobs THEN Empty ELSE snapshot[s]
    BY <1>0, <2>1 DEF Backups
  <2>4. Backups'
    BY <1>0, <2>2, <2>3, EmptyDir DEF Backups, OnShelf, Lists
  <2>5. \A i \in DOMAIN shelf' : shelf'[i] <= jobs'
    BY <1>l, <2>1, <2>2 DEF OnShelf, Lists
  <2> QED
    BY <2>1, <2>4, <2>5 DEF Numbered
<1>6. CASE Prune
  <2>1. /\ shelf' = IF Keep > 0 /\ Len(shelf) > Keep THEN SubSeq(shelf, 1, Keep) ELSE shelf
        /\ snapshot' = [s \in Snapshots |-> IF OnShelf(s)' THEN snapshot[s] ELSE Empty]
        /\ UNCHANGED jobs /\ pc' # "link"
    BY <1>6 DEF Prune, counts, Goto
  <2>2. /\ Listed(shelf')
        /\ \A i \in DOMAIN shelf' : i \in DOMAIN shelf /\ shelf'[i] = shelf[i]
    <3>1. CASE Keep > 0 /\ Len(shelf) > Keep
      <4>1. Keep \in Nat /\ Len(shelf) \in Nat /\ Keep <= Len(shelf)
        BY <1>0, <3>1, StoreBounds, SMT DEF Listed
      <4> QED
        BY <1>0, <2>1, <3>1, <4>1, Newest
    <3>2. CASE ~(Keep > 0 /\ Len(shelf) > Keep)
      BY <1>0, <2>1, <3>2
    <3> QED
      BY <3>1, <3>2
  <2>3. Backups'
    <3>1. \A s \in Snapshots : IsDir(snapshot'[s])
      BY <1>0, <2>1, EmptyDir DEF Backups
    <3>2. \A s \in Snapshots : ~OnShelf(s)' => snapshot'[s] = Empty
      BY <2>1
    <3>3. DOMAIN snapshot' = Snapshots
      BY <2>1
    <3> QED
      BY <2>2, <3>1, <3>2, <3>3 DEF Backups
  <2>4. \A i \in DOMAIN shelf' : shelf'[i] <= jobs'
    BY <1>l, <2>1, <2>2
  <2> QED
    BY <2>1, <2>3, <2>4 DEF Numbered
<1>7. CASE Install
  <2>1. pc = "install" /\ pc' # "link" /\ UNCHANGED jobs
    BY <1>7 DEF Install, Continue, AfterInstall, counts
  <2>2. CASE UNCHANGED backups
    <3>1. UNCHANGED <<shelf, snapshot>>
      BY <2>2 DEF backups
    <3>2. Backups'
      BY <1>0, <3>1 DEF Backups, OnShelf, Lists
    <3> QED
      BY <1>l, <2>1, <3>1, <3>2 DEF Numbered
  <2>3. CASE /\ kind # "publish" /\ Source[Component] # Absent
             /\ snapshot' = [snapshot EXCEPT ![target][Component] = Absent]
             /\ shelf' = <<target>> \o Others(target)
    <3>1. target \in Snapshots /\ Source = snapshot[target]
      BY <1>0, <2>1, <2>3, SourceDir DEF Swap
    <3>2. IsDir(snapshot[target])
      BY <1>0, <3>1 DEF Backups
    <3>3. OnShelf(target)
      BY <1>0, <1>c, <2>3, <3>1, EmptyDir DEF Backups
    <3>4. /\ Listed(Others(target))
          /\ \A t : Lists(Others(target), t) <=> OnShelf(t) /\ t # target
      BY <1>0, <3>1, OthersStay
    <3>5. ~Lists(Others(target), target)
      BY <3>4
    <3>6. /\ Listed(shelf')
          /\ \A t : Lists(shelf', t) <=> OnShelf(t)
      <4>1. /\ Listed(shelf')
            /\ \A t : Lists(shelf', t) <=> t = target \/ Lists(Others(target), t)
        BY <2>3, <3>1, <3>4, <3>5, PutFirst
      <4> QED
        BY <3>3, <3>4, <4>1
    <3>7. /\ DOMAIN snapshot' = Snapshots
          /\ \A s \in Snapshots : s # target => snapshot'[s] = snapshot[s]
          /\ snapshot'[target] = [snapshot[target] EXCEPT ![Component] = Absent]
      BY <1>0, <2>3, <3>1 DEF Backups
    <3>8. IsDir(snapshot'[target])
      BY <1>c, <3>2, <3>7, PutFile
    <3>9. Backups'
      BY <1>0, <3>3, <3>6, <3>7, <3>8 DEF Backups, OnShelf, Lists
    <3>10. \A i \in DOMAIN shelf' : shelf'[i] <= jobs'
      BY <1>l, <2>1, <3>6 DEF OnShelf, Lists
    <3> QED
      BY <2>1, <3>9, <3>10 DEF Numbered
  <2> QED
    BY <1>7, <2>2, <2>3 DEF Install
<1> QED
  BY <1>1, <1>2, <1>3, <1>4, <1>5, <1>6, <1>7 DEF Backs

-----------------------------------------------------------------------------
(* The job, the edit and the counters.                                     *)

\* A failure is one more of those that may happen.
LEMMA FailureCounted ==
    ASSUME Plain, NEW fault, FailsWith(fault)
    PROVE  failures' \in Seq(Faults) /\ Len(failures') <= MaxErrors
  BY StoreBounds, SMT DEF FailsWith, Plain

\* A step leaves the location, the counters and the history in their ranges.
LEMMA NextPlain ==
    ASSUME RInv, [Next]_vars
    PROVE  Plain'
<1>0. Plain /\ Located /\ Dirs /\ Backups
  BY DEF RInv
<1>k. /\ jobs \in Nat /\ jobs \in 0 .. MaxJobs /\ 0 \in 0 .. MaxJobs
      /\ jobs < MaxJobs => jobs + 1 \in 1 .. MaxJobs
      /\ step # 4 => step + 1 \in 1 .. 4
      /\ 1 \in 1 .. 4
  BY <1>0, StoreBounds, SMT DEF Plain
<1>p. \A l \in {"idle", "build", "publish_gate", "link", "prune", "mode", "preserve", "roll",
                "install", "rollback", "reinstate", "drop", "tidy"} : l \in Swap \cup Quiet
  BY DEF Swap, Quiet
<1>i. /\ IndexOf(live) \in 0 .. MaxJobs /\ IndexOf(staged) \in 0 .. MaxJobs
      /\ \A s \in Snapshots : IndexOf(snapshot[s]) \in 0 .. MaxJobs
  BY <1>0, IndexNumber DEF Dirs, Backups
<1>e. EditsIn(live) \subseteq Edits
  BY <1>0, SMT DEF Dirs, IsDir, EditsIn
<1> USE <1>0, <1>k, <1>p
<1>1. CASE StartBuild \/ StartRebuild \/ StartBackup
  BY <1>1 DEF StartBuild, StartRebuild, StartBackup, Start, edit, history, Plain
<1>2. CASE \E s \in Snapshots : StartRestore(s)
  <2>1. PICK s \in Snapshots : StartRestore(s)
    BY <1>2
  <2>2. target' \in 0 .. MaxJobs /\ requested' \in 0 .. MaxJobs
    BY <2>1, <1>i, SMT DEF StartRestore, Snapshots
  <2>3. pc' \in {"link", "mode"}
    BY <2>1 DEF StartRestore
  <2> QED
    BY <2>1, <2>2, <2>3 DEF StartRestore, Start, edit, Plain
<1>3. CASE JobStep
  <2>1. CASE Build \/ BuildAborted
    BY <2>1 DEF Build, BuildAborted, Goto, edit, counts, history, Plain
  <2>2. CASE PublishBegins
    BY <2>2, <1>i DEF PublishBegins, Goto, edit, counts, Plain
  <2>3. CASE ChooseMode
    <3>1. target \in Snapshots
      BY <2>3 DEF Located, ChooseMode
    <3> QED
      BY <2>3, <3>1, <1>i DEF ChooseMode, edit, counts, Plain
  <2>4. CASE Link \/ Preserve \/ Roll \/ Install \/ Rollback \/ Reinstate
    <3>1. \E next \in {"prune", "roll", "install", "drop", "reinstate", "tidy"} : Continue(next)
      BY <2>4 DEF Link, Preserve, Roll, Install, Rollback, Reinstate, AfterInstall
    <3>2. UNCHANGED <<edit, counts, history>>
      BY <2>4 DEF Link, Preserve, Roll, Install, Rollback, Reinstate
    <3> QED
      BY <3>1, <3>2 DEF Continue, edit, counts, history, Plain
  <2>5. CASE LinkFails \/ PreserveFails \/ RollFails \/ InstallFails \/ RollbackFails \/ ClearFails
    <3>1. failures' \in Seq(Faults) /\ Len(failures') <= MaxErrors /\ UNCHANGED <<up, jobs, crashes>>
      BY <2>5, FailureCounted DEF LinkFails, PreserveFails, RollFails, InstallFails,
              RollbackFails, ClearFails, Failing, FailsWith
    <3>2. UNCHANGED <<edit, history>>
      BY <2>5 DEF LinkFails, PreserveFails, RollFails, InstallFails, RollbackFails, ClearFails
    <3>3. \E next \in {"mode", "idle", "rollback", "drop"} : Goto(next)
      BY <2>5 DEF LinkFails, PreserveFails, RollFails, InstallFails, RollbackFails, ClearFails
    <3>4. result' \in {"none", "ok", "failed", "untidy"}
      BY <2>5 DEF LinkFails, PreserveFails, RollFails, InstallFails, RollbackFails, ClearFails, Plain
    <3> QED
      BY <3>1, <3>2, <3>3, <3>4 DEF Goto, edit, history, Plain
  <2>6. CASE ReinstateFails
    <3>1. failures' \in Seq(Faults) /\ Len(failures') <= MaxErrors /\ UNCHANGED <<up, jobs, crashes>>
      BY <2>6, FailureCounted DEF ReinstateFails, Failing, FailsWith
    <3>2. \E next \in {"drop", "tidy"} : Continue(next)
      BY <2>6 DEF ReinstateFails
    <3> QED
      BY <2>6, <3>1, <3>2 DEF ReinstateFails, Continue, edit, history, Plain
  <2>7. CASE Prune \/ Tidy
    <3>1. \E next \in {"mode", "idle"} : Goto(next)
      BY <2>7 DEF Prune, Tidy
    <3> QED
      BY <2>7, <3>1 DEF Prune, Tidy, Goto, edit, counts, history, Plain
  <2>8. CASE DropRollover
    <3>1. \E next \in {"reinstate", "tidy"} : Goto(next)
      BY <2>8 DEF DropRollover
    <3> QED
      BY <2>8, <3>1, <1>e DEF DropRollover, TakesEffect, Goto, edit, counts, Plain
  <2>9. CASE DropFails \/ TidyFails
    <3>1. failures' \in Seq(Faults) /\ Len(failures') <= MaxErrors /\ UNCHANGED <<up, jobs, crashes>>
      BY <2>9, FailureCounted DEF DropFails, TidyFails, Failing, FailsWith
    <3>2. /\ UNCHANGED <<edit, dropped, requested, before, incoming, replaces>>
          /\ kept' \in {kept, EditsIn(live)} /\ result' = Spoilt
      BY <2>9 DEF DropFails, TidyFails, TakesEffect, history
    <3>3. \E next \in {"reinstate", "idle"} : Goto(next)
      BY <2>9 DEF DropFails, TidyFails
    <3>4. result' \in {"none", "ok", "failed", "untidy"}
      BY <3>2 DEF Spoilt, Plain
    <3> QED
      BY <3>1, <3>2, <3>3, <3>4, <1>e DEF Goto, edit, Plain
  <2> QED
    BY <1>3, <2>1, <2>2, <2>3, <2>4, <2>5, <2>6, <2>7, <2>8, <2>9 DEF JobStep
<1>4. CASE \E e \in Edits : BeginEdit(e)
  BY <1>4 DEF BeginEdit, job, counts, history, Plain
<1>5. CASE \E e \in Edits : PersistEdit(e)
  BY <1>5 DEF PersistEdit, job, counts, Plain
<1>6. CASE LoadOverrides \/ EditFails
  BY <1>6, <1>e DEF LoadOverrides, EditFails, job, counts, history, Plain
<1>7. CASE Crash
  <2>1. crashes' \in 0 .. MaxCrashes
    BY <1>7, StoreBounds, SMT DEF Crash, Plain
  <2> QED
    BY <1>7, <2>1 DEF Crash, history, Plain
<1>8. CASE \E a \in strandedAsides : Repair(a)
  <2>1. PICK a \in strandedAsides : Repair(a)
    BY <1>8
  <2>2. IsDir(a)
    BY <2>1 DEF Dirs
  <2>3. EditsIn(a) \subseteq Edits
    BY <2>2, SMT DEF IsDir, EditsIn
  <2> QED
    BY <2>1, <2>3 DEF Repair, job, edit, counts, Plain
<1>9. CASE Restart
  BY <1>9 DEF Restart, job, edit, history, Plain
<1>10. CASE UNCHANGED vars
  BY <1>10 DEF vars, job, edit, counts, history, Plain
<1> QED
  BY <1>1, <1>2, <1>3, <1>4, <1>5, <1>6, <1>7, <1>8, <1>9, <1>10 DEF Next

\* The flags stay flags.
LEMMA NextFlags ==
    ASSUME RInv, [Next]_vars
    PROVE  Flags'
<1>0. Flags
  BY DEF RInv
<1>1. CASE StartBuild \/ StartRebuild \/ StartBackup \/ \E s \in Snapshots : StartRestore(s)
  BY <1>0, <1>1, Zenon DEF StartBuild, StartRebuild, StartBackup, StartRestore, Start, history, Flags
<1>2. CASE JobStep
  <2>1. CASE PublishBegins
    BY <1>0, <2>1, Zenon DEF PublishBegins, Goto, counts, Flags
  <2>2. CASE ChooseMode
    BY <1>0, <2>2, Zenon DEF ChooseMode, counts, Flags, Hardlinked
  <2>3. CASE Build \/ BuildAborted \/ Link \/ Prune \/ Preserve \/ Roll \/ Install \/ Rollback
               \/ Reinstate \/ DropRollover \/ Tidy
    BY <1>0, <2>3, Zenon
    DEF Build, BuildAborted, Link, Prune, Preserve, Roll, Install, Rollback, Reinstate,
        DropRollover, Tidy, Goto, Continue, counts, history, Flags
  <2>4. CASE LinkFails \/ PreserveFails \/ RollFails \/ InstallFails \/ RollbackFails
               \/ ClearFails \/ ReinstateFails \/ DropFails \/ TidyFails
    BY <1>0, <2>4, Zenon
    DEF LinkFails, PreserveFails, RollFails, InstallFails, RollbackFails, ClearFails,
        ReinstateFails, DropFails, TidyFails, Failing, FailsWith, Goto, Continue, history, Flags
  <2> QED
    BY <1>2, <2>1, <2>2, <2>3, <2>4, Zenon DEF JobStep
<1>3. CASE \E e \in Edits : BeginEdit(e) \/ PersistEdit(e)
  BY <1>0, <1>3, Zenon DEF BeginEdit, PersistEdit, job, counts, history, Flags
<1>4. CASE LoadOverrides \/ EditFails
  BY <1>0, <1>4, Zenon DEF LoadOverrides, EditFails, job, counts, history, Flags
<1>5. CASE Crash \/ Restart \/ \E a \in strandedAsides : Repair(a)
  BY <1>0, <1>5, Zenon DEF Crash, Restart, Repair, job, counts, history, Flags
<1>6. CASE UNCHANGED vars
  BY <1>0, <1>6, Zenon DEF vars, job, counts, history, Flags
<1> QED
  BY <1>1, <1>2, <1>3, <1>4, <1>5, <1>6, Zenon DEF Next

\* A failure has been recorded.
LEMMA FailureSeen ==
    ASSUME Plain, NEW fault, FailsWith(fault)
    PROVE  failures' # <<>> /\ failures # failures'
  BY SMT DEF FailsWith, Plain

\* A step takes the job from one location to the next.
LEMMA NextLocated ==
    ASSUME RInv, [Next]_vars
    PROVE  Located'
<1>0. Plain /\ Located /\ Flags /\ Numbered
  BY DEF RInv
<1> USE <1>0
<1>1. CASE StartBuild \/ StartRebuild \/ StartBackup
  BY <1>1 DEF StartBuild, StartRebuild, StartBackup, Start, Located, Swap, Quiet
<1>2. CASE \E s \in Snapshots : StartRestore(s)
  <2>1. PICK s \in Snapshots : StartRestore(s)
    BY <1>2
  <2>2. s <= jobs /\ jobs \in Nat /\ s \in Nat
    BY <2>1, SMT DEF StartRestore, OnShelf, Numbered, Plain, Snapshots
  <2>3. s # jobs + 1
    BY <2>2, SMT
  <2> QED
    BY <2>1, <2>3 DEF StartRestore, Start, Located, Swap, Quiet
<1>3. CASE JobStep
  <2>1. CASE Build \/ BuildAborted \/ PublishBegins
    BY <2>1 DEF Build, BuildAborted, PublishBegins, Goto, counts, Located, Swap, Quiet
  <2>9. CASE ChooseMode
    BY <2>9 DEF ChooseMode, counts, Located, Swap, Quiet
  <2>2. CASE Link \/ Prune
    BY <2>2 DEF Link, Prune, Goto, Continue, counts, Located, Swap, Quiet
  <2>3. CASE LinkFails
    BY <2>3 DEF LinkFails, Failing, FailsWith, Goto, Located, Swap, Quiet
  <2>4. CASE Preserve \/ Roll \/ Install
    BY <2>4 DEF Preserve, Roll, Install, AfterInstall, Continue, counts, Located, Swap, Quiet
  <2>5. CASE PreserveFails \/ RollFails \/ InstallFails \/ RollbackFails \/ ClearFails
    <3>1. failures' # <<>> /\ UNCHANGED <<up, jobs>>
      BY <2>5, FailureSeen
      DEF PreserveFails, RollFails, InstallFails, RollbackFails, ClearFails, Failing, FailsWith
    <3> QED
      BY <2>5, <3>1
      DEF PreserveFails, RollFails, InstallFails, RollbackFails, ClearFails, Failing, Goto,
          Located, Swap, Quiet
  <2>6. CASE Rollback \/ Reinstate
    BY <2>6 DEF Rollback, Reinstate, AfterInstall, Continue, counts, Located, Swap, Quiet
  <2>7. CASE ReinstateFails
    BY <2>7 DEF ReinstateFails, Failing, FailsWith, Continue, Located, Swap, Quiet
  <2>8. CASE DropRollover \/ Tidy
    BY <2>8 DEF DropRollover, Tidy, Goto, counts, Located, Swap, Quiet
  <2>10. CASE DropFails \/ TidyFails
    <3>1. /\ up /\ pc \in {"drop", "tidy"} /\ UNCHANGED <<up, jobs, kind, target>>
          /\ pc' = "idle" \/ (pc' = "reinstate" /\ kind = "publish")
          /\ result' = Spoilt
      BY <2>10 DEF DropFails, TidyFails, Failing, FailsWith, Goto
    <3>2. result' \in {"ok", "failed", "untidy"}
      BY <3>1 DEF Spoilt, Located
    <3> QED
      BY <3>1, <3>2 DEF Located, Swap, Quiet
  <2> QED
    BY <1>3, <2>1, <2>2, <2>3, <2>4, <2>5, <2>6, <2>7, <2>8, <2>9, <2>10 DEF JobStep
<1>4. CASE \E e \in Edits : BeginEdit(e) \/ PersistEdit(e)
  BY <1>4 DEF BeginEdit, PersistEdit, job, counts, Located, Swap, Quiet
<1>5. CASE LoadOverrides \/ EditFails
  BY <1>5 DEF LoadOverrides, EditFails, job, counts, Located
<1>6. CASE Crash
  BY <1>6 DEF Crash, Located, Swap, Quiet
<1>7. CASE Restart
  BY <1>7 DEF Restart, job, Located
<1>8. CASE \E a \in strandedAsides : Repair(a)
  BY <1>8 DEF Repair, job, counts, Located
<1>9. CASE UNCHANGED vars
  BY <1>9 DEF vars, job, counts, Located
<1> QED
  BY <1>1, <1>2, <1>3, <1>4, <1>5, <1>6, <1>7, <1>8, <1>9 DEF Next

\* Only sidecars are parked.
LEMMA NextBare ==
    ASSUME RInv, [Next]_vars
    PROVE  Bare'
<1>0. Plain /\ Dirs /\ Bare
  BY DEF RInv
<1>e. Empty["lancedb"] = Absent /\ Empty["manifest"] = Absent
  BY EmptyDir, Order
<1>1. CASE UNCHANGED <<aside, strandedAsides>>
  BY <1>0, <1>1 DEF Bare
<1>2. CASE Preserve
  <2>1. UNCHANGED strandedAsides
    BY <1>2 DEF Preserve, parked
  <2>2. aside'["lancedb"] = Absent /\ aside'["manifest"] = Absent
    <3>1. aside["lancedb"] = Absent /\ aside["manifest"] = Absent
      BY <1>0 DEF Bare
    <3>2. CASE aside' = aside
      BY <3>1, <3>2
    <3>3. CASE Component \in Sidecars /\ aside' = [aside EXCEPT ![Component] = live[Component]]
      BY <3>1, <3>3 DEF Sidecars
    <3> QED
      BY <1>2, <3>2, <3>3 DEF Preserve
  <2> QED
    BY <1>0, <2>1, <2>2 DEF Bare
<1>3. CASE Reinstate
  <2>1. UNCHANGED strandedAsides
    BY <1>3 DEF Reinstate, parked
  <2>2. aside'["lancedb"] = Absent /\ aside'["manifest"] = Absent
    <3>1. aside["lancedb"] = Absent /\ aside["manifest"] = Absent
      BY <1>0 DEF Bare
    <3>2. aside' = aside \/ aside' = [aside EXCEPT ![Component] = Absent]
      BY <1>3 DEF Reinstate
    <3> QED
      BY <1>0, <3>1, <3>2, Order DEF Dirs, IsDir
  <2> QED
    BY <1>0, <2>1, <2>2 DEF Bare
<1>4. CASE PreserveFails \/ Tidy \/ Crash
  <2>1. aside' = Empty /\ strandedAsides' \subseteq strandedAsides \cup {aside}
    BY <1>4 DEF PreserveFails, Tidy, Crash
  <2> QED
    BY <1>0, <1>e, <2>1 DEF Bare
<1>5. CASE \E a \in strandedAsides : Repair(a)
  <2>1. aside' = aside /\ strandedAsides' \subseteq strandedAsides
    BY <1>5 DEF Repair, dirs
  <2> QED
    BY <1>0, <2>1 DEF Bare
<1>6. CASE StartRebuild \/ Build \/ BuildAborted \/ Roll \/ Rollback \/ RollbackFails
             \/ DropRollover \/ Install \/ Restart \/ \E e \in Edits : PersistEdit(e)
  <2>1. UNCHANGED <<aside, strandedAsides>>
    BY <1>6 DEF StartRebuild, Build, BuildAborted, Roll, Rollback, RollbackFails,
                DropRollover, Install, Restart, PersistEdit, parked
  <2> QED
    BY <1>1, <2>1
<1>7. CASE UNCHANGED <<dirs, parked>>
  BY <1>1, <1>7 DEF dirs, parked
<1>8. CASE DropFails
  <2>1. aside' \in {aside, Empty} /\ strandedAsides' \subseteq strandedAsides \cup {aside}
    BY <1>8 DEF DropFails
  <2> QED
    BY <1>0, <1>e, <2>1 DEF Bare
<1>9. CASE TidyFails
  <2>1. PICK d \in Remains(aside) : strandedAsides' = strandedAsides \cup ({d} \ {Empty})
    BY <1>9 DEF TidyFails
  <2>2. d["lancedb"] = Absent /\ d["manifest"] = Absent
    BY <1>0, Leftover, Order DEF Dirs, Bare
  <2>3. aside' = Empty
    BY <1>9 DEF TidyFails
  <2> QED
    BY <1>0, <1>e, <2>1, <2>2, <2>3 DEF Bare
<1> QED
  BY <1>2, <1>3, <1>4, <1>5, <1>6, <1>7, <1>8, <1>9, FilesStay DEF Moves

\* The strengthened type invariant is inductive.
LEMMA NextSound == RInv /\ [Next]_vars => RInv'
  BY NextDirs, NextBackups, NextPlain, NextFlags, NextLocated, NextBare DEF RInv

\* The shape of the state, for any number of jobs, failures and crashes.
THEOREM Invariance == Spec => []RInv
<1>1. Init => RInv
  BY InitSound
<1>2. RInv /\ [Next]_vars => RInv'
  BY NextSound
<1> QED
  BY <1>1, <1>2, PTL DEF Spec

\* The type invariant, for any number of jobs, failures and crashes.
THEOREM TypeCorrect == Spec => []TypeOK
<1>1. RInv => TypeOK
  BY Parts DEF RInv
<1> QED
  BY <1>1, Invariance, PTL

-----------------------------------------------------------------------------
(* No index is mixed with another.                                         *)

\* Failures and crashes are not forgotten.
LEMMA DamageStays ==
    ASSUME RInv, [Next]_vars
    PROVE  /\ failures' = <<>> => failures = <<>>
           /\ crashes' = 0 => crashes = 0
           /\ UNCHANGED failures \/ \E fault : FailsWith(fault)
<1>0. Plain
  BY DEF RInv
<1>1. CASE UNCHANGED <<failures, crashes>>
  BY <1>1
<1>2. CASE \E fault : FailsWith(fault)
  BY <1>0, <1>2, FailureSeen DEF FailsWith
<1>3. CASE Crash
  <2>1. crashes' # 0 /\ UNCHANGED failures
    BY <1>0, <1>3, SMT DEF Crash, Plain
  <2> QED
    BY <2>1
<1>4. CASE StartBuild \/ StartRebuild \/ StartBackup \/ \E s \in Snapshots : StartRestore(s)
  BY <1>1, <1>4 DEF StartBuild, StartRebuild, StartBackup, StartRestore, Start
<1>5. CASE JobStep
  <2>1. CASE LinkFails \/ PreserveFails \/ RollFails \/ InstallFails \/ RollbackFails
               \/ ClearFails \/ ReinstateFails \/ DropFails \/ TidyFails
    BY <1>2, <2>1 DEF LinkFails, PreserveFails, RollFails, InstallFails, RollbackFails,
                      ClearFails, ReinstateFails, DropFails, TidyFails, Failing
  <2>2. CASE Build \/ BuildAborted \/ PublishBegins \/ Link \/ Prune \/ ChooseMode
    BY <1>1, <2>2 DEF Build, BuildAborted, PublishBegins, Link, Prune, ChooseMode, counts
  <2>3. CASE Preserve \/ Roll \/ Install \/ Rollback \/ Reinstate \/ DropRollover \/ Tidy
    BY <1>1, <2>3 DEF Preserve, Roll, Install, Rollback, Reinstate, DropRollover, Tidy, counts
  <2> QED
    BY <1>5, <2>1, <2>2, <2>3 DEF JobStep
<1>6. CASE \E e \in Edits : BeginEdit(e) \/ PersistEdit(e)
  BY <1>1, <1>6 DEF BeginEdit, PersistEdit, counts
<1>7. CASE LoadOverrides \/ EditFails \/ Restart \/ \E a \in strandedAsides : Repair(a)
  BY <1>1, <1>7 DEF LoadOverrides, EditFails, Restart, Repair, counts
<1>8. CASE UNCHANGED vars
  BY <1>1, <1>8 DEF vars, counts
<1> QED
  BY <1>2, <1>3, <1>4, <1>5, <1>6, <1>7, <1>8 DEF Next

\* What a change of the step's component does to the files of a directory.
Put(e, d, v) ==
    /\ e["lancedb"] = IF step = 1 THEN v ELSE d["lancedb"]
    /\ e["manifest"] = IF step = 2 THEN v ELSE d["manifest"]
    /\ e["overrides"] = IF step = 3 THEN v ELSE d["overrides"]
    /\ e["hashes"] = IF step = 4 THEN v ELSE d["hashes"]
\* A directory with the step's component replaced.
LEMMA Fields ==
    ASSUME step \in 1 .. 4, NEW d, IsDir(d), NEW v, NEW e, e = [d EXCEPT ![Component] = v]
    PROVE  Put(e, d, v)
  BY Stepping, Order, SMT DEF IsDir, Put

\* The component of the step, in a directory.
LEMMA AtStep ==
    ASSUME step \in 1 .. 4, NEW d
    PROVE  /\ step = 1 => d[Component] = d["lancedb"]
           /\ step = 2 => d[Component] = d["manifest"]
           /\ step = 3 => d[Component] = d["overrides"]
           /\ step = 4 => d[Component] = d["hashes"]
           /\ Component \in Sidecars <=> step \in {3, 4}
  BY Stepping, SMT DEF Sidecars

\* The table and the manifest of a directory belong together, if both exist.
Matched(t, m) == t # Absent /\ m # Absent => m = t[1]

\* Where the table and the manifest of one index are while the swap moves them.
SourcesMatch ==
    /\ \A s \in Snapshots : Matched(snapshot[s]["lancedb"], snapshot[s]["manifest"])
    /\ Matched(staged["lancedb"], staged["manifest"])
LiveMatches ==
    /\ pc # "rollback" => Matched(live["lancedb"], live["manifest"])
    /\ pc = "link" /\ step = 2 => Matched(snapshot[jobs]["lancedb"], live["manifest"])
RolloverFree ==
    pc \in Quiet \cup {"preserve", "tidy"} \/ (pc = "reinstate" /\ kind = "publish") =>
        rollover["lancedb"] = Absent /\ rollover["manifest"] = Absent
Rolling ==
    pc = "roll" =>
        /\ step = 1 => rollover["lancedb"] = Absent
        /\ step <= 2 => rollover["manifest"] = Absent
        /\ step = 2 => Matched(rollover["lancedb"], live["manifest"])
        /\ step >= 2 => live["lancedb"] = Absent
        /\ step >= 3 => live["manifest"] = Absent
        /\ step >= 3 => Matched(rollover["lancedb"], rollover["manifest"])
Installing ==
    pc = "install" =>
        /\ Matched(rollover["lancedb"], rollover["manifest"])
        /\ step = 1 => live["lancedb"] = Absent
        /\ step <= 2 => live["manifest"] = Absent
        /\ step = 2 => Matched(live["lancedb"], Source["manifest"])
RollingBack ==
    pc = "rollback" =>
        /\ step = 1 => Matched(rollover["lancedb"], rollover["manifest"])
        /\ step = 2 => Matched(live["lancedb"], rollover["manifest"])
        /\ step >= 3 => Matched(live["lancedb"], live["manifest"])

\* It takes a failure and a crash to mix two indexes, or a component that the
\* rollback cannot remove.
Undamaged == failures = <<>> \/ (crashes = 0 /\ ~Unclear)
Unmixed ==
    Undamaged => /\ SourcesMatch /\ LiveMatches /\ RolloverFree
                 /\ Rolling /\ Installing /\ RollingBack

\* Damage is not undone.
LEMMA DamageRemembered ==
    ASSUME RInv, [Next]_vars, Undamaged'
    PROVE  Undamaged
<1>0. failures \in Seq(Faults)
  BY DEF RInv, Plain
<1>1. ASSUME NEW fault, FailsWith(fault), Unclear
      PROVE  Unclear'
  <2>1. failures' = Append(failures, fault)
    BY <1>1 DEF FailsWith
  <2>2. /\ DOMAIN failures \subseteq DOMAIN failures'
        /\ \A i \in DOMAIN failures : failures'[i] = failures[i]
    BY <1>0, <2>1, SMT
  <2> QED
    BY <1>1, <2>2 DEF Unclear
<1>2. UNCHANGED failures => (Unclear => Unclear')
  BY DEF Unclear
<1> QED
  BY <1>1, <1>2, DamageStays DEF Undamaged

\* No two indexes are mixed at first.
LEMMA InitUnmixed == Init => Unmixed
<1> SUFFICES ASSUME Init PROVE Unmixed
  OBVIOUS
<1>1. pc = "idle" /\ staged = Empty /\ rollover = Empty /\ snapshot = [s \in Snapshots |-> Empty]
  BY DEF Init
<1>2. Matched(live["lancedb"], live["manifest"])
  <2>1. PICK o \in {Absent, {}}, h \in {Absent, {}} :
            live = [Empty EXCEPT !["lancedb"] = <<1, 0>>, !["manifest"] = 1,
                                 !["overrides"] = o, !["hashes"] = h]
    BY DEF Init
  <2> DEFINE t == <<1, 0>>
  <2>2. t[1] = 1
    OBVIOUS
  <2> HIDE DEF t
  <2>3. live["lancedb"] = t /\ live["manifest"] = 1
    BY <2>1, Order, SMT DEF Empty, t
  <2> QED
    BY <2>2, <2>3 DEF Matched
<1>3. Empty["lancedb"] = Absent /\ Empty["manifest"] = Absent
  BY EmptyDir, Order
<1> QED
  BY <1>1, <1>2, <1>3
  DEF Unmixed, SourcesMatch, LiveMatches, RolloverFree, Rolling, Installing, RollingBack, Matched

-----------------------------------------------------------------------------
(* What the steps of a swap do to the table, the manifest and the          *)
(* overrides.                                                              *)

\* Parking: only a sidecar that the source lacks.
LEMMA PreserveMoves ==
    ASSUME RInv, Preserve
    PROVE  /\ pc = "preserve" /\ Continue("roll")
           /\ UNCHANGED <<staged, rollover, shelf, snapshot, strandedAsides, strandedRollovers>>
           /\ UNCHANGED <<edit, counts, history>>
           /\ live'["lancedb"] = live["lancedb"] /\ live'["manifest"] = live["manifest"]
           /\ \/ /\ step = 3 /\ Source["overrides"] = Absent /\ live["overrides"] # Absent
                 /\ live'["overrides"] = Absent /\ aside'["overrides"] = live["overrides"]
              \/ /\ step = 3 => Source["overrides"] # Absent \/ live["overrides"] = Absent
                 /\ live'["overrides"] = live["overrides"]
                 /\ aside'["overrides"] = aside["overrides"]
<1>r. IsDir(live) /\ IsDir(aside) /\ step \in 1 .. 4
  BY DEF RInv, Dirs, Plain
<1>1. CASE /\ Component \in Sidecars /\ Source[Component] = Absent /\ live[Component] # Absent
           /\ aside' = [aside EXCEPT ![Component] = live[Component]]
           /\ live' = [live EXCEPT ![Component] = Absent]
  <2>1. step \in {3, 4}
    BY <1>r, <1>1, AtStep
  <2>2. /\ live'["lancedb"] = live["lancedb"] /\ live'["manifest"] = live["manifest"]
        /\ live'["overrides"] = IF step = 3 THEN Absent ELSE live["overrides"]
    <3>1. Put(live', live, Absent)
      BY <1>r, <1>1, <2>1, Fields
    <3> QED
      BY <1>r, <1>1, <2>1, <3>1 DEF Put
  <2>3. aside'["overrides"] = IF step = 3 THEN live[Component] ELSE aside["overrides"]
    <3>1. Put(aside', aside, live[Component])
      BY <1>r, <1>1, <2>1, Fields
    <3> QED
      BY <1>r, <1>1, <2>1, <3>1 DEF Put
  <2>4. step = 3 => Source["overrides"] = Absent /\ live["overrides"] # Absent
                    /\ live[Component] = live["overrides"]
    BY <1>1, <1>r, AtStep
  <2> QED
    BY <2>2, <2>3, <2>4, Preserve DEF Preserve, backups, parked
<1>2. CASE /\ ~(Component \in Sidecars /\ Source[Component] = Absent /\ live[Component] # Absent)
           /\ UNCHANGED <<aside, live>>
  <2>1. step = 3 => Source["overrides"] # Absent \/ live["overrides"] = Absent
    BY <1>2, <1>r, AtStep
  <2> QED
    BY <1>2, <2>1, Preserve DEF Preserve, backups, parked
<1> QED
  BY <1>1, <1>2, Preserve DEF Preserve

\* Rolling: what is live goes to the rollover directory.
LEMMA RollMoves ==
    ASSUME RInv, Roll
    PROVE  /\ pc = "roll" /\ Continue("install")
           /\ UNCHANGED <<staged, aside, shelf, snapshot, strandedAsides, strandedRollovers>>
           /\ UNCHANGED <<edit, counts, history>>
           /\ live'["lancedb"] = IF step = 1 THEN Absent ELSE live["lancedb"]
           /\ live'["manifest"] = IF step = 2 THEN Absent ELSE live["manifest"]
           /\ live'["overrides"] = IF step = 3 THEN Absent ELSE live["overrides"]
           /\ rollover'["lancedb"] = IF step = 1 /\ live["lancedb"] # Absent
                                       THEN live["lancedb"] ELSE rollover["lancedb"]
           /\ rollover'["manifest"] = IF step = 2 /\ live["manifest"] # Absent
                                       THEN live["manifest"] ELSE rollover["manifest"]
           /\ rollover'["overrides"] = IF step = 3 /\ live["overrides"] # Absent
                                       THEN live["overrides"] ELSE rollover["overrides"]
<1>r. IsDir(live) /\ IsDir(rollover) /\ step \in 1 .. 4
  BY DEF RInv, Dirs, Plain
<1>0. /\ pc = "roll" /\ Continue("install")
      /\ UNCHANGED <<staged, aside, shelf, snapshot, strandedAsides, strandedRollovers>>
      /\ UNCHANGED <<edit, counts, history>>
  BY Roll DEF Roll, backups, parked
<1>1. CASE /\ live[Component] # Absent
           /\ rollover' = [rollover EXCEPT ![Component] = live[Component]]
           /\ live' = [live EXCEPT ![Component] = Absent]
  <2>1. /\ live'["lancedb"] = IF step = 1 THEN Absent ELSE live["lancedb"]
        /\ live'["manifest"] = IF step = 2 THEN Absent ELSE live["manifest"]
        /\ live'["overrides"] = IF step = 3 THEN Absent ELSE live["overrides"]
    <3>1. Put(live', live, Absent)
      BY <1>r, <1>1, Fields
    <3> QED
      BY <1>r, <1>1, <3>1 DEF Put
  <2>2. /\ rollover'["lancedb"] = IF step = 1 THEN live[Component] ELSE rollover["lancedb"]
        /\ rollover'["manifest"] = IF step = 2 THEN live[Component] ELSE rollover["manifest"]
        /\ rollover'["overrides"] = IF step = 3 THEN live[Component] ELSE rollover["overrides"]
    <3>1. Put(rollover', rollover, live[Component])
      BY <1>r, <1>1, Fields
    <3> QED
      BY <1>r, <1>1, <3>1 DEF Put
  <2> QED
    BY <1>r, <1>0, <1>1, <2>1, <2>2, AtStep
<1>2. CASE live[Component] = Absent /\ UNCHANGED <<rollover, live>>
  BY <1>r, <1>0, <1>2, AtStep
<1> QED
  BY <1>1, <1>2, Roll DEF Roll

\* Installing: the source's component is copied or moved to where there is none.
LEMMA InstallMoves ==
    ASSUME RInv, Install
    PROVE  /\ pc = "install" /\ Continue(AfterInstall)
           /\ UNCHANGED <<aside, rollover, strandedAsides, strandedRollovers>>
           /\ UNCHANGED <<edit, counts, history>>
           /\ step = 1 => IF Source["lancedb"] = Absent
                            THEN live'["lancedb"] = live["lancedb"]
                            ELSE /\ live'["lancedb"] # Absent
                                 /\ live'["lancedb"][1] = Source["lancedb"][1]
           /\ step # 1 => live'["lancedb"] = live["lancedb"]
           /\ live'["manifest"] = IF step = 2 /\ Source["manifest"] # Absent
                                    THEN Source["manifest"] ELSE live["manifest"]
           /\ live'["overrides"] = IF step = 3 /\ Source["overrides"] # Absent
                                    THEN Source["overrides"] ELSE live["overrides"]
<1>r. /\ IsDir(live) /\ step \in 1 .. 4 /\ jobs \in 0 .. MaxJobs
  BY SMT DEF RInv, Dirs, Plain
<1>0. /\ pc = "install" /\ Continue(AfterInstall)
      /\ UNCHANGED <<aside, rollover, strandedAsides, strandedRollovers>>
      /\ UNCHANGED <<edit, counts, history>>
  BY Install DEF Install, parked
<1>s. IsDir(Source)
  BY <1>0, SourceDir DEF RInv, Swap
<1>1. CASE Source[Component] = Absent /\ UNCHANGED live
  BY <1>r, <1>0, <1>1, AtStep
<1>2. CASE Source[Component] # Absent /\ live' = [live EXCEPT ![Component] = Copied(Component)]
  <2>1. /\ live'["lancedb"] = IF step = 1 THEN Copied(Component) ELSE live["lancedb"]
        /\ live'["manifest"] = IF step = 2 THEN Copied(Component) ELSE live["manifest"]
        /\ live'["overrides"] = IF step = 3 THEN Copied(Component) ELSE live["overrides"]
    <3>1. Put(live', live, Copied(Component))
      BY <1>r, <1>2, Fields
    <3> QED
      BY <1>r, <1>2, <3>1 DEF Put
  <2>2. /\ step = 2 => Copied(Component) = Source["manifest"]
        /\ step = 3 => Copied(Component) = Source["overrides"]
    BY <1>r, Stepping DEF Copied
  <2>3. step = 1 => Copied(Component) # Absent /\ Copied(Component)[1] = Source["lancedb"][1]
    <3> SUFFICES ASSUME step = 1
                 PROVE  Copied(Component) # Absent /\ Copied(Component)[1] = Source["lancedb"][1]
      OBVIOUS
    <3>1. Component = "lancedb" /\ Source["lancedb"] # Absent
      BY <1>r, <1>2, Stepping
    <3>2. Copied(Component) = <<Source["lancedb"][1], jobs>>
      BY <3>1 DEF Copied
    <3>3. Source["lancedb"][1] \in 0 .. MaxJobs
      BY <1>s, <3>1, SMT DEF IsDir
    <3> QED
      BY <1>r, <3>2, <3>3, Present
  <2> QED
    BY <1>r, <1>0, <1>2, <2>1, <2>2, <2>3, AtStep
<1>3. CASE Source[Component] # Absent /\ live' = [live EXCEPT ![Component] = Source[Component]]
  <2>1. /\ live'["lancedb"] = IF step = 1 THEN Source[Component] ELSE live["lancedb"]
        /\ live'["manifest"] = IF step = 2 THEN Source[Component] ELSE live["manifest"]
        /\ live'["overrides"] = IF step = 3 THEN Source[Component] ELSE live["overrides"]
    <3>1. Put(live', live, Source[Component])
      BY <1>r, <1>3, Fields
    <3> QED
      BY <1>r, <1>3, <3>1 DEF Put
  <2> QED
    BY <1>r, <1>0, <1>3, <2>1, AtStep
<1> QED
  BY <1>1, <1>2, <1>3, Install DEF Install

\* Installing: what leaves the source.
LEMMA InstallTakes ==
    ASSUME RInv, Install
    PROVE  /\ kind \in {"publish", "restore"}
           /\ kind # "publish" => target \in Snapshots /\ Source = snapshot[target]
           /\ kind = "publish" => Source = staged
           /\ step # 1 => staged'["lancedb"] = staged["lancedb"]
           /\ step # 2 => staged'["manifest"] = staged["manifest"]
           /\ step # 3 => staged'["overrides"] = staged["overrides"]
           /\ staged'["lancedb"] \in {Absent, staged["lancedb"]}
           /\ staged'["manifest"] \in {Absent, staged["manifest"]}
           /\ \A s \in Snapshots :
                 /\ step # 1 => snapshot'[s]["lancedb"] = snapshot[s]["lancedb"]
                 /\ step # 2 => snapshot'[s]["manifest"] = snapshot[s]["manifest"]
                 /\ step # 3 => snapshot'[s]["overrides"] = snapshot[s]["overrides"]
                 /\ snapshot'[s]["lancedb"] \in {Absent, snapshot[s]["lancedb"]}
                 /\ snapshot'[s]["manifest"] \in {Absent, snapshot[s]["manifest"]}
<1>r. /\ Dirs /\ Backups /\ Plain /\ Located
      /\ IsDir(staged) /\ step \in 1 .. 4
  BY SMT DEF RInv, Dirs, Plain
<1>0. pc \in Swap
  BY Install DEF Install, Swap
<1>s. /\ kind \in {"publish", "restore"}
      /\ kind # "publish" => target \in Snapshots /\ Source = snapshot[target]
      /\ kind = "publish" => Source = staged
  BY <1>r, <1>0, SourceDir
<1>1. /\ UNCHANGED staged \/ staged' = [staged EXCEPT ![Component] = Absent]
      /\ \/ UNCHANGED snapshot
         \/ target \in Snapshots /\ snapshot' = [snapshot EXCEPT ![target][Component] = Absent]
  BY <1>s, Install DEF Install, backups
<1>2. /\ step # 1 => staged'["lancedb"] = staged["lancedb"]
      /\ step # 2 => staged'["manifest"] = staged["manifest"]
      /\ step # 3 => staged'["overrides"] = staged["overrides"]
      /\ staged'["lancedb"] \in {Absent, staged["lancedb"]}
      /\ staged'["manifest"] \in {Absent, staged["manifest"]}
  <2>1. CASE staged' = [staged EXCEPT ![Component] = Absent]
    <3>1. Put(staged', staged, Absent)
      BY <1>r, <2>1, Fields
    <3> QED
      BY <3>1 DEF Put
  <2> QED
    BY <1>1, <2>1
<1>3. ASSUME NEW s \in Snapshots
      PROVE  /\ step # 1 => snapshot'[s]["lancedb"] = snapshot[s]["lancedb"]
             /\ step # 2 => snapshot'[s]["manifest"] = snapshot[s]["manifest"]
             /\ step # 3 => snapshot'[s]["overrides"] = snapshot[s]["overrides"]
             /\ snapshot'[s]["lancedb"] \in {Absent, snapshot[s]["lancedb"]}
             /\ snapshot'[s]["manifest"] \in {Absent, snapshot[s]["manifest"]}
  <2>1. snapshot'[s] = snapshot[s] \/ snapshot'[s] = [snapshot[s] EXCEPT ![Component] = Absent]
    BY <1>r, <1>1 DEF Backups
  <2>2. IsDir(snapshot[s])
    BY <1>r DEF Backups
  <2>3. CASE snapshot'[s] = [snapshot[s] EXCEPT ![Component] = Absent]
    <3>1. Put(snapshot'[s], snapshot[s], Absent)
      BY <1>r, <2>2, <2>3, Fields
    <3> QED
      BY <3>1 DEF Put
  <2> QED
    BY <2>1, <2>3
<1> QED
  BY <1>s, <1>2, <1>3

\* Rolling back: what the rollover directory has comes back.
LEMMA RollbackMoves ==
    ASSUME RInv, Rollback
    PROVE  /\ pc = "rollback" /\ Continue(AfterInstall)
           /\ UNCHANGED <<staged, aside, shelf, snapshot, strandedAsides, strandedRollovers>>
           /\ UNCHANGED <<edit, counts, history>>
           /\ live'["lancedb"] = IF step = 1 THEN rollover["lancedb"] ELSE live["lancedb"]
           /\ live'["manifest"] = IF step = 2 THEN rollover["manifest"] ELSE live["manifest"]
           /\ live'["overrides"] = IF step = 3 THEN rollover["overrides"] ELSE live["overrides"]
           /\ rollover'["lancedb"] = IF step = 1 THEN Absent ELSE rollover["lancedb"]
           /\ rollover'["manifest"] = IF step = 2 THEN Absent ELSE rollover["manifest"]
           /\ rollover'["overrides"] = IF step = 3 THEN Absent ELSE rollover["overrides"]
<1>r. IsDir(live) /\ IsDir(rollover) /\ step \in 1 .. 4
  BY DEF RInv, Dirs, Plain
<1>0. /\ pc = "rollback" /\ Continue(AfterInstall)
      /\ UNCHANGED <<staged, aside, shelf, snapshot, strandedAsides, strandedRollovers>>
      /\ UNCHANGED <<edit, counts, history>>
      /\ live' = [live EXCEPT ![Component] = rollover[Component]]
      /\ rollover' = [rollover EXCEPT ![Component] = Absent]
  BY Rollback DEF Rollback, backups, parked
<1>1. /\ live'["lancedb"] = IF step = 1 THEN rollover[Component] ELSE live["lancedb"]
      /\ live'["manifest"] = IF step = 2 THEN rollover[Component] ELSE live["manifest"]
      /\ live'["overrides"] = IF step = 3 THEN rollover[Component] ELSE live["overrides"]
  <2>1. Put(live', live, rollover[Component])
    BY <1>r, <1>0, Fields
  <2> QED
    BY <1>r, <1>0, <2>1 DEF Put
<1>2. /\ rollover'["lancedb"] = IF step = 1 THEN Absent ELSE rollover["lancedb"]
      /\ rollover'["manifest"] = IF step = 2 THEN Absent ELSE rollover["manifest"]
      /\ rollover'["overrides"] = IF step = 3 THEN Absent ELSE rollover["overrides"]
  <2>1. Put(rollover', rollover, Absent)
    BY <1>r, <1>0, Fields
  <2> QED
    BY <1>r, <1>0, <2>1 DEF Put
<1> QED
  BY <1>r, <1>0, <1>1, <1>2, AtStep

\* Bringing back what was parked, unless there is one: tables and manifests are not.
LEMMA ReinstateMoves ==
    ASSUME RInv, Reinstate
    PROVE  /\ pc = "reinstate" /\ Continue(IF kind = "publish" THEN "tidy" ELSE "drop")
           /\ UNCHANGED <<staged, rollover, shelf, snapshot, strandedAsides, strandedRollovers>>
           /\ UNCHANGED <<edit, counts, history>>
           /\ live'["lancedb"] = live["lancedb"] /\ live'["manifest"] = live["manifest"]
           /\ \/ /\ step = 3 /\ aside["overrides"] # Absent /\ live["overrides"] = Absent
                 /\ live'["overrides"] = aside["overrides"] /\ aside'["overrides"] = Absent
              \/ /\ live'["overrides"] = live["overrides"]
                 /\ aside'["overrides"] = aside["overrides"]
<1>r. IsDir(live) /\ IsDir(aside) /\ step \in 1 .. 4 /\ Bare
  BY DEF RInv, Dirs, Plain
<1>0. /\ pc = "reinstate" /\ Continue(IF kind = "publish" THEN "tidy" ELSE "drop")
      /\ UNCHANGED <<staged, rollover, shelf, snapshot, strandedAsides, strandedRollovers>>
      /\ UNCHANGED <<edit, counts, history>>
  BY Reinstate DEF Reinstate, backups, parked
<1>1. CASE /\ aside[Component] # Absent /\ live[Component] = Absent
           /\ live' = [live EXCEPT ![Component] = aside[Component]]
           /\ aside' = [aside EXCEPT ![Component] = Absent]
  <2>1. step \in {3, 4}
    BY <1>r, <1>1, AtStep DEF Bare
  <2>2. /\ live'["lancedb"] = live["lancedb"] /\ live'["manifest"] = live["manifest"]
        /\ live'["overrides"] = IF step = 3 THEN aside[Component] ELSE live["overrides"]
    <3>1. Put(live', live, aside[Component])
      BY <1>r, <1>1, <2>1, Fields
    <3> QED
      BY <1>r, <1>1, <2>1, <3>1 DEF Put
  <2>3. aside'["overrides"] = IF step = 3 THEN Absent ELSE aside["overrides"]
    <3>1. Put(aside', aside, Absent)
      BY <1>r, <1>1, Fields
    <3> QED
      BY <1>r, <1>1, <3>1 DEF Put
  <2>4. step = 3 => aside["overrides"] # Absent /\ live["overrides"] = Absent
                    /\ aside[Component] = aside["overrides"]
    BY <1>1, <1>r, AtStep
  <2> QED
    BY <1>0, <2>2, <2>3, <2>4
<1>2. CASE UNCHANGED <<live, aside>>
  BY <1>0, <1>2
<1> QED
  BY <1>1, <1>2, Reinstate DEF Reinstate

\* A step mixes no two indexes.
LEMMA NextUnmixed ==
    ASSUME RInv, Unmixed, [Next]_vars
    PROVE  Unmixed'
<1> SUFFICES ASSUME Undamaged'
             PROVE  /\ SourcesMatch' /\ LiveMatches' /\ RolloverFree'
                    /\ Rolling' /\ Installing' /\ RollingBack'
  BY DEF Unmixed
<1>u. SourcesMatch /\ LiveMatches /\ RolloverFree /\ Rolling /\ Installing /\ RollingBack
  BY DamageRemembered DEF Unmixed
<1>r. /\ Dirs /\ Backups /\ Plain /\ Located /\ Numbered /\ Bare
      /\ IsDir(live) /\ IsDir(staged) /\ IsDir(aside) /\ IsDir(rollover)
      /\ \A s \in Snapshots : IsDir(snapshot[s])
      /\ step \in 1 .. 4 /\ jobs \in Snapshots
      /\ jobs \in Nat
  BY SMT DEF RInv, Dirs, Backups, Plain, Snapshots
<1>e. Empty["lancedb"] = Absent /\ Empty["manifest"] = Absent
  BY EmptyDir, Order
<1>c. Component \in Names
  BY <1>r, Stepping
<1>1. CASE StartBuild \/ StartBackup
  BY <1>1, <1>u DEF StartBuild, StartBackup, Start, dirs, backups, SourcesMatch, LiveMatches, RolloverFree,
        Rolling, Installing, RollingBack, Quiet
<1>2. CASE StartRebuild
  <2>1. live'["lancedb"] = Absent
    BY <1>2, <1>r, Order DEF StartRebuild, IsDir
  <2> QED
    BY <1>2, <1>u, <2>1 DEF StartRebuild, Start, backups, SourcesMatch, LiveMatches, RolloverFree,
        Rolling, Installing, RollingBack, Quiet, Matched
<1>3. CASE \E s \in Snapshots : StartRestore(s)
  BY <1>3, <1>u DEF StartRestore, Start, dirs, SourcesMatch, LiveMatches, RolloverFree,
        Rolling, Installing, RollingBack, Quiet
<1>4. CASE Build
  <2>1. staged'["lancedb"] = <<jobs, jobs>> /\ staged'["manifest"] = jobs
    BY <1>4, EmptyDir, Order, SMT DEF Build, IsDir
  <2>2. Matched(staged'["lancedb"], staged'["manifest"])
    BY <2>1 DEF Matched
  <2> QED
    BY <1>4, <1>u, <2>2 DEF Build, Goto, backups, SourcesMatch, LiveMatches, RolloverFree,
        Rolling, Installing, RollingBack, Quiet
<1>5. CASE BuildAborted \/ PublishBegins
  BY <1>5, <1>u, <1>e DEF BuildAborted, PublishBegins, Goto, dirs, backups, SourcesMatch, LiveMatches, RolloverFree,
        Rolling, Installing, RollingBack, Quiet, Matched
<1>6. CASE Link
  <2>1. PICK hard \in HardLinks :
            snapshot' = [snapshot EXCEPT ![jobs][Component] = Linked(Component, hard)]
    BY <1>6 DEF Link
  <2>2. pc = "link" /\ UNCHANGED <<live, staged, rollover, jobs>> /\ Continue("prune")
    BY <1>6 DEF Link, counts, dirs
  <2> DEFINE d == snapshot[jobs]
             e == snapshot'[jobs]
             v == Linked(Component, hard)
  <2>3. /\ \A s \in Snapshots : s # jobs => snapshot'[s] = snapshot[s]
        /\ e = [d EXCEPT ![Component] = v]
    BY <1>r, <2>1 DEF Backups
  <2>4. IsDir(d)
    BY <1>r
  <2>5. step = 1 => d["manifest"] = Absent
    BY <1>r, <2>2, Order, SMT DEF Numbered
  <2>6. /\ step = 1 /\ live["lancedb"] # Absent /\ v # Absent => v[1] = live["lancedb"][1]
        /\ step = 1 /\ live["lancedb"] = Absent => v = Absent
        /\ step = 2 => v = live["manifest"]
    BY <1>r, Stepping, AtStep DEF Linked
  <2> HIDE DEF v, d, e
  <2>7. /\ e["lancedb"] = IF step = 1 THEN v ELSE d["lancedb"]
        /\ e["manifest"] = IF step = 2 THEN v ELSE d["manifest"]
    <3>1. e = [d EXCEPT ![Component] = v] /\ IsDir(d) /\ step \in 1 .. 4
      BY <1>r, <2>3, <2>4
    <3>2. Put(e, d, v)
      BY <3>1, Fields, Zenon
    <3> QED
      BY <3>2 DEF Put
  <2>8. Matched(d["lancedb"], d["manifest"]) /\ Matched(live["lancedb"], live["manifest"])
    BY <1>u, <1>r, <2>2 DEF d, SourcesMatch, LiveMatches
  <2>9. step = 2 => Matched(d["lancedb"], live["manifest"])
    BY <1>u, <2>2 DEF d, LiveMatches
  <2>10. Matched(e["lancedb"], e["manifest"])
    BY <1>r, <2>5, <2>6, <2>7, <2>8, <2>9 DEF Matched
  <2>11. pc' = "link" /\ step' = 2 => Matched(e["lancedb"], live["manifest"])
    <3>1. CASE step = 1
      BY <2>6, <2>7, <2>8, <3>1 DEF Matched
    <3>2. CASE step # 1
      BY <1>r, <2>2, <3>2, SMT DEF Continue
    <3> QED
      BY <3>1, <3>2
  <2>12. SourcesMatch'
    BY <1>u, <2>2, <2>3, <2>10 DEF e, SourcesMatch
  <2>13. LiveMatches'
    BY <2>2, <2>8, <2>11 DEF e, LiveMatches
  <2> QED
    BY <1>u, <2>2, <2>12, <2>13 DEF Continue, RolloverFree, Rolling, Installing, RollingBack, Quiet
<1>7. CASE LinkFails
  <2>1. /\ pc = "link" /\ pc' \in {"mode", "idle"} /\ UNCHANGED <<live, staged, rollover>>
        /\ snapshot' = [snapshot EXCEPT ![jobs] = Empty]
    BY <1>7 DEF LinkFails, Failing, FailsWith, Goto, dirs
  <2>2. \A s \in Snapshots : snapshot'[s] = IF s = jobs THEN Empty ELSE snapshot[s]
    BY <1>r, <2>1 DEF Backups
  <2> QED
    BY <1>u, <1>e, <2>1, <2>2 DEF SourcesMatch, LiveMatches, RolloverFree,
        Rolling, Installing, RollingBack, Quiet, Matched
<1>8. CASE Prune
  <2>1. /\ pc = "prune" /\ pc' \in {"mode", "idle"} /\ UNCHANGED <<live, staged, rollover>>
        /\ snapshot' = [s \in Snapshots |-> IF OnShelf(s)' THEN snapshot[s] ELSE Empty]
    BY <1>8 DEF Prune, Goto, dirs
  <2>2. \A s \in Snapshots : snapshot'[s] = snapshot[s] \/ snapshot'[s] = Empty
    BY <2>1
  <2> QED
    BY <1>u, <1>e, <2>1, <2>2 DEF SourcesMatch, LiveMatches, RolloverFree,
        Rolling, Installing, RollingBack, Quiet, Matched
<1>9. CASE ChooseMode
  BY <1>9, <1>u DEF ChooseMode, dirs, backups, SourcesMatch, LiveMatches, RolloverFree,
        Rolling, Installing, RollingBack, Quiet
<1>10. CASE Preserve
  <2>1. /\ pc = "preserve" /\ UNCHANGED <<staged, rollover, snapshot>> /\ Continue("roll")
        /\ live'["lancedb"] = live["lancedb"] /\ live'["manifest"] = live["manifest"]
    BY <1>10, PreserveMoves
  <2>2. pc' = "preserve" \/ (pc' = "roll" /\ step' = 1)
    BY <2>1 DEF Continue
  <2> QED
    BY <1>u, <2>1, <2>2 DEF SourcesMatch, LiveMatches, RolloverFree,
        Rolling, Installing, RollingBack, Quiet, Matched
<1>11. CASE PreserveFails
  BY <1>11, <1>u DEF PreserveFails, Failing, FailsWith, Goto, backups, SourcesMatch, LiveMatches, RolloverFree,
        Rolling, Installing, RollingBack, Quiet
<1>12. CASE Roll
  <2>1. /\ pc = "roll" /\ UNCHANGED <<staged, snapshot, jobs>> /\ Continue("install")
    BY <1>12, RollMoves DEF counts
  <2>2. /\ live'["lancedb"] = IF step = 1 THEN Absent ELSE live["lancedb"]
        /\ live'["manifest"] = IF step = 2 THEN Absent ELSE live["manifest"]
        /\ rollover'["lancedb"] = IF step = 1 /\ live["lancedb"] # Absent
                                    THEN live["lancedb"] ELSE rollover["lancedb"]
        /\ rollover'["manifest"] = IF step = 2 /\ live["manifest"] # Absent
                                    THEN live["manifest"] ELSE rollover["manifest"]
    BY <1>12, RollMoves
  <2>3. SourcesMatch'
    BY <1>u, <2>1 DEF SourcesMatch
  <2>4. LiveMatches' /\ RolloverFree' /\ RollingBack'
    BY <1>u, <1>r, <2>1, <2>2 DEF Continue, LiveMatches, RolloverFree, RollingBack, Quiet, Matched
  <2>5. Rolling' /\ Installing'
    <3>1. CASE step = 1
      BY <1>u, <2>1, <2>2, <3>1 DEF Continue, LiveMatches, Rolling, Installing, Matched
    <3>2. CASE step = 2
      BY <1>u, <2>1, <2>2, <3>2 DEF Continue, Rolling, Installing, Matched
    <3>3. CASE step = 3
      BY <1>u, <2>1, <2>2, <3>3 DEF Continue, Rolling, Installing, Matched
    <3>4. CASE step = 4
      BY <1>u, <2>1, <2>2, <3>4 DEF Continue, Rolling, Installing, Matched
    <3> QED
      BY <1>r, <3>1, <3>2, <3>3, <3>4
  <2> QED
    BY <2>3, <2>4, <2>5
<1>13. CASE RollFails \/ InstallFails
  <2>1. /\ pc \in {"roll", "install"} /\ pc' = "rollback" /\ step' = 1
        /\ UNCHANGED <<live, staged, rollover, snapshot, jobs>>
    BY <1>13 DEF RollFails, InstallFails, Failing, FailsWith, Goto, dirs, backups
  <2>2. Matched(rollover["lancedb"], rollover["manifest"])
    BY <1>u, <1>r, <2>1 DEF Rolling, Installing, Matched
  <2> QED
    BY <1>u, <2>1, <2>2 DEF SourcesMatch, LiveMatches, RolloverFree,
        Rolling, Installing, RollingBack, Quiet, Matched
<1>14. CASE Install
  <2>1. /\ pc = "install" /\ UNCHANGED <<rollover, jobs, kind, target>> /\ Continue(AfterInstall)
    BY <1>14, InstallMoves DEF counts, Continue
  <2>s. /\ kind # "publish" => target \in Snapshots /\ Source = snapshot[target]
        /\ kind = "publish" => Source = staged
    BY <1>14, InstallTakes
  <2>m. Matched(Source["lancedb"], Source["manifest"])
    BY <1>u, <2>s DEF SourcesMatch
  <2>2. /\ step = 1 => IF Source["lancedb"] = Absent
                         THEN live'["lancedb"] = live["lancedb"]
                         ELSE live'["lancedb"][1] = Source["lancedb"][1]
        /\ step # 1 => live'["lancedb"] = live["lancedb"]
        /\ live'["manifest"] = IF step = 2 /\ Source["manifest"] # Absent
                                 THEN Source["manifest"] ELSE live["manifest"]
    BY <1>14, InstallMoves
  <2>3. /\ step # 2 => staged'["manifest"] = staged["manifest"]
        /\ staged'["lancedb"] \in {Absent, staged["lancedb"]}
        /\ staged'["manifest"] \in {Absent, staged["manifest"]}
    BY <1>14, InstallTakes
  <2>4. \A s \in Snapshots :
           /\ step # 2 => snapshot'[s]["manifest"] = snapshot[s]["manifest"]
           /\ snapshot'[s]["lancedb"] \in {Absent, snapshot[s]["lancedb"]}
           /\ snapshot'[s]["manifest"] \in {Absent, snapshot[s]["manifest"]}
    BY <1>14, InstallTakes
  <2>6. SourcesMatch'
    <3>1. Matched(staged'["lancedb"], staged'["manifest"])
      BY <1>u, <2>3 DEF SourcesMatch, Matched
    <3>2. \A s \in Snapshots : Matched(snapshot'[s]["lancedb"], snapshot'[s]["manifest"])
      BY <1>u, <2>4 DEF SourcesMatch, Matched
    <3> QED
      BY <3>1, <3>2 DEF SourcesMatch
  <2>7. step = 1 => Source'["manifest"] = Source["manifest"]
    BY <2>1, <2>3, <2>4, <2>s DEF Source
  <2>8. Matched(rollover["lancedb"], rollover["manifest"])
    BY <1>u, <2>1 DEF Installing
  <2>9. /\ Matched(live'["lancedb"], live'["manifest"])
        /\ step = 1 => Matched(live'["lancedb"], Source["manifest"])
        /\ step = 1 => live'["manifest"] = Absent
    <3>1. CASE step = 1
      BY <1>u, <2>1, <2>2, <2>m, <3>1 DEF Installing, Matched
    <3>2. CASE step = 2
      BY <1>u, <2>1, <2>2, <3>2 DEF Installing, Matched
    <3>3. CASE step \notin {1, 2}
      BY <1>u, <2>1, <2>2, <3>3 DEF LiveMatches, Matched
    <3> QED
      BY <3>1, <3>2, <3>3
  <2>10. \/ step = 4 /\ step' = 1 /\ pc' \in {"drop", "reinstate"}
               /\ (pc' = "reinstate" => kind' # "publish")
         \/ step # 4 /\ step' = step + 1 /\ pc' = "install"
    BY <2>1 DEF Continue, AfterInstall
  <2>11. Installing'
    <3> SUFFICES ASSUME pc' = "install" PROVE Installing'
      BY DEF Installing
    <3>1. step' # 1 /\ (step' <= 2 => step = 1)
      BY <1>r, <2>10, SMT
    <3> QED
      BY <1>r, <2>1, <2>7, <2>8, <2>9, <2>10, <3>1 DEF Installing
  <2> QED
    BY <2>6, <2>9, <2>10, <2>11 DEF LiveMatches, RolloverFree, Rolling, RollingBack, Quiet
<1>15. CASE Rollback
  <2>1. /\ pc = "rollback" /\ UNCHANGED <<staged, snapshot, jobs>> /\ Continue(AfterInstall)
    BY <1>15, RollbackMoves DEF counts
  <2>2. /\ live'["lancedb"] = IF step = 1 THEN rollover["lancedb"] ELSE live["lancedb"]
        /\ live'["manifest"] = IF step = 2 THEN rollover["manifest"] ELSE live["manifest"]
    BY <1>15, RollbackMoves
  <2>3. rollover'["manifest"] = IF step = 2 THEN Absent ELSE rollover["manifest"]
    BY <1>15, RollbackMoves
  <2>4. SourcesMatch'
    BY <1>u, <2>1 DEF SourcesMatch
  <2>5. \/ step = 4 /\ step' = 1 /\ pc' \in {"drop", "reinstate"}
              /\ (pc' = "reinstate" => kind' # "publish")
        \/ step # 4 /\ step' = step + 1 /\ pc' = "rollback"
    BY <2>1 DEF Continue, AfterInstall
  <2>6. LiveMatches' /\ RollingBack'
    <3>1. CASE step = 1
      BY <1>u, <2>1, <2>2, <2>3, <2>5, <3>1 DEF LiveMatches, RollingBack, Matched
    <3>2. CASE step = 2
      BY <1>u, <2>1, <2>2, <2>3, <2>5, <3>2 DEF LiveMatches, RollingBack, Matched
    <3>3. CASE step = 3
      BY <1>u, <2>1, <2>2, <2>3, <2>5, <3>3 DEF LiveMatches, RollingBack, Matched
    <3>4. CASE step = 4
      BY <1>u, <2>1, <2>2, <2>3, <2>5, <3>4 DEF LiveMatches, RollingBack, Matched
    <3> QED
      BY <1>r, <3>1, <3>2, <3>3, <3>4
  <2> QED
    BY <2>4, <2>5, <2>6 DEF RolloverFree, Rolling, Installing, Quiet
<1>16. CASE RollbackFails
  <2>1. /\ pc = "rollback" /\ UNCHANGED <<staged, rollover, snapshot, jobs>> /\ pc' = "drop" /\ step' = 1
        /\ live' = [live EXCEPT ![Component] = Absent]
    BY <1>16 DEF RollbackFails, Failing, FailsWith, Goto, backups
  <2>2. /\ live'["lancedb"] = IF step = 1 THEN Absent ELSE live["lancedb"]
        /\ live'["manifest"] = IF step = 2 THEN Absent ELSE live["manifest"]
    <3>1. Put(live', live, Absent)
      BY <1>r, <2>1, Fields
    <3> QED
      BY <3>1 DEF Put
  <2>3. Matched(live'["lancedb"], live'["manifest"])
    BY <1>u, <1>r, <2>1, <2>2, SMT DEF RollingBack, Matched
  <2> QED
    BY <1>u, <2>1, <2>3 DEF SourcesMatch, LiveMatches, RolloverFree,
        Rolling, Installing, RollingBack, Quiet
<1>17. CASE Reinstate
  <2>1. /\ pc = "reinstate" /\ UNCHANGED <<staged, rollover, snapshot>>
        /\ Continue(IF kind = "publish" THEN "tidy" ELSE "drop")
        /\ live'["lancedb"] = live["lancedb"] /\ live'["manifest"] = live["manifest"]
    BY <1>17, ReinstateMoves
  <2> QED
    BY <1>u, <2>1 DEF Continue, SourcesMatch, LiveMatches, RolloverFree,
        Rolling, Installing, RollingBack, Quiet, Matched
<1>18. CASE ReinstateFails
  BY <1>18, <1>u DEF ReinstateFails, Failing, FailsWith, Continue, dirs, backups, SourcesMatch, LiveMatches, RolloverFree,
        Rolling, Installing, RollingBack, Quiet
<1>19. CASE DropRollover
  BY <1>19, <1>u, <1>e DEF DropRollover, Goto, backups, SourcesMatch, LiveMatches, RolloverFree,
        Rolling, Installing, RollingBack, Quiet
<1>20. CASE Tidy
  BY <1>20, <1>u, <1>e DEF Tidy, Goto, backups, SourcesMatch, LiveMatches, RolloverFree,
        Rolling, Installing, RollingBack, Quiet, Matched
<1>21. CASE \E e \in Edits : BeginEdit(e)
  BY <1>21, <1>u DEF BeginEdit, dirs, backups, job, counts, SourcesMatch, LiveMatches, RolloverFree,
        Rolling, Installing, RollingBack, Source
<1>22. CASE \E e \in Edits : PersistEdit(e)
  <2>1. PICK e \in Edits : PersistEdit(e)
    BY <1>22
  <2>2. live'["lancedb"] = live["lancedb"] /\ live'["manifest"] = live["manifest"]
    BY <1>r, <2>1, Order DEF PersistEdit, IsDir
  <2> QED
    BY <1>u, <2>1, <2>2 DEF PersistEdit, backups, job, counts, SourcesMatch, LiveMatches, RolloverFree,
        Rolling, Installing, RollingBack, Source
<1>23. CASE LoadOverrides \/ EditFails
  BY <1>23, <1>u DEF LoadOverrides, EditFails, dirs, backups, job, counts, SourcesMatch, LiveMatches, RolloverFree,
        Rolling, Installing, RollingBack, Source
<1>24. CASE Crash
  <2>1. failures = <<>> /\ pc # "rollback"
    <3>1. crashes' # 0 /\ UNCHANGED failures
      BY <1>24, <1>r, SMT DEF Crash, Plain
    <3> QED
      BY <1>r, <3>1 DEF Undamaged, Located
  <2> QED
    BY <1>24, <1>u, <1>e, <2>1 DEF Crash, backups, SourcesMatch, LiveMatches, RolloverFree,
        Rolling, Installing, RollingBack, Quiet
<1>25. CASE \E a \in strandedAsides : Repair(a)
  <2>1. PICK a \in strandedAsides : Repair(a)
    BY <1>25
  <2>2. live'["lancedb"] = live["lancedb"] /\ live'["manifest"] = live["manifest"]
    BY <2>1, Order, SMT DEF Repair, Sidecars
  <2>3. pc = "idle" /\ UNCHANGED <<staged, rollover, snapshot, jobs, pc, step, kind, target>>
    BY <1>r, <2>1 DEF Repair, Located, backups, job, counts
  <2> QED
    BY <1>u, <2>2, <2>3 DEF SourcesMatch, LiveMatches, RolloverFree,
        Rolling, Installing, RollingBack, Quiet
<1>26. CASE Restart
  BY <1>26, <1>r, <1>u, <1>e DEF Restart, Located, backups, job, SourcesMatch, LiveMatches, RolloverFree,
        Rolling, Installing, RollingBack, Quiet, Matched
<1>27. CASE UNCHANGED vars
  BY <1>27, <1>u DEF vars, dirs, backups, job, counts, SourcesMatch, LiveMatches, RolloverFree,
        Rolling, Installing, RollingBack, Source
<1>28. CASE ClearFails
  <2>1. failures' = Append(failures, "clear")
    BY <1>28 DEF ClearFails, FailsWith
  <2>2. failures' # <<>> /\ \E i \in DOMAIN failures' : failures'[i] = "clear"
    <3>1. /\ Len(failures) + 1 \in DOMAIN failures'
          /\ failures'[Len(failures) + 1] = "clear"
      BY <1>r, <2>1, SMT DEF Plain
    <3>2. failures' # <<>>
      BY <1>r, <2>1, SMT DEF Plain
    <3> QED
      BY <3>1, <3>2
  <2> QED
    BY <2>2 DEF Undamaged, Unclear
<1>29. CASE DropFails
  <2>1. /\ pc = "drop" /\ rollover' = Empty /\ UNCHANGED <<live, staged, snapshot, jobs, kind>>
        /\ pc' = "idle" \/ pc' = "reinstate"
    BY <1>29 DEF DropFails, Failing, FailsWith, Goto, backups
  <2> QED
    BY <1>u, <1>e, <2>1 DEF SourcesMatch, LiveMatches, RolloverFree,
        Rolling, Installing, RollingBack, Quiet
<1>30. CASE TidyFails
  <2>1. /\ pc = "tidy" /\ staged' = Empty /\ UNCHANGED <<live, rollover, snapshot, jobs>>
        /\ pc' = "idle"
    BY <1>30 DEF TidyFails, Failing, FailsWith, Goto, backups
  <2> QED
    BY <1>u, <1>e, <2>1 DEF SourcesMatch, LiveMatches, RolloverFree,
        Rolling, Installing, RollingBack, Quiet, Matched
<1> QED
  BY <1>1, <1>2, <1>3, <1>4, <1>5, <1>6, <1>7, <1>8, <1>9, <1>10, <1>11, <1>12, <1>13, <1>14,
     <1>15, <1>16, <1>17, <1>18, <1>19, <1>20, <1>21, <1>22, <1>23, <1>24, <1>25, <1>26, <1>27,
     <1>28, <1>29, <1>30
  DEF Next, JobStep

\* A table never stands beside the manifest of another index, for any number
\* of jobs, failures and crashes.
THEOREM Sound == Spec => []StoreSound
<1>1. Init => Unmixed
  BY InitUnmixed
<1>2. RInv /\ Unmixed /\ [Next]_vars => Unmixed'
  BY NextUnmixed
<1>3. RInv /\ Unmixed => NoMixedIndex
  <2> SUFFICES ASSUME RInv, Unmixed, failures = <<>> \/ (crashes = 0 /\ pc # "rollback" /\ ~Unclear),
                      NEW d \in {live} \cup {snapshot[s] : s \in Snapshots},
                      d["lancedb"] # Absent, d["manifest"] # Absent
               PROVE  Complete(d)
    BY DEF NoMixedIndex
  <2>1. pc # "rollback" /\ SourcesMatch /\ LiveMatches
    BY DEF RInv, Located, Undamaged, Unmixed
  <2>2. Matched(d["lancedb"], d["manifest"])
    BY <2>1 DEF SourcesMatch, LiveMatches
  <2> QED
    BY <2>2 DEF Matched, Complete
<1>4. RInv => TypeOK
  BY Parts DEF RInv
<1> QED
  BY <1>1, <1>2, <1>3, <1>4, Invariance, PTL DEF Spec, StoreSound

-----------------------------------------------------------------------------
(* A swap keeps the old index or the new one.                              *)

\* A directory has the table, or the manifest, of index i.
HasTable(d, i)    == d["lancedb"] # Absent /\ d["lancedb"][1] = i
HasManifest(d, i) == d["manifest"] = i
Whole(d, i)       == HasTable(d, i) /\ HasManifest(d, i)

\* Where the index that the swap replaces is ...
OldKept ==
    Orderly /\ before # 0 =>
        /\ pc = "preserve" => Whole(live, before)
        /\ pc = "roll" =>
              /\ HasTable(IF step = 1 THEN live ELSE rollover, before)
              /\ HasManifest(IF step <= 2 THEN live ELSE rollover, before)
        /\ pc = "install" => Whole(rollover, before)
        /\ pc = "rollback" =>
              /\ HasTable(IF step = 1 THEN rollover ELSE live, before)
              /\ HasManifest(IF step <= 2 THEN rollover ELSE live, before)
        /\ pc \in {"reinstate", "drop", "tidy"} /\ result = "failed" => Whole(live, before)

\* ... and the one that replaces it.
NewKept ==
    incoming # 0 =>
        /\ pc \in {"preserve", "roll"} => Whole(Source, incoming)
        /\ pc = "install" =>
              /\ HasTable(IF step = 1 THEN Source ELSE live, incoming)
              /\ HasManifest(IF step <= 2 THEN Source ELSE live, incoming)
        /\ pc \in {"reinstate", "drop", "tidy"} /\ result \in {"ok", "untidy"} => Whole(live, incoming)

\* A whole index is the directory's index, and the other way round.
LEMMA WholeIndex ==
    ASSUME NEW d, NEW i, i # 0
    PROVE  /\ Whole(d, i) => IndexOf(d) = i
           /\ IndexOf(d) = i => Whole(d, i)
  BY DEF Whole, HasTable, HasManifest, IndexOf, Complete

\* A failure that leaves no way back is remembered.
LEMMA DisorderStays ==
    ASSUME RInv, [Next]_vars, Orderly'
    PROVE  /\ Orderly
           /\ \A fault : FailsWith(fault) => fault \notin {"roll", "clear", "rollback"}
<1>0. failures \in Seq(Faults)
  BY DEF RInv, Plain
<1>1. ASSUME NEW fault, FailsWith(fault)
      PROVE  Orderly /\ fault \notin {"roll", "clear", "rollback"}
  <2>1. failures' = Append(failures, fault) /\ fault \in Faults
    BY <1>1 DEF FailsWith
  <2>2. /\ DOMAIN failures' = 1 .. (Len(failures) + 1) /\ Len(failures) \in Nat
        /\ DOMAIN failures = 1 .. Len(failures)
        /\ failures'[Len(failures) + 1] = fault
        /\ \A i \in DOMAIN failures : failures'[i] = failures[i]
    BY <1>0, <2>1, SMT
  <2>3. Len(failures) + 1 \in DOMAIN failures' /\ DOMAIN failures \subseteq DOMAIN failures'
    BY <2>2, SMT
  <2> QED
    BY <2>2, <2>3 DEF Orderly
<1>2. UNCHANGED failures => Orderly
  BY DEF Orderly
<1> QED
  BY <1>1, <1>2, DamageStays

\* A step that leaves the tables and manifests of live, rollover and source,
\* and the location, alone.
LEMMA OldNewStay ==
    ASSUME OldKept, NewKept, Orderly' => Orderly,
           live'["lancedb"] = live["lancedb"], live'["manifest"] = live["manifest"],
           UNCHANGED <<rollover, staged, snapshot, pc, step, kind, target, result, before, incoming>>
    PROVE  OldKept' /\ NewKept'
  BY DEF OldKept, NewKept, Whole, HasTable, HasManifest, Source

\* No step of a swap, fail as it may, loses both indexes.
LEMMA NextOldNew ==
    ASSUME RInv, OldKept, NewKept, [Next]_vars
    PROVE  OldKept' /\ NewKept'
<1>r. /\ Dirs /\ Backups /\ Plain /\ Located /\ step \in 1 .. 4
      /\ \A d : d["manifest"] = incoming /\ incoming # 0 => d["manifest"] # Absent
      /\ \A d : d["manifest"] = before /\ before # 0 => d["manifest"] # Absent
  BY Present DEF RInv, Plain
<1>o. Orderly' => Orderly /\ \A fault : FailsWith(fault) => fault \notin {"roll", "clear", "rollback"}
  BY DisorderStays
<1>q. pc' \in Quiet => OldKept' /\ NewKept'
  BY DEF OldKept, NewKept, Quiet
<1>1. CASE StartBuild \/ StartRebuild \/ StartBackup \/ \E s \in Snapshots : StartRestore(s)
  BY <1>1, <1>q DEF StartBuild, StartRebuild, StartBackup, StartRestore, Quiet
<1>2. CASE Build \/ BuildAborted \/ Link \/ LinkFails \/ Prune \/ PreserveFails \/ Tidy \/ TidyFails
           \/ Crash
  <2>1. pc' \in Quiet
    BY <1>2 DEF Build, BuildAborted, Link, LinkFails, Prune, PreserveFails, Tidy, TidyFails, Crash,
                Goto, Continue, Quiet
  <2> QED
    BY <1>q, <2>1
<1>3. CASE PublishBegins
  <2>1. /\ kind = "publish" /\ pc' = "preserve" /\ UNCHANGED <<live, staged, kind, target>>
        /\ before' = IndexOf(live) /\ incoming' = IndexOf(staged)
    BY <1>3, <1>r DEF PublishBegins, Goto, dirs, Located
  <2>2. before' # 0 => Whole(live', before')
    BY <2>1, WholeIndex
  <2>3. incoming' # 0 => Whole(staged', incoming')
    BY <2>1, WholeIndex
  <2> QED
    BY <2>1, <2>2, <2>3 DEF OldKept, NewKept, Source
<1>4. CASE ChooseMode
  <2>1. /\ kind = "restore" /\ pc' = "preserve" /\ UNCHANGED <<live, snapshot, kind, target>>
        /\ before' = IndexOf(live) /\ incoming' = IndexOf(snapshot[target])
    BY <1>4, <1>r DEF ChooseMode, dirs, backups, Located
  <2>2. before' # 0 => Whole(live', before')
    BY <2>1, WholeIndex
  <2>3. incoming' # 0 => Whole(snapshot'[target'], incoming')
    BY <2>1, WholeIndex
  <2> QED
    BY <2>1, <2>2, <2>3 DEF OldKept, NewKept, Source
<1>5. CASE Preserve
  <2>1. /\ pc = "preserve" /\ UNCHANGED <<staged, rollover, snapshot, history>> /\ Continue("roll")
        /\ live'["lancedb"] = live["lancedb"] /\ live'["manifest"] = live["manifest"]
    BY <1>5, PreserveMoves
  <2>2. pc' = "preserve" \/ (pc' = "roll" /\ step' = 1)
    BY <2>1 DEF Continue
  <2>3. UNCHANGED <<kind, target, result, before, incoming>>
    BY <2>1 DEF Continue, history
  <2> QED
    BY <1>o, <2>1, <2>2, <2>3 DEF OldKept, NewKept, Whole, HasTable, HasManifest, Source
<1>6. CASE Roll
  <2>1. /\ pc = "roll" /\ UNCHANGED <<staged, snapshot>>
        /\ live'["lancedb"] = IF step = 1 THEN Absent ELSE live["lancedb"]
        /\ live'["manifest"] = IF step = 2 THEN Absent ELSE live["manifest"]
        /\ rollover'["lancedb"] = IF step = 1 /\ live["lancedb"] # Absent
                                    THEN live["lancedb"] ELSE rollover["lancedb"]
        /\ rollover'["manifest"] = IF step = 2 /\ live["manifest"] # Absent
                                    THEN live["manifest"] ELSE rollover["manifest"]
    BY <1>6, RollMoves
  <2>2. /\ UNCHANGED <<kind, target, result, before, incoming>>
        /\ \/ step = 4 /\ pc' = "install" /\ step' = 1
           \/ step # 4 /\ pc' = "roll" /\ step' = step + 1
    BY <1>6, RollMoves DEF Continue, history
  <2>3. NewKept'
    <3>1. incoming' # 0 => Whole(Source', incoming')
      BY <2>1, <2>2 DEF NewKept, Source
    <3> QED
      BY <2>2, <3>1 DEF NewKept, Whole
  <2>4. OldKept'
    <3> SUFFICES ASSUME Orderly', before' # 0
                 PROVE  OldKept'
      BY DEF OldKept
    <3>1. /\ HasTable(IF step = 1 THEN live ELSE rollover, before)
          /\ HasManifest(IF step <= 2 THEN live ELSE rollover, before)
      BY <1>o, <2>1, <2>2 DEF OldKept
    <3>2. HasTable(rollover', before')
      BY <2>1, <2>2, <3>1 DEF HasTable
    <3>3. step >= 2 => HasManifest(rollover', before')
      BY <1>r, <2>1, <2>2, <3>1, SMT DEF HasManifest
    <3>4. step < 2 => HasManifest(live', before')
      BY <1>r, <2>1, <2>2, <3>1, SMT DEF HasManifest
    <3>5. step \in {1, 2, 3, 4}
      BY <1>r, SMT
    <3> QED
      BY <2>2, <3>2, <3>3, <3>4, <3>5, SMT DEF OldKept, Whole
  <2> QED
    BY <2>3, <2>4
<1>7. CASE RollFails
  <2>1. ~Orderly' /\ pc' = "rollback"
    BY <1>7, <1>o DEF RollFails, Failing, Goto
  <2> QED
    BY <2>1 DEF OldKept, NewKept
<1>8. CASE Install
  <2>1. /\ pc = "install" /\ UNCHANGED rollover
        /\ step = 1 => IF Source["lancedb"] = Absent
                         THEN live'["lancedb"] = live["lancedb"]
                         ELSE /\ live'["lancedb"] # Absent
                              /\ live'["lancedb"][1] = Source["lancedb"][1]
        /\ step # 1 => live'["lancedb"] = live["lancedb"]
        /\ live'["manifest"] = IF step = 2 /\ Source["manifest"] # Absent
                                 THEN Source["manifest"] ELSE live["manifest"]
    BY <1>8, InstallMoves
  <2>2. /\ UNCHANGED <<kind, target, result, before, incoming>>
        /\ \/ step = 4 /\ pc' \in {"drop", "reinstate"} /\ step' = 1
           \/ step # 4 /\ pc' = "install" /\ step' = step + 1
    BY <1>8, InstallMoves DEF Continue, history, AfterInstall
  <2>3. result = "ok"
    BY <1>r, <2>1 DEF Located
  <2>4. OldKept'
    BY <1>o, <2>1, <2>2, <2>3 DEF OldKept, Whole, HasTable, HasManifest
  <2>5. NewKept'
    <3> SUFFICES ASSUME incoming' # 0
                 PROVE  NewKept'
      BY DEF NewKept
    <3>1. /\ HasTable(IF step = 1 THEN Source ELSE live, incoming)
          /\ HasManifest(IF step <= 2 THEN Source ELSE live, incoming)
      BY <2>1, <2>2 DEF NewKept
    <3>2. HasTable(live', incoming')
      BY <2>1, <2>2, <3>1 DEF HasTable
    <3>3. step = 1 => Source'["manifest"] = Source["manifest"]
      <4>1. /\ kind # "publish" => target \in Snapshots /\ Source = snapshot[target]
            /\ kind = "publish" => Source = staged
            /\ step # 2 => staged'["manifest"] = staged["manifest"]
            /\ \A s \in Snapshots : step # 2 => snapshot'[s]["manifest"] = snapshot[s]["manifest"]
        BY <1>8, InstallTakes
      <4> QED
        BY <2>2, <4>1 DEF Source
    <3>4. step < 2 => HasManifest(Source', incoming')
      BY <1>r, <2>2, <3>1, <3>3, SMT DEF HasManifest
    <3>5. step >= 2 => HasManifest(live', incoming')
      BY <1>r, <2>1, <2>2, <3>1, SMT DEF HasManifest
    <3>6. step \in {1, 2, 3, 4}
      BY <1>r, SMT
    <3> QED
      BY <2>2, <3>2, <3>4, <3>5, <3>6, SMT DEF NewKept, Whole
  <2> QED
    BY <2>4, <2>5
<1>9. CASE InstallFails
  <2>1. pc = "install" /\ pc' = "rollback" /\ step' = 1 /\ UNCHANGED <<rollover, before>>
    BY <1>9 DEF InstallFails, Failing, FailsWith, Goto, dirs, history
  <2> QED
    BY <1>o, <2>1 DEF OldKept, NewKept, Whole
<1>10. CASE Rollback
  <2>1. /\ pc = "rollback"
        /\ live'["lancedb"] = IF step = 1 THEN rollover["lancedb"] ELSE live["lancedb"]
        /\ live'["manifest"] = IF step = 2 THEN rollover["manifest"] ELSE live["manifest"]
        /\ rollover'["manifest"] = IF step = 2 THEN Absent ELSE rollover["manifest"]
    BY <1>10, RollbackMoves
  <2>2. /\ UNCHANGED <<kind, target, result, before, incoming>>
        /\ \/ step = 4 /\ pc' \in {"drop", "reinstate"} /\ step' = 1
           \/ step # 4 /\ pc' = "rollback" /\ step' = step + 1
    BY <1>10, RollbackMoves DEF Continue, history, AfterInstall
  <2>3. result = "failed"
    BY <1>r, <2>1 DEF Located
  <2>4. NewKept'
    BY <2>2, <2>3 DEF NewKept
  <2>5. OldKept'
    <3> SUFFICES ASSUME Orderly', before' # 0
                 PROVE  OldKept'
      BY DEF OldKept
    <3>1. /\ HasTable(IF step = 1 THEN rollover ELSE live, before)
          /\ HasManifest(IF step <= 2 THEN rollover ELSE live, before)
      BY <1>o, <2>1, <2>2 DEF OldKept
    <3>2. HasTable(live', before')
      BY <2>1, <2>2, <3>1 DEF HasTable
    <3>3. step < 2 => HasManifest(rollover', before')
      BY <1>r, <2>1, <2>2, <3>1, SMT DEF HasManifest
    <3>4. step >= 2 => HasManifest(live', before')
      BY <1>r, <2>1, <2>2, <3>1, SMT DEF HasManifest
    <3>5. step \in {1, 2, 3, 4}
      BY <1>r, SMT
    <3> QED
      BY <2>2, <3>2, <3>3, <3>4, <3>5, SMT DEF OldKept, Whole
  <2> QED
    BY <2>4, <2>5
<1>11. CASE RollbackFails \/ ClearFails
  <2>1. ~Orderly' /\ pc' = "drop" /\ result' = "failed"
    BY <1>11, <1>o DEF RollbackFails, ClearFails, Failing, Goto
  <2> QED
    BY <2>1 DEF OldKept, NewKept
<1>12. CASE Reinstate
  <2>1. /\ pc = "reinstate" /\ live'["lancedb"] = live["lancedb"] /\ live'["manifest"] = live["manifest"]
    BY <1>12, ReinstateMoves
  <2>2. pc' \in {"reinstate", "tidy", "drop"} /\ UNCHANGED <<result, before, incoming>>
    BY <1>12, ReinstateMoves DEF Continue, history
  <2> QED
    BY <1>o, <2>1, <2>2 DEF OldKept, NewKept, Whole, HasTable, HasManifest
<1>13. CASE ReinstateFails \/ DropRollover
  <2>1. /\ pc \in {"reinstate", "drop"} /\ pc' \in {"reinstate", "tidy", "drop"}
        /\ UNCHANGED <<live, result, before, incoming>>
    BY <1>13 DEF ReinstateFails, DropRollover, Failing, FailsWith, Continue, Goto, dirs, history
  <2> QED
    BY <1>o, <2>1 DEF OldKept, NewKept, Whole, HasTable, HasManifest
<1>14. CASE \E e \in Edits : BeginEdit(e)
  BY <1>14, <1>o, OldNewStay DEF BeginEdit, dirs, backups, job, history
<1>15. CASE \E e \in Edits : PersistEdit(e)
  <2>1. PICK e \in Edits : PersistEdit(e)
    BY <1>15
  <2>2. live'["lancedb"] = live["lancedb"] /\ live'["manifest"] = live["manifest"]
    BY <1>r, <2>1, Order DEF PersistEdit, Dirs, IsDir
  <2> QED
    BY <1>o, <2>1, <2>2, OldNewStay DEF PersistEdit, backups, job
<1>16. CASE LoadOverrides \/ EditFails
  BY <1>16, <1>o, OldNewStay DEF LoadOverrides, EditFails, dirs, backups, job, history
<1>17. CASE Restart \/ \E a \in strandedAsides : Repair(a)
  <2>1. pc' \in Quiet
    BY <1>17, <1>r DEF Restart, Repair, Located, job, Quiet
  <2> QED
    BY <1>q, <2>1
<1>18. CASE UNCHANGED vars
  BY <1>18, <1>o, OldNewStay DEF vars, dirs, backups, job, history
<1>19. CASE DropFails
  <2>1. /\ pc = "drop" /\ pc' \in {"reinstate", "idle"} /\ UNCHANGED <<live, before, incoming>>
        /\ result' = Spoilt
    BY <1>19 DEF DropFails, Failing, Goto
  <2>2. /\ result' = "failed" => result = "failed"
        /\ result' \in {"ok", "untidy"} => result \in {"ok", "untidy"}
    BY <2>1 DEF Spoilt
  <2> QED
    BY <1>o, <2>1, <2>2 DEF OldKept, NewKept, Whole, HasTable, HasManifest
<1> QED
  BY <1>1, <1>2, <1>3, <1>4, <1>5, <1>6, <1>7, <1>8, <1>9, <1>10, <1>11, <1>12, <1>13,
     <1>14, <1>15, <1>16, <1>17, <1>18, <1>19 DEF Next, JobStep

\* During a swap, the old index or the new one is there.
LEMMA KeptInSwap ==
    ASSUME RInv, OldKept, NewKept, pc \in Swap
    PROVE  IndexKept
<1> SUFFICES ASSUME Orderly, before # 0, incoming # 0
             PROVE  \E i \in {before, incoming} :
                        /\ \E d \in LiveCopies : HasTable(d, i)
                        /\ \E d \in LiveCopies : HasManifest(d, i)
  BY DEF IndexKept, HasTable, HasManifest
<1>1. live \in LiveCopies /\ rollover \in LiveCopies
  BY DEF LiveCopies
<1>2. CASE pc \in {"preserve", "roll", "install", "rollback"}
  BY <1>1, <1>2 DEF OldKept, Whole
<1>3. CASE pc \in {"reinstate", "drop", "tidy"}
  <2>1. result \in {"ok", "failed", "untidy"}
    BY <1>3 DEF RInv, Located
  <2> QED
    BY <1>1, <1>3, <2>1 DEF OldKept, NewKept, Whole
<1> QED
  BY <1>2, <1>3 DEF Swap

\* Outside a swap no table and no manifest leaves the live copies, but for
\* a rebuild, or the end of a restore whose rollover directory is half removed.
LEMMA CopiesStay ==
    ASSUME RInv, [Next]_vars, pc' \in Quiet, ~StartRebuild, ~DropFails
    PROVE  /\ UNCHANGED <<before, incoming>>
           /\ \A d \in LiveCopies :
                 \/ d["lancedb"] = Absent /\ d["manifest"] = Absent
                 \/ \E c \in LiveCopies' : c["lancedb"] = d["lancedb"] /\ c["manifest"] = d["manifest"]
<1> DEFINE Stay == LiveCopies \subseteq LiveCopies'
<1>r. Located /\ Bare /\ Dirs
  BY DEF RInv
<1>1. CASE UNCHANGED <<dirs, parked>> /\ UNCHANGED <<before, incoming>>
  BY <1>1 DEF LiveCopies, dirs, parked
<1>2. CASE StartBuild \/ StartBackup
  BY <1>1, <1>2 DEF StartBuild, StartBackup, history
<1>3. CASE \E s \in Snapshots : StartRestore(s)
  BY <1>1, <1>3 DEF StartRestore
<1>4. CASE Build \/ BuildAborted
  <2>1. UNCHANGED <<live, aside, rollover, strandedAsides, strandedRollovers, before, incoming>>
    BY <1>4 DEF Build, BuildAborted, parked, history
  <2> QED
    BY <2>1 DEF LiveCopies
<1>5. CASE Link \/ LinkFails \/ Prune
  BY <1>1, <1>5 DEF Link, LinkFails, Prune, history
<1>6. CASE PreserveFails
  <2>1. /\ UNCHANGED <<live, rollover, strandedRollovers, before, incoming>>
        /\ strandedAsides' = strandedAsides \cup ({aside} \ {Empty}) /\ aside' = Empty
    BY <1>6 DEF PreserveFails, history
  <2>2. LiveCopies \subseteq LiveCopies'
    BY <2>1 DEF LiveCopies
  <2> QED
    BY <2>1, <2>2
<1>7. CASE Tidy \/ TidyFails
  <2>1. /\ UNCHANGED <<live, rollover, strandedRollovers, before, incoming>>
        /\ strandedAsides \subseteq strandedAsides'
    BY <1>7 DEF Tidy, TidyFails, history
  <2>2. aside["lancedb"] = Absent /\ aside["manifest"] = Absent
    BY <1>r DEF Bare
  <2>3. LiveCopies \subseteq LiveCopies' \cup {aside}
    BY <2>1 DEF LiveCopies
  <2> QED
    BY <2>1, <2>2, <2>3
<1>8. CASE Crash
  <2>1. /\ UNCHANGED <<live, before, incoming>> /\ aside' = Empty /\ rollover' = Empty
        /\ strandedAsides' = strandedAsides \cup ({aside} \ {Empty})
        /\ strandedRollovers' = strandedRollovers \cup ({rollover} \ {Empty})
    BY <1>8 DEF Crash, history
  <2>2. LiveCopies \subseteq LiveCopies'
    BY <2>1 DEF LiveCopies
  <2> QED
    BY <2>1, <2>2
<1>9. CASE \E e \in Edits : BeginEdit(e)
  BY <1>1, <1>9 DEF BeginEdit, history
<1>10. CASE \E e \in Edits : PersistEdit(e)
  <2>1. PICK e \in Edits : PersistEdit(e)
    BY <1>10
  <2>2. live'["lancedb"] = live["lancedb"] /\ live'["manifest"] = live["manifest"]
    BY <1>r, <2>1, Order DEF PersistEdit, Dirs, IsDir
  <2>3. UNCHANGED <<aside, rollover, strandedAsides, strandedRollovers, before, incoming>>
    BY <2>1 DEF PersistEdit, parked
  <2> QED
    BY <2>2, <2>3 DEF LiveCopies
<1>11. CASE LoadOverrides \/ EditFails
  BY <1>1, <1>11 DEF LoadOverrides, EditFails, history
<1>12. CASE \E a \in strandedAsides : Repair(a)
  <2>1. PICK a \in strandedAsides : Repair(a)
    BY <1>12
  <2>2. live'["lancedb"] = live["lancedb"] /\ live'["manifest"] = live["manifest"]
    BY <2>1, Order, SMT DEF Repair, Sidecars
  <2>3. /\ UNCHANGED <<aside, rollover, strandedRollovers, before, incoming>>
        /\ strandedAsides' = strandedAsides \ {a}
    BY <2>1 DEF Repair
  <2>4. a["lancedb"] = Absent /\ a["manifest"] = Absent
    BY <1>r, <2>1 DEF Bare
  <2>5. \A d \in LiveCopies : d = live \/ d = a \/ d \in LiveCopies'
    BY <2>3 DEF LiveCopies
  <2>6. live' \in LiveCopies'
    BY DEF LiveCopies
  <2> QED
    BY <2>2, <2>3, <2>4, <2>5, <2>6
<1>13. CASE Restart
  <2>1. UNCHANGED <<live, aside, rollover, strandedAsides, strandedRollovers, before, incoming>>
    BY <1>13 DEF Restart, parked, history
  <2> QED
    BY <2>1 DEF LiveCopies
<1>14. CASE UNCHANGED vars
  BY <1>1, <1>14 DEF vars, history
<1>15. CASE PublishBegins \/ ChooseMode \/ RollFails \/ InstallFails \/ RollbackFails \/ ClearFails
            \/ DropRollover
  BY <1>15 DEF PublishBegins, ChooseMode, RollFails, InstallFails, RollbackFails, ClearFails,
               DropRollover, Goto, Quiet
<1>16. CASE Preserve \/ Roll \/ Install \/ Rollback \/ Reinstate \/ ReinstateFails
  <2>1. pc' \in Swap
    BY <1>16 DEF Preserve, Roll, Install, Rollback, Reinstate, ReinstateFails, Failing, FailsWith,
                 AfterInstall, Continue, Swap
  <2> QED
    BY <2>1 DEF Swap, Quiet
<1> QED
  BY <1>2, <1>3, <1>4, <1>5, <1>6, <1>7, <1>8, <1>9, <1>10, <1>11, <1>12, <1>13, <1>14,
     <1>15, <1>16 DEF Next, JobStep

\* Outside a swap the index that was kept stays kept.
KeptOutside == pc \in Quiet => IndexKept

\* A swap that ends leaves one of the two indexes whole.
LEMMA NextKeptOutside ==
    ASSUME RInv, OldKept, NewKept, KeptOutside, [Next]_vars
    PROVE  KeptOutside'
<1> SUFFICES ASSUME pc' \in Quiet, Orderly', before' # 0, incoming' # 0
             PROVE  \E i \in {before', incoming'} :
                        /\ \E d \in LiveCopies' : d["lancedb"] # Absent /\ d["lancedb"][1] = i
                        /\ \E d \in LiveCopies' : d["manifest"] = i
  BY DEF KeptOutside, IndexKept
<1>1. IndexKept
  BY KeptInSwap DEF RInv, Plain, KeptOutside
<1>2. ~StartRebuild /\ Orderly
  BY DisorderStays DEF StartRebuild
<1>d. CASE DropFails
  <2>1. pc = "drop" /\ UNCHANGED <<live, before, incoming>>
    BY <1>d DEF DropFails, Failing
  <2>2. \E i \in {before, incoming} : Whole(live, i)
    BY <1>2, <2>1 DEF OldKept, NewKept, RInv, Located
  <2>3. live' \in LiveCopies'
    BY DEF LiveCopies
  <2> QED
    BY <2>1, <2>2, <2>3 DEF Whole, HasTable, HasManifest
<1> SUFFICES ASSUME ~DropFails
             PROVE  \E i \in {before', incoming'} :
                        /\ \E d \in LiveCopies' : d["lancedb"] # Absent /\ d["lancedb"][1] = i
                        /\ \E d \in LiveCopies' : d["manifest"] = i
  BY <1>d
<1>3. /\ UNCHANGED <<before, incoming>>
      /\ \A d \in LiveCopies :
            \/ d["lancedb"] = Absent /\ d["manifest"] = Absent
            \/ \E c \in LiveCopies' : c["lancedb"] = d["lancedb"] /\ c["manifest"] = d["manifest"]
  BY <1>2, CopiesStay
<1>4. PICK i \in {before, incoming} :
          /\ \E d \in LiveCopies : d["lancedb"] # Absent /\ d["lancedb"][1] = i
          /\ \E d \in LiveCopies : d["manifest"] = i
  BY <1>1, <1>2, <1>3 DEF IndexKept
<1>5. i # Absent
  BY Present DEF RInv, Plain
<1>6. PICK t \in LiveCopies : t["lancedb"] # Absent /\ t["lancedb"][1] = i
  BY <1>4
<1>7. PICK m \in LiveCopies : m["manifest"] = i
  BY <1>4
<1>8. \E d \in LiveCopies' : d["lancedb"] # Absent /\ d["lancedb"][1] = i
  BY <1>3, <1>6
<1>9. \E d \in LiveCopies' : d["manifest"] = i
  BY <1>3, <1>5, <1>7
<1> QED
  BY <1>3, <1>4, <1>8, <1>9

\* The invariant of a swap: where the two indexes are, in it and after it.
KInv == OldKept /\ NewKept /\ KeptOutside

\* At first no index has been replaced.
LEMMA InitKept == Init => KInv
  BY DEF Init, KInv, OldKept, NewKept, KeptOutside, IndexKept

\* The strengthened invariant of the two indexes is inductive.
LEMMA NextKept == RInv /\ KInv /\ [Next]_vars => KInv'
  BY NextOldNew, NextKeptOutside DEF KInv

\* A swap that replaces one whole index by another keeps all of the old or
\* all of the new, whatever fails, short of the move of a live component and
\* of the rollback, and whenever the server crashes.
THEOREM NeitherLost == Spec => []IndexKept
<1>1. Init => KInv
  BY InitKept
<1>2. RInv /\ KInv /\ [Next]_vars => KInv'
  BY NextKept
<1>3. RInv /\ KInv => IndexKept
  BY KeptInSwap DEF KInv, KeptOutside, RInv, Plain
<1> QED
  BY <1>1, <1>2, <1>3, Invariance, PTL DEF Spec

-----------------------------------------------------------------------------
(* What a finished swap leaves behind.                                     *)

\* A swap ends with the removal of the aside directory, or with a removal that
\* fails; a success is spoilt, but no failure is mended.
LEMMA LastStep ==
    ASSUME RInv, [Next]_vars, SwapEnds
    PROVE  /\ UNCHANGED live
           /\ result' = "ok" => result = "ok"
           /\ result' = "failed" => result = "failed"
           /\ result' = "untidy" => result \in {"ok", "untidy"}
<1>0. pc \in {"drop", "tidy"} /\ pc' = "idle" /\ up'
  BY DEF SwapEnds
<1>1. CASE Tidy \/ DropFails \/ TidyFails
  BY <1>1 DEF Tidy, DropFails, TidyFails, Spoilt, Goto
<1>2. CASE UNCHANGED job
  BY <1>0, <1>2 DEF job
<1>3. CASE Crash
  BY <1>0, <1>3 DEF Crash
<1>4. up
  BY <1>0 DEF RInv, Located
<1>5. CASE JobStep /\ ~(Tidy \/ DropFails \/ TidyFails)
  BY <1>0, <1>5
  DEF JobStep, Build, BuildAborted, PublishBegins, Link, LinkFails, Prune, ChooseMode, Preserve,
      PreserveFails, Roll, RollFails, Install, InstallFails, Rollback, RollbackFails, ClearFails,
      Reinstate, ReinstateFails, DropRollover, Goto, Failing
<1>6. CASE StartBuild \/ StartRebuild \/ StartBackup \/ \E s \in Snapshots : StartRestore(s)
  BY <1>0, <1>6 DEF StartBuild, StartRebuild, StartBackup, StartRestore, Start
<1>7. CASE Restart \/ \E a \in strandedAsides : Repair(a)
  BY <1>4, <1>7 DEF Restart, Repair
<1>8. (\E e \in Edits : BeginEdit(e) \/ PersistEdit(e)) => UNCHANGED job
  BY DEF BeginEdit, PersistEdit
<1>9. LoadOverrides \/ EditFails \/ UNCHANGED vars => UNCHANGED job
  BY DEF LoadOverrides, EditFails, vars
<1> QED
  BY <1>1, <1>2, <1>3, <1>5, <1>6, <1>7, <1>8, <1>9 DEF Next

\* A swap that ends in a failure leaves the old index live as a whole, and one
\* where only the removal of what it left over failed the new one, if it was
\* whole: for any failures short of the move of a live component and of the
\* rollback, the removal of either directory among them.
THEOREM RollsBack == Spec => FailedSwapRollsBack
<1>1. RInv /\ KInv /\ [Next]_vars =>
          [SwapEnds /\ Orderly /\ before # 0 =>
              /\ result' = "failed" => IndexOf(live') = before
              /\ result' = "untidy" /\ incoming # 0 => IndexOf(live') = incoming]_vars
  <2> SUFFICES ASSUME RInv, KInv, [Next]_vars, SwapEnds, Orderly, before # 0
               PROVE  /\ result' = "failed" => IndexOf(live') = before
                      /\ result' = "untidy" /\ incoming # 0 => IndexOf(live') = incoming
    OBVIOUS
  <2>1. /\ result = "failed" => Whole(live, before)
        /\ result \in {"ok", "untidy"} /\ incoming # 0 => Whole(live, incoming)
    BY DEF KInv, OldKept, NewKept, SwapEnds
  <2>2. /\ live' = live
        /\ result' = "failed" => result = "failed"
        /\ result' = "untidy" => result \in {"ok", "untidy"}
    BY LastStep
  <2> QED
    BY <2>1, <2>2, WholeIndex
<1>2. Spec => []KInv
  <2>1. RInv /\ KInv /\ [Next]_vars => KInv'
    BY NextKept
  <2> QED
    BY <2>1, InitKept, Invariance, PTL DEF Spec
<1> QED
  BY <1>1, <1>2, Invariance, PTL DEF Spec, FailedSwapRollsBack

\* What a restore was asked for is what comes in, unless it was pruned: then
\* nothing does. A publish is asked for what it has built.
Asked ==
    /\ kind = "restore" /\ pc \in {"link", "prune", "mode"} =>
          \/ snapshot[target]["lancedb"] = Absent /\ snapshot[target]["manifest"] = Absent
          \/ IndexOf(snapshot[target]) = requested
    /\ kind = "restore" /\ pc \in Swap => incoming \in {0, requested}

\* A snapshot with another number is not touched by a backup.
LEMMA LinkSpares ==
    ASSUME RInv, Link \/ LinkFails, kind = "restore"
    PROVE  target \in Snapshots /\ snapshot'[target] = snapshot[target]
<1>1. target \in Snapshots /\ target # jobs /\ jobs \in Snapshots /\ DOMAIN snapshot = Snapshots
  BY SMT DEF RInv, Located, Plain, Backups, Snapshots, Link, LinkFails, Failing, FailsWith
<1> QED
  BY <1>1 DEF Link, LinkFails

\* No step changes what a swap is to deliver.
LEMMA NextAsked ==
    ASSUME RInv, Asked, [Next]_vars
    PROVE  Asked'
<1>r. Located /\ Plain
  BY DEF RInv
<1>s. DOMAIN snapshot = Snapshots
  BY DEF RInv, Backups
<1>1. CASE StartBuild \/ StartRebuild \/ StartBackup
  BY <1>1 DEF StartBuild, StartRebuild, StartBackup, Start, Asked, Swap
<1>2. CASE \E s \in Snapshots : StartRestore(s)
  BY <1>2 DEF StartRestore, Start, Asked, Swap
<1>3. CASE Build \/ BuildAborted \/ PublishBegins
  BY <1>3, <1>r DEF Build, BuildAborted, PublishBegins, Goto, Located, Asked, Swap
<1>4. CASE Link
  <2>1. pc = "link" /\ UNCHANGED <<kind, target, requested>> /\ pc' \in {"link", "prune"}
    BY <1>4 DEF Link, Continue, history
  <2>2. kind = "restore" => snapshot'[target] = snapshot[target]
    BY <1>4, LinkSpares
  <2> QED
    BY <2>1, <2>2 DEF Asked, Swap
<1>5. CASE LinkFails
  <2>1. pc = "link" /\ UNCHANGED <<kind, target, requested>> /\ pc' \in {"mode", "idle"}
    BY <1>5 DEF LinkFails, Failing, FailsWith, Goto, history
  <2>2. kind = "restore" => snapshot'[target] = snapshot[target]
    BY <1>5, LinkSpares
  <2> QED
    BY <2>1, <2>2 DEF Asked, Swap
<1>6. CASE Prune
  <2>1. pc = "prune" /\ UNCHANGED <<kind, target, requested>> /\ pc' \in {"mode", "idle"}
    BY <1>6 DEF Prune, Goto, history
  <2>2. kind = "restore" => target \in Snapshots
    BY <1>r, <2>1 DEF Located
  <2>3. kind = "restore" => snapshot'[target] = snapshot[target] \/ snapshot'[target] = Empty
    BY <1>6, <2>2 DEF Prune
  <2>4. Empty["lancedb"] = Absent /\ Empty["manifest"] = Absent
    BY EmptyDir, Order
  <2> QED
    BY <2>1, <2>3, <2>4 DEF Asked, Swap
<1>7. CASE ChooseMode
  <2>1. /\ pc = "mode" /\ UNCHANGED <<kind, target, requested>> /\ pc' = "preserve"
        /\ incoming' = IndexOf(snapshot[target])
    BY <1>7 DEF ChooseMode
  <2>2. snapshot[target]["lancedb"] = Absent => IndexOf(snapshot[target]) = 0
    BY DEF IndexOf, Complete
  <2> QED
    BY <2>1, <2>2 DEF Asked
<1>8. CASE Preserve \/ Roll \/ Install \/ Rollback \/ Reinstate \/ ReinstateFails
  <2>1. pc \in Swap /\ pc' \in Swap /\ UNCHANGED <<kind, requested, incoming>>
    BY <1>8 DEF Preserve, Roll, Install, Rollback, Reinstate, ReinstateFails, Failing, FailsWith,
                AfterInstall, Continue, history, Swap
  <2> QED
    BY <2>1 DEF Asked, Swap
<1>9. CASE PreserveFails \/ RollFails \/ InstallFails \/ RollbackFails \/ ClearFails
           \/ DropRollover \/ DropFails \/ Tidy \/ TidyFails
  <2>1. pc \in Swap /\ pc' \in Swap \cup {"idle"} /\ UNCHANGED <<kind, requested, incoming>>
    BY <1>9 DEF PreserveFails, RollFails, InstallFails, RollbackFails, ClearFails, DropRollover,
                DropFails, Tidy, TidyFails, Failing, Goto, history, Swap
  <2> QED
    BY <2>1 DEF Asked, Swap
<1>10. CASE \E e \in Edits : BeginEdit(e) \/ PersistEdit(e)
  BY <1>10 DEF BeginEdit, PersistEdit, job, backups, history, Asked
<1>11. CASE LoadOverrides \/ EditFails
  BY <1>11 DEF LoadOverrides, EditFails, job, backups, history, Asked
<1>12. CASE Crash
  BY <1>12 DEF Crash, Asked
<1>13. CASE Restart \/ \E a \in strandedAsides : Repair(a)
  BY <1>13 DEF Restart, Repair, job, backups, history, Asked
<1>14. CASE UNCHANGED vars
  BY <1>14 DEF vars, job, backups, history, Asked
<1> QED
  BY <1>1, <1>2, <1>3, <1>4, <1>5, <1>6, <1>7, <1>8, <1>9, <1>10, <1>11, <1>12, <1>13, <1>14
  DEF Next, JobStep

\* A swap that reports success has made live what it took from its source, and
\* a restore took it from the snapshot it was asked for, if it found it.
Delivery ==
    [][SwapEnds /\ result' = "ok" /\ incoming # 0 =>
          /\ IndexOf(live') = incoming
          /\ kind = "restore" => incoming = requested]_vars

\* Every swap that reports success delivers what it brought, however many
\* backups are kept.
THEOREM Delivers == Spec => Delivery
<1>1. RInv /\ KInv /\ Asked /\ [Next]_vars =>
          [SwapEnds /\ result' = "ok" /\ incoming # 0 =>
              /\ IndexOf(live') = incoming
              /\ kind = "restore" => incoming = requested]_vars
  <2> SUFFICES ASSUME RInv, KInv, Asked, [Next]_vars, SwapEnds, result' = "ok", incoming # 0
               PROVE  /\ IndexOf(live') = incoming
                      /\ kind = "restore" => incoming = requested
    OBVIOUS
  <2>2. live' = live /\ result = "ok"
    BY LastStep
  <2>1. Whole(live, incoming)
    BY <2>2 DEF KInv, NewKept, SwapEnds
  <2>3. kind = "restore" => incoming = requested
    BY DEF Asked, SwapEnds, Swap
  <2> QED
    BY <2>1, <2>2, <2>3, WholeIndex
<1>2. Init => KInv /\ Asked
  BY InitKept DEF Init, Asked, Swap
<1>3. RInv /\ KInv /\ Asked /\ [Next]_vars => (KInv /\ Asked)'
  BY NextKept, NextAsked
<1> QED
  BY <1>1, <1>2, <1>3, Invariance, PTL DEF Spec, Delivery

-----------------------------------------------------------------------------
(* Where no snapshot is pruned, a restore delivers what it was asked for.  *)

\* As many backups are kept as there are jobs, or all.
AllKept == Keep = 0 \/ Keep >= MaxJobs

\* Every snapshot on the shelf was made by a job.
Stocked == Len(shelf) <= jobs

\* Taking a snapshot from the shelf leaves one less.
LEMMA FewerOthers ==
    ASSUME Listed(shelf), NEW s
    PROVE  /\ Len(Others(s)) <= Len(shelf)
           /\ OnShelf(s) => Len(Others(s)) = Len(shelf) - 1
<1>0. Len(shelf) \in Nat /\ DOMAIN shelf = 1 .. Len(shelf)
  BY DEF Listed
<1>1. CASE ~OnShelf(s)
  <2>1. Others(s) = shelf
    BY <1>1 DEF Others
  <2>2. Len(shelf) <= Len(shelf)
    BY <1>0, SMT
  <2> QED
    BY <1>1, <2>1, <2>2
<1>2. CASE OnShelf(s)
  <2> DEFINE k == CHOOSE i \in DOMAIN shelf : shelf[i] = s
             o == [i \in 1 .. Len(shelf) - 1 |-> shelf[IF i < k THEN i ELSE i + 1]]
  <2>1. Others(s) = o
    BY <1>2 DEF Others
  <2>2. Len(shelf) - 1 \in Nat
    BY <1>0, <1>2, SMT DEF OnShelf
  <2> HIDE DEF k
  <2>3. Len(o) = Len(shelf) - 1
    BY <1>0, <2>2, SMT
  <2> QED
    BY <1>0, <2>1, <2>2, <2>3, SMT
<1> QED
  BY <1>1, <1>2

\* A job adds one snapshot at most.
LEMMA NextStocked ==
    ASSUME RInv, Stocked, [Next]_vars
    PROVE  Stocked'
<1>0. /\ Listed(shelf) /\ Len(shelf) \in Nat /\ jobs \in Nat /\ Backups
      /\ DOMAIN shelf = 1 .. Len(shelf)
  BY SMT DEF RInv, Backups, Listed, Plain
<1>1. CASE ~Backs
  <2>1. UNCHANGED shelf
    BY <1>1, FilesStay DEF backups
  <2>2. jobs' \in Nat /\ jobs' >= jobs
    BY <1>1, NoNewBackup
  <2> QED
    BY <1>0, <2>1, <2>2, SMT DEF Stocked
<1>2. CASE StartBackup \/ \E s \in Snapshots : StartRestore(s)
  <2>1. jobs' = jobs + 1 /\ (shelf' = shelf \/ shelf' = <<jobs'>> \o shelf)
    BY <1>2 DEF StartBackup, StartRestore, Start
  <2>2. Len(<<jobs'>> \o shelf) = Len(shelf) + 1
    BY <1>0, SMT DEF Listed
  <2>3. Len(shelf') <= Len(shelf) + 1
    BY <1>0, <2>1, <2>2, SMT
  <2> QED
    BY <1>0, <2>1, <2>3, SMT DEF Stocked
<1>3. CASE Link
  BY <1>3 DEF Link, counts, Stocked
<1>4. CASE LinkFails
  <2>1. shelf' = Others(jobs) /\ UNCHANGED jobs
    BY <1>4 DEF LinkFails, Failing, FailsWith
  <2>2. Len(Others(jobs)) <= Len(shelf)
    BY <1>0, FewerOthers
  <2> QED
    BY <1>0, <2>1, <2>2, SMT DEF Stocked
<1>5. CASE Prune
  <2>1. UNCHANGED jobs /\ (shelf' = shelf \/ (shelf' = SubSeq(shelf, 1, Keep) /\ Len(shelf) > Keep))
    BY <1>5 DEF Prune, counts
  <2>2. Len(shelf) > Keep => Len(SubSeq(shelf, 1, Keep)) = Keep
    BY <1>0, StoreBounds, SMT DEF Listed
  <2>3. shelf' = shelf \/ (Len(shelf') = Keep /\ Len(shelf) > Keep)
    BY <2>1, <2>2
  <2>4. CASE Len(shelf') = Keep /\ Len(shelf) > Keep
    <3> DEFINE n == Len(shelf')
    <3>1. n = Keep
      BY <2>4
    <3> HIDE DEF n
    <3>2. n <= jobs
      BY <1>0, <2>4, <3>1, StoreBounds, SMT DEF Stocked
    <3> QED
      BY <2>1, <3>2 DEF n, Stocked
  <2> QED
    BY <2>1, <2>3, <2>4 DEF Stocked
<1>6. CASE Install
  <2>1. UNCHANGED jobs
    BY <1>6 DEF Install, counts
  <2>2. shelf' = shelf \/ /\ kind # "publish" /\ Source[Component] # Absent
                          /\ shelf' = <<target>> \o Others(target)
    BY <1>6 DEF Install, backups
  <2>3. CASE kind # "publish" /\ Source[Component] # Absent /\ shelf' = <<target>> \o Others(target)
    <3>1. target \in Snapshots /\ Source = snapshot[target]
      BY <1>6, <2>3, InstallTakes
    <3>2. OnShelf(target)
      BY <1>0, <2>3, <3>1, EmptyDir, Stepping DEF Backups, RInv, Plain
    <3>3. Listed(Others(target)) /\ Len(Others(target)) = Len(shelf) - 1
      BY <1>0, <3>1, <3>2, FewerOthers, OthersStay
    <3>4. Len(<<target>> \o Others(target)) = Len(Others(target)) + 1
      BY <3>1, <3>3, SMT DEF Listed
    <3>5. Len(shelf') = Len(shelf)
      <4> DEFINE n == Len(Others(target))
      <4>1. n = Len(shelf) - 1 /\ Len(shelf') = n + 1
        BY <2>3, <3>3, <3>4
      <4> HIDE DEF n
      <4> QED
        BY <1>0, <4>1
    <3> QED
      BY <2>1, <3>5 DEF Stocked
  <2> QED
    BY <2>1, <2>2, <2>3 DEF Stocked
<1> QED
  BY <1>1, <1>2, <1>3, <1>4, <1>5, <1>6 DEF Backs

\* Nothing is pruned: what a restore was asked for comes in.
AskedFor ==
    /\ kind = "restore" /\ pc \in {"link", "prune", "mode"} => IndexOf(snapshot[target]) = requested
    /\ kind = "restore" /\ pc \in Swap => incoming = requested

\* The requested snapshot stays on the shelf until the restore links it.
LEMMA NextAskedFor ==
    ASSUME AllKept, RInv, Stocked, AskedFor, [Next]_vars
    PROVE  AskedFor'
<1>r. Located /\ Plain /\ Backups
  BY DEF RInv
<1>1. CASE StartBuild \/ StartRebuild \/ StartBackup
  BY <1>1 DEF StartBuild, StartRebuild, StartBackup, Start, AskedFor, Swap
<1>2. CASE \E s \in Snapshots : StartRestore(s)
  BY <1>2 DEF StartRestore, Start, AskedFor, Swap
<1>3. CASE Build \/ BuildAborted \/ PublishBegins
  BY <1>3, <1>r DEF Build, BuildAborted, PublishBegins, Goto, Located, AskedFor, Swap
<1>4. CASE Link
  <2>1. pc = "link" /\ UNCHANGED <<kind, target, requested>> /\ pc' \in {"link", "prune"}
    BY <1>4 DEF Link, Continue, history
  <2>2. kind = "restore" => snapshot'[target] = snapshot[target]
    BY <1>4, LinkSpares
  <2>3. kind = "restore" => IndexOf(snapshot'[target]) = requested
    BY <2>1, <2>2 DEF AskedFor
  <2> QED
    BY <2>1, <2>3 DEF AskedFor, Swap
<1>5. CASE LinkFails
  <2>1. pc = "link" /\ UNCHANGED <<kind, target, requested>> /\ pc' \in {"mode", "idle"}
    BY <1>5 DEF LinkFails, Failing, FailsWith, Goto, history
  <2>2. kind = "restore" => snapshot'[target] = snapshot[target]
    BY <1>5, LinkSpares
  <2>3. kind = "restore" => IndexOf(snapshot'[target]) = requested
    BY <2>1, <2>2 DEF AskedFor
  <2> QED
    BY <2>1, <2>3 DEF AskedFor, Swap
<1>6. CASE Prune
  <2>1. pc = "prune" /\ UNCHANGED <<kind, target, requested>> /\ pc' \in {"mode", "idle"}
    BY <1>6 DEF Prune, Goto, history
  <2>2. kind = "restore" => target \in Snapshots
    BY <1>r, <2>1 DEF Located
  <2>3. Len(shelf) \in Nat /\ Len(shelf) <= MaxJobs
    BY <1>r, StoreBounds, SMT DEF Stocked, Plain, Backups, Listed
  <2>4. ~(Keep > 0 /\ Len(shelf) > Keep)
    BY <2>3, StoreBounds, SMT DEF AllKept
  <2>5. shelf' = shelf
    BY <1>6, <2>4 DEF Prune
  <2>6. kind = "restore" => snapshot'[target] = snapshot[target]
    BY <1>6, <1>r, <2>2, <2>5 DEF Prune, Backups, OnShelf
  <2>7. kind = "restore" => IndexOf(snapshot'[target]) = requested
    BY <2>1, <2>6 DEF AskedFor
  <2> QED
    BY <2>1, <2>7 DEF AskedFor, Swap
<1>7. CASE ChooseMode
  BY <1>7 DEF ChooseMode, AskedFor
<1>8. CASE Preserve \/ Roll \/ Install \/ Rollback \/ Reinstate \/ ReinstateFails
  <2>1. pc \in Swap /\ pc' \in Swap /\ UNCHANGED <<kind, requested, incoming>>
    BY <1>8 DEF Preserve, Roll, Install, Rollback, Reinstate, ReinstateFails, Failing, FailsWith,
                AfterInstall, Continue, history, Swap
  <2> QED
    BY <2>1 DEF AskedFor, Swap
<1>9. CASE PreserveFails \/ RollFails \/ InstallFails \/ RollbackFails \/ ClearFails
           \/ DropRollover \/ DropFails \/ Tidy \/ TidyFails
  <2>1. pc \in Swap /\ pc' \in Swap \cup {"idle"} /\ UNCHANGED <<kind, requested, incoming>>
    BY <1>9 DEF PreserveFails, RollFails, InstallFails, RollbackFails, ClearFails, DropRollover,
                DropFails, Tidy, TidyFails, Failing, Goto, history, Swap
  <2> QED
    BY <2>1 DEF AskedFor, Swap
<1>10. CASE \E e \in Edits : BeginEdit(e) \/ PersistEdit(e)
  BY <1>10 DEF BeginEdit, PersistEdit, job, backups, history, AskedFor
<1>11. CASE LoadOverrides \/ EditFails
  BY <1>11 DEF LoadOverrides, EditFails, job, backups, history, AskedFor
<1>12. CASE Crash
  BY <1>12 DEF Crash, AskedFor
<1>13. CASE Restart \/ \E a \in strandedAsides : Repair(a)
  BY <1>13 DEF Restart, Repair, job, backups, history, AskedFor
<1>14. CASE UNCHANGED vars
  BY <1>14 DEF vars, job, backups, history, AskedFor
<1> QED
  BY <1>1, <1>2, <1>3, <1>4, <1>5, <1>6, <1>7, <1>8, <1>9, <1>10, <1>11, <1>12, <1>13, <1>14
  DEF Next, JobStep

\* A publish that reports success has made the build live, and a restore that
\* does has made live the snapshot it was asked for, where none is pruned.
THEOREM RestoreDelivers ==
    ASSUME AllKept
    PROVE  Spec => SwapDelivers
<1> DEFINE wanted == IF kind = "publish" THEN incoming ELSE requested
<1>1. RInv /\ KInv /\ AskedFor /\ [Next]_vars =>
          [SwapEnds /\ result' = "ok" =>
              LET w == IF kind = "publish" THEN incoming ELSE requested
              IN  w # 0 => IndexOf(live') = w]_vars
  <2> SUFFICES ASSUME RInv, KInv, AskedFor, [Next]_vars, SwapEnds, result' = "ok", wanted # 0
               PROVE  IndexOf(live') = wanted
    OBVIOUS
  <2>4. live' = live /\ result = "ok"
    BY LastStep
  <2>1. pc \in {"drop", "tidy"} /\ kind \in {"publish", "restore"}
    BY DEF SwapEnds, RInv, Located, Swap
  <2>2. wanted = incoming
    BY <2>1 DEF AskedFor, Swap
  <2>3. Whole(live, incoming)
    BY <2>1, <2>2, <2>4 DEF KInv, NewKept
  <2> QED
    BY <2>2, <2>3, <2>4, WholeIndex
<1>2. Init => KInv /\ Stocked /\ AskedFor
  BY InitKept, SMT DEF Init, Stocked, AskedFor, Swap
<1>3. RInv /\ KInv /\ Stocked /\ AskedFor /\ [Next]_vars => (KInv /\ Stocked /\ AskedFor)'
  BY NextKept, NextStocked, NextAskedFor
<1> QED
  BY <1>1, <1>2, <1>3, Invariance, PTL DEF Spec, SwapDelivers

-----------------------------------------------------------------------------
(* Manual edits, where none overlaps a job.                                *)

\* An edit is under way only while there is no job, and it has read what is
\* live.
EditorAlone ==
    /\ editor # "none" => up /\ pc = "idle"
    /\ editor = "loaded" => loaded = EditsIn(live)

\* No job starts while an edit is under way.
LEMMA NextEditorAlone ==
    ASSUME ~Overlap, RInv, EditorAlone, [Next]_vars
    PROVE  EditorAlone'
<1>r. Located
  BY DEF RInv
<1>1. CASE StartBuild \/ StartRebuild \/ StartBackup \/ \E s \in Snapshots : StartRestore(s)
  BY <1>1 DEF StartBuild, StartRebuild, StartBackup, StartRestore, Start, edit, EditorAlone
<1>2. CASE JobStep
  <2>1. pc # "idle"
    BY <1>2 DEF JobStep, Build, BuildAborted, PublishBegins, Link, LinkFails, Prune, ChooseMode,
       Preserve, PreserveFails, Roll, RollFails, Install, InstallFails, Rollback, RollbackFails,
       ClearFails, Reinstate, ReinstateFails, DropRollover, DropFails, Tidy, TidyFails, Failing
  <2>2. UNCHANGED edit
    BY <1>2 DEF JobStep, Build, BuildAborted, PublishBegins, Link, LinkFails, Prune, ChooseMode,
       Preserve, PreserveFails, Roll, RollFails, Install, InstallFails, Rollback, RollbackFails,
       ClearFails, Reinstate, ReinstateFails, DropRollover, DropFails, Tidy, TidyFails
  <2> QED
    BY <2>1, <2>2 DEF EditorAlone, edit
<1>3. CASE \E e \in Edits : BeginEdit(e)
  BY <1>3 DEF BeginEdit, job, counts, EditorAlone
<1>4. CASE \E e \in Edits : PersistEdit(e)
  BY <1>4 DEF PersistEdit, EditorAlone
<1>5. CASE LoadOverrides \/ EditFails
  BY <1>5 DEF LoadOverrides, EditFails, dirs, job, counts, EditorAlone, EditsIn
<1>6. CASE Crash
  BY <1>6 DEF Crash, EditorAlone
<1>7. CASE Restart \/ \E a \in strandedAsides : Repair(a)
  BY <1>7 DEF Restart, Repair, edit, EditorAlone
<1>8. CASE UNCHANGED vars
  BY <1>8 DEF vars, dirs, job, counts, edit, EditorAlone, EditsIn
<1> QED
  BY <1>1, <1>2, <1>3, <1>4, <1>5, <1>6, <1>7, <1>8 DEF Next

\* Where the overrides of the live database are while a swap moves them: an
\* overrides file is parked only while there is no other, and one is rolled
\* over only if another comes in for it, the copy that the build has or the one
\* that the snapshot has.
Overrides(d) == d["overrides"]
FromSource ==
    /\ Overrides(aside) # Absent => Overrides(Source) = Absent
    /\ kind = "restore" => (replaces <=> Overrides(Source) # Absent)
NoneOver == kind = "restore" /\ ~replaces => Overrides(rollover) = Absent
Sidecar ==
    Orderly =>
        /\ Overrides(aside) # Absent => Overrides(live) = Absent /\ Overrides(rollover) = Absent
        /\ pc \in Quiet => Overrides(aside) = Absent /\ Overrides(rollover) = Absent
        /\ pc = "publish_gate" => Overrides(staged) = Overrides(live)
        /\ pc = "preserve" =>
              /\ FromSource /\ Overrides(rollover) = Absent
              /\ kind = "publish" => Overrides(staged) = Overrides(live)
              /\ step = 4 /\ Overrides(Source) = Absent => Overrides(live) = Absent
        /\ pc = "roll" =>
              /\ FromSource /\ NoneOver
              /\ Overrides(Source) = Absent => Overrides(live) = Absent
              /\ step <= 3 => Overrides(rollover) = Absent
              /\ step <= 3 /\ kind = "publish" => Overrides(staged) = Overrides(live)
              /\ step = 4 => Overrides(live) = Absent
              /\ step = 4 /\ kind = "publish" => Overrides(staged) = Overrides(rollover)
        /\ pc = "install" =>
              /\ NoneOver
              /\ step <= 3 => FromSource /\ Overrides(live) = Absent
              /\ step <= 3 /\ kind = "publish" => Overrides(staged) = Overrides(rollover)
              /\ step = 4 /\ kind = "publish" => Overrides(live) = Overrides(rollover)
        /\ pc = "rollback" => NoneOver /\ (step = 4 => Overrides(rollover) = Absent)
        /\ pc \in {"reinstate", "drop"} =>
              /\ NoneOver
              /\ kind = "restore" /\ result = "failed" => Overrides(rollover) = Absent
        /\ pc = "reinstate" /\ kind = "publish" => Overrides(rollover) = Absent
        /\ pc = "drop" /\ kind = "publish" => Overrides(rollover) \in {Absent, Overrides(live)}
        /\ pc = "tidy" => Overrides(rollover) = Absent

\* Nothing is parked or rolled over at first.
LEMMA InitSidecar == Init => EditorAlone /\ Sidecar
<1>1. Empty["overrides"] = Absent
  BY EmptyDir, Order
<1> QED
  BY <1>1 DEF Init, EditorAlone, Sidecar, Overrides

\* No step of a swap loses track of the overrides.
LEMMA NextSidecar ==
    ASSUME ~Overlap, RInv, EditorAlone, Sidecar, [Next]_vars
    PROVE  Sidecar'
<1> SUFFICES ASSUME Orderly' PROVE Sidecar'
  BY DEF Sidecar
<1>r. /\ Dirs /\ Backups /\ Plain /\ Located /\ step \in {1, 2, 3, 4}
      /\ IsDir(live) /\ IsDir(aside) /\ IsDir(rollover) /\ IsDir(staged)
  BY SMT DEF RInv, Plain, Dirs
<1>o. Orderly /\ \A fault : FailsWith(fault) => fault \notin {"roll", "clear", "rollback"}
  BY DisorderStays
<1>e. Overrides(Empty) = Absent
  BY EmptyDir, Order DEF Overrides
\* Outside a swap nothing is parked.
<1>q. ASSUME pc' \in Quiet \ {"publish_gate"}, Overrides(aside') = Absent, Overrides(rollover') = Absent
      PROVE  Sidecar'
  BY <1>q DEF Sidecar, Quiet, Overrides
<1>1. CASE StartBuild \/ StartBackup
  BY <1>1, <1>o, <1>q DEF StartBuild, StartBackup, Start, dirs, Sidecar, Quiet
<1>2. CASE StartRebuild
  BY <1>2, <1>o, <1>q DEF StartRebuild, Start, Sidecar, Quiet
<1>3. CASE \E s \in Snapshots : StartRestore(s)
  BY <1>3, <1>o, <1>q DEF StartRestore, Start, dirs, Sidecar, Quiet
<1>4. CASE Build
  <2>1. Overrides(staged') = Overrides(live')
    BY <1>4, EmptyDir, Order, SMT DEF Build, IsDir, Overrides
  <2>2. pc = "build" /\ pc' = "publish_gate" /\ UNCHANGED <<aside, rollover>>
    BY <1>4 DEF Build, Goto
  <2> QED
    BY <1>o, <2>1, <2>2 DEF Sidecar, Quiet, Overrides
<1>5. CASE BuildAborted
  BY <1>5, <1>o, <1>q DEF BuildAborted, Goto, Sidecar, Quiet
<1>6. CASE PublishBegins
  <2>1. /\ pc = "publish_gate" /\ pc' = "preserve" /\ step' = 1 /\ UNCHANGED dirs
        /\ kind = "publish" /\ kind' = "publish"
    BY <1>6, <1>r DEF PublishBegins, Goto, Located
  <2> QED
    BY <1>o, <2>1 DEF Sidecar, Quiet, Overrides, FromSource, dirs
<1>7. CASE Link \/ LinkFails \/ Prune
  <2>1. pc \in Quiet /\ pc' \in Quiet \ {"publish_gate"} /\ UNCHANGED dirs
    BY <1>7 DEF Link, LinkFails, Prune, Failing, FailsWith, Continue, Goto, Quiet
  <2> QED
    BY <1>o, <1>q, <2>1 DEF Sidecar, dirs
<1>8. CASE ChooseMode
  <2>1. /\ pc = "mode" /\ pc' = "preserve" /\ step' = 1 /\ UNCHANGED <<dirs, snapshot, kind, target>>
        /\ kind = "restore" /\ kind' = "restore" /\ replaces' = (snapshot[target]["overrides"] # Absent)
    BY <1>8, <1>r DEF ChooseMode, backups, Located
  <2>2. FromSource'
    BY <1>o, <2>1 DEF Sidecar, Quiet, FromSource, Source, Overrides, dirs
  <2>3. /\ UNCHANGED <<aside, rollover>>
        /\ aside["overrides"] = Absent /\ rollover["overrides"] = Absent
    BY <1>o, <2>1 DEF Sidecar, Quiet, Overrides, dirs
  <2> QED
    BY <2>1, <2>2, <2>3 DEF Sidecar, Quiet, Overrides
<1>9. CASE Preserve
  <2>1. /\ pc = "preserve" /\ UNCHANGED <<staged, rollover, snapshot, kind, target, replaces, result>>
        /\ \/ step = 4 /\ pc' = "roll" /\ step' = 1
           \/ step # 4 /\ pc' = "preserve" /\ step' = step + 1
    BY <1>9, PreserveMoves DEF Continue, history
  <2>2. \/ /\ step = 3 /\ Overrides(Source) = Absent /\ Overrides(live) # Absent
           /\ Overrides(live') = Absent /\ Overrides(aside') = Overrides(live)
        \/ /\ step = 3 => Overrides(Source) # Absent \/ Overrides(live) = Absent
           /\ Overrides(live') = Overrides(live) /\ Overrides(aside') = Overrides(aside)
    BY <1>9, PreserveMoves DEF Overrides
  <2>3. Source' = Source
    BY <2>1 DEF Source
  <2>4. /\ Overrides(rollover') = Absent
        /\ Overrides(aside) # Absent => Overrides(live) = Absent
        /\ FromSource
        /\ kind = "publish" => Overrides(staged) = Overrides(live) /\ Source = staged
        /\ step = 4 /\ Overrides(Source) = Absent => Overrides(live) = Absent
    BY <1>o, <2>1 DEF Sidecar, Source, Overrides
  <2>5. FromSource'
    BY <2>1, <2>2, <2>3, <2>4 DEF FromSource, Overrides
  <2>6. Overrides(aside') # Absent => Overrides(live') = Absent
    BY <2>2, <2>4
  <2>7. kind = "publish" => Overrides(staged') = Overrides(live')
    BY <2>1, <2>2, <2>4
  <2>8. step \in {3, 4} /\ Overrides(Source') = Absent => Overrides(live') = Absent
    BY <2>2, <2>3, <2>4
  <2>9. CASE step = 4
    BY <2>1, <2>4, <2>5, <2>6, <2>7, <2>8, <2>9 DEF Sidecar, NoneOver, Quiet, Overrides
  <2>10. CASE step # 4
    <3>1. step' = 4 => step = 3
      BY <1>r, <2>1
    <3> QED
      BY <2>1, <2>4, <2>5, <2>6, <2>7, <2>8, <2>10, <3>1 DEF Sidecar, Quiet, Overrides
  <2> QED
    BY <2>9, <2>10
<1>10. CASE PreserveFails
  <2>1. pc = "preserve" /\ pc' = "idle" /\ aside' = Empty /\ UNCHANGED rollover
    BY <1>10 DEF PreserveFails, Failing, FailsWith, Goto
  <2> QED
    BY <1>e, <1>o, <1>q, <2>1 DEF Sidecar, Quiet, Overrides
<1>11. CASE Roll
  <2>1. /\ pc = "roll" /\ UNCHANGED <<staged, aside, snapshot, kind, target, replaces, result>>
        /\ \/ step = 4 /\ pc' = "install" /\ step' = 1
           \/ step # 4 /\ pc' = "roll" /\ step' = step + 1
    BY <1>11, RollMoves DEF Continue, history
  <2>2. /\ Overrides(live') = IF step = 3 THEN Absent ELSE Overrides(live)
        /\ Overrides(rollover') = IF step = 3 /\ Overrides(live) # Absent
                                     THEN Overrides(live) ELSE Overrides(rollover)
    BY <1>11, RollMoves DEF Overrides
  <2>3. Source' = Source /\ (kind = "publish" => Source = staged)
    BY <2>1 DEF Source
  <2>4. /\ Overrides(aside) # Absent => Overrides(live) = Absent /\ Overrides(rollover) = Absent
        /\ FromSource /\ NoneOver
        /\ Overrides(Source) = Absent => Overrides(live) = Absent
        /\ step <= 3 => Overrides(rollover) = Absent
        /\ step <= 3 /\ kind = "publish" => Overrides(staged) = Overrides(live)
        /\ step = 4 => Overrides(live) = Absent
        /\ step = 4 /\ kind = "publish" => Overrides(staged) = Overrides(rollover)
    BY <1>o, <2>1 DEF Sidecar
  <2>5. FromSource'
    BY <2>1, <2>3, <2>4 DEF FromSource, Overrides
  <2>6. /\ Overrides(aside') # Absent => Overrides(live') = Absent /\ Overrides(rollover') = Absent
        /\ Overrides(Source') = Absent => Overrides(live') = Absent
    BY <2>1, <2>2, <2>3, <2>4
  <2>7. NoneOver'
    BY <2>1, <2>2, <2>4 DEF FromSource, NoneOver, Overrides
  <2>8. CASE step = 4
    BY <2>1, <2>2, <2>4, <2>5, <2>6, <2>7, <2>8 DEF Sidecar, Quiet, Overrides
  <2>9. CASE step = 3
    BY <2>1, <2>2, <2>4, <2>5, <2>6, <2>7, <2>9 DEF Sidecar, Quiet, Overrides
  <2>10. CASE step \in {1, 2}
    BY <2>1, <2>2, <2>4, <2>5, <2>6, <2>7, <2>10 DEF Sidecar, Quiet, Overrides
  <2> QED
    BY <1>r, <2>8, <2>9, <2>10
<1>12. CASE RollFails \/ RollbackFails \/ ClearFails
  BY <1>12, <1>o DEF RollFails, RollbackFails, ClearFails, Failing
<1>13. CASE Install
  <2>1. /\ pc = "install" /\ UNCHANGED <<aside, rollover, kind, target, replaces, result>>
        /\ \/ step = 4 /\ step' = 1 /\ pc' = AfterInstall
           \/ step # 4 /\ step' = step + 1 /\ pc' = "install"
    BY <1>13, InstallMoves DEF Continue, history
  <2>2. Overrides(live') = IF step = 3 /\ Overrides(Source) # Absent
                             THEN Overrides(Source) ELSE Overrides(live)
    BY <1>13, InstallMoves DEF Overrides
  <2>3. /\ kind # "publish" => target \in Snapshots /\ Source = snapshot[target]
        /\ kind = "publish" => Source = staged
        /\ step # 3 => Overrides(staged') = Overrides(staged)
        /\ \A s \in Snapshots : step # 3 => Overrides(snapshot'[s]) = Overrides(snapshot[s])
    BY <1>13, InstallTakes DEF Overrides
  <2>4. step # 3 => Overrides(Source') = Overrides(Source)
    BY <2>1, <2>3 DEF Source
  <2>5. /\ Overrides(aside) # Absent => Overrides(live) = Absent /\ Overrides(rollover) = Absent
        /\ NoneOver
        /\ step <= 3 => FromSource /\ Overrides(live) = Absent
        /\ step <= 3 /\ kind = "publish" => Overrides(staged) = Overrides(rollover)
        /\ step = 4 /\ kind = "publish" => Overrides(live) = Overrides(rollover)
    BY <1>o, <2>1 DEF Sidecar
  <2>6. result = "ok"
    BY <1>r, <2>1 DEF Located
  <2>7. NoneOver'
    BY <2>1, <2>5 DEF NoneOver, Overrides
  <2>8. Overrides(aside') # Absent => Overrides(live') = Absent /\ Overrides(rollover') = Absent
    <3>1. CASE step = 3
      BY <2>1, <2>2, <2>5, <3>1 DEF FromSource
    <3> QED
      BY <2>1, <2>2, <2>5, <3>1
  <2>9. CASE step = 4
    <3>1. /\ pc' \in {"drop", "reinstate"}
          /\ pc' = "reinstate" => kind = "restore" /\ kind' # "publish"
          /\ kind' = "publish" => Overrides(rollover') = Overrides(live')
      BY <1>r, <2>1, <2>2, <2>5, <2>9 DEF AfterInstall, Located, Swap
    <3> QED
      BY <2>1, <2>6, <2>7, <2>8, <3>1 DEF Sidecar, Quiet, Overrides
  <2>10. CASE step = 3
    <3>1. kind = "publish" => Overrides(live') = Overrides(rollover')
      BY <2>1, <2>2, <2>3, <2>5, <2>10
    <3> QED
      BY <2>1, <2>7, <2>8, <2>10, <3>1 DEF Sidecar, Quiet, Overrides
  <2>11. CASE step \in {1, 2}
    <3>1. FromSource'
      BY <2>1, <2>4, <2>5, <2>11 DEF FromSource, Overrides
    <3>2. Overrides(live') = Absent /\ (kind = "publish" => Overrides(staged') = Overrides(rollover'))
      BY <2>1, <2>2, <2>3, <2>5, <2>11
    <3> QED
      BY <2>1, <2>7, <2>8, <2>11, <3>1, <3>2 DEF Sidecar, Quiet, Overrides
  <2> QED
    BY <1>r, <2>9, <2>10, <2>11
<1>14. CASE InstallFails
  <2>1. /\ pc = "install" /\ pc' = "rollback" /\ step' = 1
        /\ UNCHANGED <<live, aside, rollover, kind, replaces>>
    BY <1>14 DEF InstallFails, Failing, FailsWith, Goto, dirs, history
  <2> QED
    BY <1>o, <2>1 DEF Sidecar, NoneOver, Quiet, Overrides
<1>15. CASE Rollback
  <2>1. /\ pc = "rollback" /\ UNCHANGED <<aside, kind, target, replaces, result>>
        /\ \/ step = 4 /\ step' = 1 /\ pc' = AfterInstall
           \/ step # 4 /\ step' = step + 1 /\ pc' = "rollback"
    BY <1>15, RollbackMoves DEF Continue, history
  <2>2. /\ Overrides(live') = IF step = 3 THEN Overrides(rollover) ELSE Overrides(live)
        /\ Overrides(rollover') = IF step = 3 THEN Absent ELSE Overrides(rollover)
    BY <1>15, RollbackMoves DEF Overrides
  <2>3. /\ Overrides(aside) # Absent => Overrides(live) = Absent /\ Overrides(rollover) = Absent
        /\ NoneOver
        /\ step = 4 => Overrides(rollover) = Absent
    BY <1>o, <2>1 DEF Sidecar
  <2>4. NoneOver'
    BY <2>1, <2>2, <2>3 DEF NoneOver, Overrides
  <2>5. Overrides(aside') # Absent => Overrides(live') = Absent /\ Overrides(rollover') = Absent
    BY <2>1, <2>2, <2>3
  <2>6. CASE step = 4
    <3>1. pc' \in {"drop", "reinstate"} /\ Overrides(rollover') = Absent
      BY <2>1, <2>2, <2>3, <2>6 DEF AfterInstall
    <3> QED
      BY <2>4, <2>5, <3>1 DEF Sidecar, Quiet, Overrides
  <2>7. CASE step # 4
    <3>1. step' = 4 => Overrides(rollover') = Absent
      BY <1>r, <2>1, <2>2, <2>7
    <3> QED
      BY <2>1, <2>4, <2>5, <2>7, <3>1 DEF Sidecar, Quiet, Overrides
  <2> QED
    BY <2>6, <2>7
<1>16. CASE Reinstate
  <2>1. /\ pc = "reinstate" /\ UNCHANGED <<rollover, kind, target, replaces, result>>
        /\ \/ step = 4 /\ pc' = IF kind = "publish" THEN "tidy" ELSE "drop"
           \/ step # 4 /\ pc' = "reinstate"
    BY <1>16, ReinstateMoves DEF Continue, history
  <2>2. \/ /\ Overrides(aside) # Absent /\ Overrides(live) = Absent
           /\ Overrides(live') = Overrides(aside) /\ Overrides(aside') = Absent
        \/ Overrides(live') = Overrides(live) /\ Overrides(aside') = Overrides(aside)
    BY <1>16, ReinstateMoves DEF Overrides
  <2>3. /\ Overrides(aside) # Absent => Overrides(live) = Absent /\ Overrides(rollover) = Absent
        /\ NoneOver
        /\ kind = "restore" /\ result = "failed" => Overrides(rollover) = Absent
        /\ kind = "publish" => Overrides(rollover) = Absent
    BY <1>o, <2>1 DEF Sidecar
  <2>4. NoneOver'
    BY <2>1, <2>3 DEF NoneOver, Overrides
  <2>5. Overrides(aside') # Absent => Overrides(live') = Absent /\ Overrides(rollover') = Absent
    BY <2>1, <2>2, <2>3
  <2> QED
    BY <2>1, <2>3, <2>4, <2>5 DEF Sidecar, Quiet, Overrides
<1>17. CASE ReinstateFails
  <2>1. /\ pc = "reinstate" /\ UNCHANGED <<live, aside, rollover, kind, target, replaces, result>>
        /\ \/ step = 4 /\ pc' = IF kind = "publish" THEN "tidy" ELSE "drop"
           \/ step # 4 /\ pc' = "reinstate"
    BY <1>17 DEF ReinstateFails, Failing, FailsWith, Continue, dirs, history
  <2> QED
    BY <1>o, <2>1 DEF Sidecar, NoneOver, Quiet, Overrides
<1>18. CASE DropRollover
  <2>1. /\ pc = "drop" /\ rollover' = Empty /\ pc' = IF kind = "publish" THEN "reinstate" ELSE "tidy"
        /\ UNCHANGED <<live, aside, kind, replaces, result>>
    BY <1>18 DEF DropRollover, Goto
  <2>2. Overrides(rollover') = Absent
    BY <1>e, <2>1
  <2> QED
    BY <1>o, <2>1, <2>2 DEF Sidecar, NoneOver, Quiet, Overrides
<1>19. CASE Tidy
  <2>1. pc = "tidy" /\ pc' = "idle" /\ aside' = Empty /\ UNCHANGED rollover
    BY <1>19 DEF Tidy, Goto
  <2> QED
    BY <1>e, <1>o, <1>q, <2>1 DEF Sidecar, Quiet, Overrides
<1>20. CASE \E e \in Edits : BeginEdit(e) \/ PersistEdit(e)
  <2>1. pc = "idle" /\ pc' = "idle" /\ UNCHANGED <<aside, rollover>>
    BY <1>20 DEF BeginEdit, PersistEdit, EditorAlone, dirs, job
  <2> QED
    BY <1>o, <1>q, <2>1 DEF Sidecar, Quiet
<1>21. CASE LoadOverrides \/ EditFails
  <2>1. pc = "idle" /\ pc' = "idle" /\ UNCHANGED <<aside, rollover>>
    BY <1>21 DEF LoadOverrides, EditFails, EditorAlone, dirs, job
  <2> QED
    BY <1>o, <1>q, <2>1 DEF Sidecar, Quiet
<1>22. CASE Crash
  BY <1>22, <1>e, <1>q DEF Crash, Quiet
<1>23. CASE Restart \/ \E a \in strandedAsides : Repair(a)
  <2>1. pc = "idle" /\ pc' = "idle" /\ UNCHANGED <<aside, rollover>>
    BY <1>23, <1>r DEF Restart, Repair, Located, job
  <2> QED
    BY <1>o, <1>q, <2>1 DEF Sidecar, Quiet
<1>24. CASE UNCHANGED vars
  BY <1>24, <1>o DEF vars, dirs, backups, job, history, Sidecar, FromSource, NoneOver, Overrides, Source
<1>25. CASE DropFails
  <2>1. /\ pc = "drop" /\ rollover' = Empty /\ UNCHANGED <<live, kind>>
        /\ \/ pc' = "idle" /\ aside' = Empty
           \/ pc' = "reinstate" /\ kind = "publish" /\ UNCHANGED aside
    BY <1>25 DEF DropFails, Failing, Goto
  <2>2. Overrides(rollover') = Absent
    BY <1>e, <2>1
  <2>3. Overrides(aside') # Absent => Overrides(live') = Absent
    BY <1>e, <1>o, <2>1 DEF Sidecar
  <2> QED
    BY <2>1, <2>2, <2>3 DEF Sidecar, NoneOver, Quiet, Overrides
<1>26. CASE TidyFails
  <2>1. pc = "tidy" /\ pc' = "idle" /\ aside' = Empty /\ UNCHANGED rollover
    BY <1>26 DEF TidyFails, Failing, Goto
  <2> QED
    BY <1>e, <1>o, <1>q, <2>1 DEF Sidecar, Quiet, Overrides
<1> QED
  BY <1>1, <1>2, <1>3, <1>4, <1>5, <1>6, <1>7, <1>8, <1>9, <1>10, <1>11, <1>12, <1>13, <1>14,
     <1>15, <1>16, <1>17, <1>18, <1>19, <1>20, <1>21, <1>22, <1>23, <1>24, <1>25, <1>26
  DEF Next, JobStep

\* An edit is kept aside: parked, rolled over, or in a directory that a swap
\* has left behind.
KeptAside(e) ==
    \/ e \in EditsIn(aside) \/ e \in EditsIn(rollover)
    \/ \E d \in strandedAsides \cup strandedRollovers : e \in EditsIn(d)

\* No edit is in the live overrides only when they are about to be replaced.
EditsSomewhere ==
    Orderly =>
        \A e \in kept \ dropped :
            /\ e \in EditsIn(live) \/ KeptAside(e)
            /\ pc = "install" \/ (pc = "rollback" /\ step <= 3) => KeptAside(e)

\* Two directories with the same overrides file have the same edits.
LEMMA SameEdits ==
    ASSUME NEW c, NEW d, Overrides(c) = Overrides(d)
    PROVE  EditsIn(c) = EditsIn(d)
  BY DEF Overrides, EditsIn

\* No overrides file, no edits.
LEMMA NoEdits ==
    ASSUME NEW d, Overrides(d) = Absent
    PROVE  EditsIn(d) = {}
  BY DEF Overrides, EditsIn

\* A step that leaves every overrides file alone, and enters neither the
\* installation nor the rollback.
LEMMA EditsStay ==
    ASSUME EditsSomewhere, Orderly' => Orderly,
           EditsIn(live') = EditsIn(live), EditsIn(aside') = EditsIn(aside),
           EditsIn(rollover') = EditsIn(rollover),
           UNCHANGED <<strandedAsides, strandedRollovers, kept, dropped>>,
           pc' = "install" => pc = "install",
           pc' = "rollback" /\ step' <= 3 => pc = "install" \/ (pc = "rollback" /\ step <= 3)
    PROVE  EditsSomewhere'
<1> SUFFICES ASSUME Orderly', NEW e \in kept' \ dropped'
             PROVE  /\ e \in EditsIn(live)' \/ KeptAside(e)'
                    /\ pc' = "install" \/ (pc' = "rollback" /\ step' <= 3) => KeptAside(e)'
  BY DEF EditsSomewhere
<1>1. e \in kept \ dropped /\ Orderly
  OBVIOUS
<1>2. KeptAside(e) => KeptAside(e)'
  BY DEF KeptAside, EditsIn
<1>3. e \in EditsIn(live) => e \in EditsIn(live)'
  BY DEF EditsIn
<1> QED
  BY <1>1, <1>2, <1>3 DEF EditsSomewhere

\* No step loses an edit.
LEMMA NextEdits ==
    ASSUME ~Overlap, RInv, EditorAlone, Sidecar, EditsSomewhere, [Next]_vars
    PROVE  EditsSomewhere'
<1>r. /\ Dirs /\ Plain /\ Located /\ step \in {1, 2, 3, 4}
      /\ IsDir(live) /\ IsDir(aside) /\ IsDir(rollover) /\ IsDir(staged)
  BY SMT DEF RInv, Plain, Dirs
<1>o. /\ Orderly' => Orderly
      /\ Orderly' => \A fault : FailsWith(fault) => fault \notin {"roll", "clear", "rollback"}
  BY DisorderStays
<1>e. EditsIn(Empty) = {}
  BY EmptyDir, Order DEF EditsIn
<1>1. CASE StartBuild \/ StartBackup
  BY <1>1, <1>o, EditsStay DEF StartBuild, StartBackup, Start, dirs, parked, history, EditsIn
<1>2. CASE StartRebuild
  <2>1. live'["overrides"] = live["overrides"]
    BY <1>2, <1>r, Order DEF StartRebuild, IsDir
  <2> QED
    BY <1>2, <1>o, <2>1, EditsStay DEF StartRebuild, Start, parked, EditsIn
<1>3. CASE \E s \in Snapshots : StartRestore(s)
  BY <1>3, <1>o, EditsStay DEF StartRestore, Start, dirs, parked, EditsIn
<1>4. CASE Build \/ BuildAborted
  BY <1>4, <1>o, EditsStay DEF Build, BuildAborted, Goto, parked, history, EditsIn
<1>5. CASE PublishBegins \/ ChooseMode
  BY <1>5, <1>o, EditsStay DEF PublishBegins, ChooseMode, Goto, dirs, parked, EditsIn
<1>6. CASE Link \/ LinkFails \/ Prune
  <2>1. pc' \in Quiet /\ UNCHANGED <<dirs, parked, history>>
    BY <1>6 DEF Link, LinkFails, Prune, Failing, FailsWith, Continue, Goto, Quiet
  <2> QED
    BY <1>o, <2>1, EditsStay DEF dirs, parked, history, EditsIn, Quiet
<1>7. CASE Preserve
  <2>1. /\ pc = "preserve" /\ pc' \in {"preserve", "roll"}
        /\ UNCHANGED <<rollover, strandedAsides, strandedRollovers, kept, dropped>>
    BY <1>7, PreserveMoves DEF Continue, history
  <2>2. \/ Overrides(live) # Absent /\ Overrides(aside') = Overrides(live)
        \/ Overrides(live') = Overrides(live) /\ Overrides(aside') = Overrides(aside)
    BY <1>7, PreserveMoves DEF Overrides
  <2>3. CASE Overrides(live') = Overrides(live) /\ Overrides(aside') = Overrides(aside)
    <3>1. /\ EditsIn(live') = EditsIn(live) /\ EditsIn(aside') = EditsIn(aside)
          /\ EditsIn(rollover') = EditsIn(rollover)
      BY <2>1, <2>3, SameEdits
    <3> QED
      BY <1>o, <2>1, <3>1, EditsStay
  <2>4. CASE Overrides(live) # Absent /\ Overrides(aside') = Overrides(live)
    <3> SUFFICES ASSUME Orderly', NEW e \in kept' \ dropped'
                 PROVE  KeptAside(e)'
      BY DEF EditsSomewhere
    <3>1. e \in EditsIn(live) \/ KeptAside(e)
      BY <1>o, <2>1 DEF EditsSomewhere
    <3>2. EditsIn(aside) = {} /\ EditsIn(aside') = EditsIn(live)
      BY <1>o, <2>4, NoEdits, SameEdits DEF Sidecar
    <3> QED
      BY <2>1, <3>1, <3>2 DEF KeptAside, EditsIn
  <2> QED
    BY <2>2, <2>3, <2>4
<1>8. CASE PreserveFails
  <2>1. /\ pc' = "idle" /\ UNCHANGED <<live, rollover, strandedRollovers, kept, dropped>>
        /\ aside' = Empty /\ strandedAsides' = strandedAsides \cup ({aside} \ {Empty})
    BY <1>8 DEF PreserveFails, Goto, history
  <2>2. \A e : KeptAside(e) => KeptAside(e)'
    BY <1>e, <2>1 DEF KeptAside, EditsIn
  <2> QED
    BY <1>o, <2>1, <2>2 DEF EditsSomewhere, EditsIn
<1>9. CASE Roll
  <2>1. /\ pc = "roll" /\ pc' \in {"roll", "install"} /\ (pc' = "install" => step = 4)
        /\ UNCHANGED <<aside, strandedAsides, strandedRollovers, kept, dropped>>
    BY <1>9, RollMoves DEF Continue, history
  <2>2. /\ Overrides(live') = IF step = 3 THEN Absent ELSE Overrides(live)
        /\ Overrides(rollover') = IF step = 3 /\ Overrides(live) # Absent
                                     THEN Overrides(live) ELSE Overrides(rollover)
    BY <1>9, RollMoves DEF Overrides
  <2> SUFFICES ASSUME Orderly', NEW e \in kept' \ dropped'
               PROVE  /\ e \in EditsIn(live') \/ KeptAside(e)'
                      /\ step = 4 => KeptAside(e)'
    BY <2>1 DEF EditsSomewhere, EditsIn
  <2>3. e \in EditsIn(live) \/ KeptAside(e)
    BY <1>o, <2>1 DEF EditsSomewhere
  <2>4. /\ step = 3 => EditsIn(rollover) = {}
        /\ step = 4 => EditsIn(live) = {}
    BY <1>o, <2>1, NoEdits DEF Sidecar
  <2>5. CASE step = 3 /\ Overrides(live) # Absent
    <3>1. EditsIn(rollover') = EditsIn(live)
      BY <2>2, <2>5, SameEdits
    <3> QED
      BY <2>1, <2>3, <2>4, <2>5, <3>1 DEF KeptAside, EditsIn
  <2>6. CASE ~(step = 3 /\ Overrides(live) # Absent)
    <3>1. EditsIn(rollover') = EditsIn(rollover) /\ EditsIn(live') = EditsIn(live)
      BY <2>2, <2>6, SameEdits
    <3>2. KeptAside(e) => KeptAside(e)'
      BY <2>1, <3>1 DEF KeptAside, EditsIn
    <3> QED
      BY <2>3, <2>4, <3>1, <3>2
  <2> QED
    BY <2>5, <2>6
<1>10. CASE RollFails \/ RollbackFails \/ ClearFails
  <2>1. ~Orderly'
    BY <1>10, <1>o DEF RollFails, RollbackFails, ClearFails, Failing
  <2> QED
    BY <2>1 DEF EditsSomewhere
<1>11. CASE Install
  <2>1. pc = "install" /\ UNCHANGED <<aside, rollover, strandedAsides, strandedRollovers, kept, dropped>>
    BY <1>11, InstallMoves DEF history
  <2>2. \A e : KeptAside(e) => KeptAside(e)'
    BY <2>1 DEF KeptAside, EditsIn
  <2> QED
    BY <1>o, <2>1, <2>2 DEF EditsSomewhere
<1>12. CASE InstallFails
  <2>1. pc = "install" /\ UNCHANGED <<dirs, parked, history>>
    BY <1>12 DEF InstallFails, Failing, FailsWith
  <2> QED
    BY <1>o, <2>1, EditsStay DEF dirs, parked, history, EditsIn
<1>13. CASE Rollback
  <2>1. /\ pc = "rollback" /\ UNCHANGED <<aside, strandedAsides, strandedRollovers, kept, dropped>>
        /\ pc' # "install"
        /\ pc' = "rollback" /\ step' <= 3 => step \in {1, 2}
    BY <1>13, <1>r, RollbackMoves DEF Continue, history, AfterInstall
  <2>2. /\ Overrides(live') = IF step = 3 THEN Overrides(rollover) ELSE Overrides(live)
        /\ Overrides(rollover') = IF step = 3 THEN Absent ELSE Overrides(rollover)
    BY <1>13, RollbackMoves DEF Overrides
  <2>3. CASE step # 3
    <3>1. /\ EditsIn(live') = EditsIn(live) /\ EditsIn(aside') = EditsIn(aside)
          /\ EditsIn(rollover') = EditsIn(rollover)
      BY <2>1, <2>2, <2>3, SameEdits
    <3> QED
      BY <1>o, <2>1, <3>1, EditsStay
  <2>4. CASE step = 3
    <3> SUFFICES ASSUME Orderly', NEW e \in kept' \ dropped'
                 PROVE  e \in EditsIn(live') \/ KeptAside(e)'
      BY <2>1, <2>4 DEF EditsSomewhere, EditsIn
    <3>1. KeptAside(e)
      BY <1>o, <2>1, <2>4 DEF EditsSomewhere
    <3>2. EditsIn(live') = EditsIn(rollover)
      BY <2>2, <2>4, SameEdits
    <3> QED
      BY <2>1, <3>1, <3>2 DEF KeptAside, EditsIn
  <2> QED
    BY <2>3, <2>4
<1>14. CASE Reinstate
  <2>1. /\ pc = "reinstate" /\ pc' \in {"reinstate", "tidy", "drop"}
        /\ UNCHANGED <<rollover, strandedAsides, strandedRollovers, kept, dropped>>
    BY <1>14, ReinstateMoves DEF Continue, history
  <2>2. \/ /\ Overrides(live) = Absent /\ Overrides(live') = Overrides(aside)
        \/ Overrides(live') = Overrides(live) /\ Overrides(aside') = Overrides(aside)
    BY <1>14, ReinstateMoves DEF Overrides
  <2>3. CASE Overrides(live') = Overrides(live) /\ Overrides(aside') = Overrides(aside)
    <3>1. /\ EditsIn(live') = EditsIn(live) /\ EditsIn(aside') = EditsIn(aside)
          /\ EditsIn(rollover') = EditsIn(rollover)
      BY <2>1, <2>3, SameEdits
    <3> QED
      BY <1>o, <2>1, <3>1, EditsStay
  <2>4. CASE Overrides(live) = Absent /\ Overrides(live') = Overrides(aside)
    <3> SUFFICES ASSUME Orderly', NEW e \in kept' \ dropped'
                 PROVE  e \in EditsIn(live') \/ KeptAside(e)'
      BY <2>1 DEF EditsSomewhere, EditsIn
    <3>1. e \in EditsIn(live) \/ KeptAside(e)
      BY <1>o, <2>1 DEF EditsSomewhere
    <3>2. EditsIn(live) = {} /\ EditsIn(live') = EditsIn(aside)
      BY <2>4, NoEdits, SameEdits
    <3> QED
      BY <2>1, <3>1, <3>2 DEF KeptAside, EditsIn
  <2> QED
    BY <2>2, <2>3, <2>4
<1>15. CASE ReinstateFails
  <2>1. pc = "reinstate" /\ pc' \in {"reinstate", "tidy", "drop"} /\ UNCHANGED <<dirs, parked, history>>
    BY <1>15 DEF ReinstateFails, Failing, FailsWith, Continue
  <2> QED
    BY <1>o, <2>1, EditsStay DEF dirs, parked, history, EditsIn
<1>16. CASE DropRollover \/ DropFails
  <2>1. /\ pc = "drop" /\ pc' \in {"reinstate", "tidy", "idle"} /\ rollover' = Empty
        /\ UNCHANGED <<live, dropped>> /\ strandedRollovers \subseteq strandedRollovers'
        /\ strandedAsides \subseteq strandedAsides'
        /\ \/ UNCHANGED aside
           \/ strandedAsides' = strandedAsides \cup ({aside} \ {Empty})
        /\ kept' = IF replaces /\ result = "ok" THEN EditsIn(live) ELSE kept
    BY <1>16 DEF DropRollover, DropFails, TakesEffect, Failing, Goto, parked
  <2> SUFFICES ASSUME Orderly', NEW e \in kept' \ dropped'
               PROVE  e \in EditsIn(live) \/ KeptAside(e)'
    BY <2>1 DEF EditsSomewhere, EditsIn
  <2>2. CASE replaces /\ result = "ok"
    BY <2>1, <2>2
  <2>3. CASE ~(replaces /\ result = "ok")
    <3>1. e \in EditsIn(live) \/ KeptAside(e)
      BY <1>o, <2>1, <2>3 DEF EditsSomewhere
    <3>2. Overrides(rollover) \in {Absent, Overrides(live)}
      BY <1>o, <1>r, <2>1, <2>3 DEF Sidecar, NoneOver, Located, Swap
    <3>3. e \in EditsIn(rollover) => e \in EditsIn(live)
      BY <3>2, NoEdits, SameEdits
    <3>4. e \in EditsIn(aside) => KeptAside(e)'
      BY <1>e, <2>1 DEF KeptAside, EditsIn
    <3>5. (\E d \in strandedAsides \cup strandedRollovers : e \in EditsIn(d)) => KeptAside(e)'
      BY <2>1 DEF KeptAside, EditsIn
    <3> QED
      BY <3>1, <3>3, <3>4, <3>5 DEF KeptAside
  <2> QED
    BY <2>2, <2>3
<1>17. CASE Tidy
  <2>1. /\ pc = "tidy" /\ pc' = "idle" /\ aside' = Empty
        /\ UNCHANGED <<live, rollover, strandedRollovers, kept, dropped>>
        /\ strandedAsides' =
              IF Unreturned THEN strandedAsides \cup {aside} ELSE strandedAsides
    BY <1>17 DEF Tidy, Goto, history
  <2> SUFFICES ASSUME Orderly', NEW e \in kept' \ dropped'
               PROVE  e \in EditsIn(live) \/ KeptAside(e)'
    BY <2>1 DEF EditsSomewhere, EditsIn
  <2>2. e \in EditsIn(live) \/ KeptAside(e)
    BY <1>o, <2>1 DEF EditsSomewhere
  <2>3. e \in EditsIn(aside) => aside \in strandedAsides'
    <3>1. e \in EditsIn(aside) => aside["overrides"] # Absent /\ live["overrides"] = Absent
      BY <1>o, NoEdits DEF Sidecar, Overrides
    <3> QED
      BY <2>1, <3>1 DEF Sidecars, Unreturned
  <2>4. strandedAsides \subseteq strandedAsides'
    BY <2>1
  <2> QED
    BY <2>1, <2>2, <2>3, <2>4 DEF KeptAside, EditsIn
<1>18. CASE \E e \in Edits : BeginEdit(e)
  BY <1>18, <1>o, EditsStay DEF BeginEdit, dirs, parked, history, job, EditsIn
<1>19. CASE \E e \in Edits : PersistEdit(e)
  <2>1. PICK a \in Edits : PersistEdit(a)
    BY <1>19
  <2>2. /\ pc = "idle" /\ pc' = "idle" /\ loaded = EditsIn(live) /\ kept' = kept \cup {a}
        /\ UNCHANGED <<aside, rollover, strandedAsides, strandedRollovers, dropped>>
        /\ live' = [live EXCEPT !["overrides"] = loaded \cup {a}]
    BY <2>1 DEF PersistEdit, EditorAlone, parked, job
  <2>3. EditsIn(live') = EditsIn(live) \cup {a}
    <3>1. live'["overrides"] = EditsIn(live) \cup {a}
      BY <1>r, <2>2, Order DEF IsDir
    <3>2. EditsIn(live) \cup {a} \in SUBSET Edits
      BY <1>r, <2>1, SMT DEF IsDir, EditsIn
    <3> QED
      BY <3>1, <3>2, Present DEF EditsIn
  <2> SUFFICES ASSUME Orderly', NEW e \in kept' \ dropped'
               PROVE  e \in EditsIn(live') \/ KeptAside(e)'
    BY <2>2 DEF EditsSomewhere, EditsIn
  <2>4. e = a \/ e \in EditsIn(live) \/ KeptAside(e)
    BY <1>o, <2>2 DEF EditsSomewhere
  <2> QED
    BY <2>2, <2>3, <2>4 DEF KeptAside, EditsIn
<1>20. CASE LoadOverrides \/ EditFails
  BY <1>20, <1>o, EditsStay DEF LoadOverrides, EditFails, dirs, parked, history, job, EditsIn
<1>21. CASE Crash
  <2>1. /\ pc' = "idle" /\ UNCHANGED <<live, kept, dropped>> /\ aside' = Empty /\ rollover' = Empty
        /\ strandedAsides' = strandedAsides \cup ({aside} \ {Empty})
        /\ strandedRollovers' = strandedRollovers \cup ({rollover} \ {Empty})
    BY <1>21 DEF Crash, history
  <2>2. \A e : KeptAside(e) => KeptAside(e)'
    BY <1>e, <2>1 DEF KeptAside, EditsIn
  <2> QED
    BY <1>o, <2>1, <2>2 DEF EditsSomewhere, EditsIn
<1>22. CASE \E a \in strandedAsides : Repair(a)
  <2>1. PICK a \in strandedAsides : Repair(a)
    BY <1>22
  <2>2. /\ pc = "idle" /\ pc' = "idle" /\ UNCHANGED <<aside, rollover, strandedRollovers, kept>>
        /\ strandedAsides' = strandedAsides \ {a}
        /\ dropped' = dropped \cup (EditsIn(a) \ EditsIn(live'))
    BY <2>1, <1>r DEF Repair, Located, job
  <2>3. EditsIn(live) \subseteq EditsIn(live')
    <3>1. live'["overrides"] = IF live["overrides"] = Absent THEN a["overrides"] ELSE live["overrides"]
      BY <2>1, Order DEF Repair, Sidecars
    <3> QED
      BY <3>1 DEF EditsIn
  <2> SUFFICES ASSUME Orderly', NEW e \in kept' \ dropped'
               PROVE  e \in EditsIn(live') \/ KeptAside(e)'
    BY <2>2 DEF EditsSomewhere, EditsIn
  <2>4. e \in EditsIn(live) \/ KeptAside(e)
    BY <1>o, <2>2 DEF EditsSomewhere
  <2>5. e \in EditsIn(a) => e \in EditsIn(live')
    BY <2>2
  <2> QED
    BY <2>2, <2>3, <2>4, <2>5 DEF KeptAside, EditsIn
<1>23. CASE Restart
  BY <1>23, <1>o, EditsStay DEF Restart, parked, history, job, EditsIn
<1>24. CASE UNCHANGED vars
  BY <1>24, <1>o, EditsStay DEF vars, dirs, parked, history, job, EditsIn
<1>25. CASE TidyFails
  <2>1. /\ pc = "tidy" /\ pc' = "idle" /\ aside' = Empty /\ ~Unreturned
        /\ UNCHANGED <<live, rollover, strandedRollovers, kept, dropped>>
        /\ strandedAsides \subseteq strandedAsides'
    BY <1>25 DEF TidyFails, Failing, Goto, history
  <2> SUFFICES ASSUME Orderly', NEW e \in kept' \ dropped'
               PROVE  e \in EditsIn(live) \/ KeptAside(e)'
    BY <2>1 DEF EditsSomewhere, EditsIn
  <2>2. e \in EditsIn(live) \/ KeptAside(e)
    BY <1>o, <2>1 DEF EditsSomewhere
  <2>3. e \notin EditsIn(aside)
    <3>1. e \in EditsIn(aside) => aside["overrides"] # Absent /\ live["overrides"] = Absent
      BY <1>o, NoEdits DEF Sidecar, Overrides
    <3> QED
      BY <2>1, <3>1 DEF Sidecars, Unreturned
  <2> QED
    BY <2>1, <2>2, <2>3 DEF KeptAside, EditsIn
<1> QED
  BY <1>1, <1>2, <1>3, <1>4, <1>5, <1>6, <1>7, <1>8, <1>9, <1>10, <1>11, <1>12, <1>13, <1>14,
     <1>15, <1>16, <1>17, <1>18, <1>19, <1>20, <1>21, <1>22, <1>23, <1>24, <1>25
  DEF Next, JobStep

\* The invariant of the manual edits.
EInv == EditorAlone /\ Sidecar /\ EditsSomewhere

\* No manual edit is lost, where none overlaps a job: not by a swap, not by a
\* failure, short of the move of a live component and of the rollback, nor by
\* a crash, except for what the repair gives up.
THEOREM NoEditLost ==
    ASSUME ~Overlap
    PROVE  Spec => []EditsKept
<1>1. Init => EInv
  BY InitSidecar DEF Init, EInv, EditsSomewhere
<1>2. RInv /\ EInv /\ [Next]_vars => EInv'
  BY NextEditorAlone, NextSidecar, NextEdits DEF EInv
<1>3. EInv => EditsKept
  <2> SUFFICES ASSUME EInv, Orderly, NEW e \in kept \ dropped
               PROVE  \E d \in LiveCopies : e \in EditsIn(d)
    BY DEF EditsKept
  <2>1. e \in EditsIn(live) \/ KeptAside(e)
    BY DEF EInv, EditsSomewhere
  <2> QED
    BY <2>1 DEF KeptAside, LiveCopies
<1> QED
  BY <1>1, <1>2, <1>3, Invariance, PTL DEF Spec

=============================================================================
