-------------------------- MODULE IndexBuildProofs --------------------------
(***************************************************************************)
(* Theorems about IndexBuild, for every set of files and sources and any   *)
(* bounds: a checkpoint can be trusted, what is published is complete, and *)
(* an incremental job is exact.                                            *)
(***************************************************************************)
EXTENDS IndexBuild, TLAPS, WellFoundedInduction

-----------------------------------------------------------------------------
(* Type correctness.                                                       *)

Building == {"files", "manifest", "unlink", "end", "publish"}
Items == [file : Files, source : Sources]
Tables == SUBSET Sources

Shape(d) == d \in [table : {d.table}, manifest : {d.manifest}, checkpoint : {d.checkpoint}]

\* No two files are made from one source.
OneFileEach ==
    \A f, g \in Files : corpus[f] = corpus[g] /\ corpus[f] # Nothing => f = g

\* No file has a stamp that is still to be given out.
StampsGiven == ingests \in 0..MaxIngests /\ \A f \in Files : stamp[f] <= ingests

\* What a job works on, in the steps in which it does.
JobSound ==
    /\ pc # "idle" => names \subseteq Present /\ todo \subseteq names
    /\ pc \in Building => Dir.table \in Tables
    /\ pc \in {"replace", "update"} =>
           where = "live" /\ live.table \in Tables /\ live.manifest \in Tables
    /\ pc = "publish" => where = "staged"
    /\ writer # "idle" => pc = "files" /\ inflight \in Items

TInv ==
    /\ TypeOK /\ Shape(live) /\ Shape(staged)
    /\ OneFileEach /\ StampsGiven /\ JobSound

\* There is a first file among those to be read.
LEMMA FirstIsIn ==
    ASSUME NEW fs, fs \subseteq Files, fs # {}
    PROVE  First(fs) \in fs
  <1> DEFINE Less == OpToRel(<, Nat)
  <1>1. \A x, y \in Nat : <<x, y>> \in Less <=> x < y
    BY DEF OpToRel
  <1>2. IsWellFoundedOn(Less, Nat)
    BY NatLessThanWellFounded
  <1> HIDE DEF Less
  <1>3. fs \subseteq Nat
    BY FileNames
  <1>4. PICK x \in fs : \A y \in fs : ~(<<y, x>> \in Less)
    BY <1>2, <1>3, WFMin
  <1>5. \A y \in fs : x <= y
    <2> TAKE y \in fs
    <2>1. x \in Nat /\ y \in Nat /\ ~(<<y, x>> \in Less)
      BY <1>3, <1>4
    <2>2. ~(y < x)
      BY <1>1, <2>1
    <2> QED
      BY <2>1, <2>2
  <1> QED
    BY <1>5 DEF First

\* It holds at first, and every step preserves it (TStep, below).
LEMMA InitType == Init => TInv
  <1> SUFFICES ASSUME Init PROVE TInv
    OBVIOUS
  <1>1. DirType(live) /\ DirType(staged) /\ Shape(live) /\ Shape(staged)
    <2> DEFINE rows == SourcesOf(Present) \ Blank
    <2>1. rows \in Tables
      BY DEF Init, SourcesOf, Present, Tables
    <2>2. live = NoDir \/ live = [NoDir EXCEPT !.table = rows, !.manifest = rows]
      BY DEF Init
    <2> HIDE DEF rows
    <2>3. NoDir \in [table : {Nothing}, manifest : {Nothing}, checkpoint : {Nothing}]
      BY DEF NoDir
    <2>4. DirType(NoDir) /\ Shape(NoDir)
      BY <2>3 DEF DirType, Shape
    <2>5. [NoDir EXCEPT !.table = rows, !.manifest = rows]
              \in [table : {rows}, manifest : {rows}, checkpoint : {Nothing}]
      BY DEF NoDir
    <2>6. DirType(live) /\ Shape(live)
      <3>1. CASE live = NoDir
        BY <2>4, <3>1
      <3>2. CASE live # NoDir
        <4>1. live \in [table : {rows}, manifest : {rows}, checkpoint : {Nothing}]
          BY <2>2, <2>5, <3>2
        <4> QED
          BY <2>1, <4>1 DEF DirType, Shape, Tables
      <3> QED
        BY <3>1, <3>2
    <2> QED
      BY <2>4, <2>6 DEF Init
  <1>2. corpus \in [Files -> Sources \cup {Nothing}] /\ OneFileEach
    BY DEF Init, OneFileEach
  <1>3. stamp \in [Files -> 0..MaxIngests] /\ StampsGiven
    BY BuildBounds DEF Init, StampsGiven
  <1>4. JobSound
    BY DEF Init, JobSound, Building
  <1> QED
    BY <1>1, <1>2, <1>3, <1>4 DEF Init, TInv, TypeOK

\* A job writes to one directory.
LEMMA StoreType ==
    ASSUME TInv, NEW d, DirType(d), Shape(d), Store(d)
    PROVE  /\ (DirType(live) /\ DirType(staged))'
           /\ (Shape(live) /\ Shape(staged))'
           /\ (where' = where => Dir' = d)
  BY DEF Store, TInv, TypeOK, Dir

\* A changed part leaves the directory well-formed, and the other parts alone.
LEMMA TablePart ==
    ASSUME NEW d, Shape(d), DirType(d), NEW t \in Tables
    PROVE  LET new == [d EXCEPT !.table = t] IN
           /\ Shape(new) /\ DirType(new)
           /\ new.table = t /\ new.manifest = d.manifest /\ new.checkpoint = d.checkpoint
  <1> SUFFICES ASSUME NEW new, new = [d EXCEPT !.table = t]
               PROVE  /\ Shape(new) /\ DirType(new)
                      /\ new.table = t /\ new.manifest = d.manifest /\ new.checkpoint = d.checkpoint
    OBVIOUS
  <1>1. new \in [table : {t}, manifest : {d.manifest}, checkpoint : {d.checkpoint}]
    BY DEF Shape
  <1>2. new.table = t /\ new.manifest = d.manifest /\ new.checkpoint = d.checkpoint
    BY <1>1
  <1> QED
    BY <1>1, <1>2 DEF Shape, DirType, Tables

LEMMA ManifestPart ==
    ASSUME NEW d, Shape(d), DirType(d), NEW m \in Tables
    PROVE  LET new == [d EXCEPT !.manifest = m] IN
           /\ Shape(new) /\ DirType(new)
           /\ new.table = d.table /\ new.manifest = m /\ new.checkpoint = d.checkpoint
  <1> SUFFICES ASSUME NEW new, new = [d EXCEPT !.manifest = m]
               PROVE  /\ Shape(new) /\ DirType(new)
                      /\ new.table = d.table /\ new.manifest = m /\ new.checkpoint = d.checkpoint
    OBVIOUS
  <1>1. new \in [table : {d.table}, manifest : {m}, checkpoint : {d.checkpoint}]
    BY DEF Shape
  <1>2. new.table = d.table /\ new.manifest = m /\ new.checkpoint = d.checkpoint
    BY <1>1
  <1> QED
    BY <1>1, <1>2 DEF Shape, DirType, Tables

CheckpointOK(cp) ==
    cp # Nothing => cp.done \subseteq Files /\ cp.entries \subseteq Sources /\ cp.processed \in Nat

LEMMA CheckpointPart ==
    ASSUME NEW d, Shape(d), DirType(d), NEW cp, CheckpointOK(cp)
    PROVE  LET new == [d EXCEPT !.checkpoint = cp] IN
           /\ Shape(new) /\ DirType(new)
           /\ new.table = d.table /\ new.manifest = d.manifest /\ new.checkpoint = cp
  <1> SUFFICES ASSUME NEW new, new = [d EXCEPT !.checkpoint = cp]
               PROVE  /\ Shape(new) /\ DirType(new)
                      /\ new.table = d.table /\ new.manifest = d.manifest /\ new.checkpoint = cp
    OBVIOUS
  <1>1. new \in [table : {d.table}, manifest : {d.manifest}, checkpoint : {cp}]
    BY DEF Shape
  <1>2. new.table = d.table /\ new.manifest = d.manifest /\ new.checkpoint = cp
    BY <1>1
  <1> QED
    BY <1>1, <1>2 DEF Shape, DirType, CheckpointOK

\* A job changes one part of the directory it works on.
LEMMA StoreTable ==
    ASSUME TInv, where' = where, NEW t \in Tables, Store([Dir EXCEPT !.table = t])
    PROVE  /\ (DirType(live) /\ DirType(staged) /\ Shape(live) /\ Shape(staged))'
           /\ Dir'.table = t /\ Dir'.manifest = Dir.manifest /\ Dir'.checkpoint = Dir.checkpoint
  <1> DEFINE d == [Dir EXCEPT !.table = t]
  <1>1. /\ Shape(d) /\ DirType(d)
        /\ d.table = t /\ d.manifest = Dir.manifest /\ d.checkpoint = Dir.checkpoint
    BY TablePart DEF Dir, TInv, TypeOK
  <1>2. Store(d)
    OBVIOUS
  <1> HIDE DEF d
  <1> QED
    BY <1>1, <1>2, StoreType

LEMMA StoreManifest ==
    ASSUME TInv, where' = where, NEW m \in Tables, Store([Dir EXCEPT !.manifest = m])
    PROVE  /\ (DirType(live) /\ DirType(staged) /\ Shape(live) /\ Shape(staged))'
           /\ Dir'.table = Dir.table /\ Dir'.manifest = m /\ Dir'.checkpoint = Dir.checkpoint
  <1> DEFINE d == [Dir EXCEPT !.manifest = m]
  <1>1. /\ Shape(d) /\ DirType(d)
        /\ d.table = Dir.table /\ d.manifest = m /\ d.checkpoint = Dir.checkpoint
    BY ManifestPart DEF Dir, TInv, TypeOK
  <1>2. Store(d)
    OBVIOUS
  <1> HIDE DEF d
  <1> QED
    BY <1>1, <1>2, StoreType

LEMMA StoreCheckpoint ==
    ASSUME TInv, where' = where, NEW cp, CheckpointOK(cp), Store([Dir EXCEPT !.checkpoint = cp])
    PROVE  /\ (DirType(live) /\ DirType(staged) /\ Shape(live) /\ Shape(staged))'
           /\ Dir'.table = Dir.table /\ Dir'.manifest = Dir.manifest /\ Dir'.checkpoint = cp
  <1> DEFINE d == [Dir EXCEPT !.checkpoint = cp]
  <1>1. /\ Shape(d) /\ DirType(d)
        /\ d.table = Dir.table /\ d.manifest = Dir.manifest /\ d.checkpoint = cp
    BY CheckpointPart DEF Dir, TInv, TypeOK
  <1>2. Store(d)
    OBVIOUS
  <1> HIDE DEF d
  <1> QED
    BY <1>1, <1>2, StoreType

\* The corpus changes.
LEMMA CorpusType ==
    ASSUME TInv, NEW f \in Files,
           Remove(f) \/ Discard(f) \/ \E s \in Sources : Ingest(f, s)
    PROVE  TInv'
  <1>1. CASE Remove(f) \/ Discard(f)
    <2>1. corpus' = [corpus EXCEPT ![f] = Nothing] /\ pc = "idle"
          /\ UNCHANGED <<stamp, ingests, staged, pc, where, requested, loop, progress, counts>>
      BY <1>1 DEF Remove, Discard
    <2>2. DirType(live)' /\ Shape(live)'
      <3> DEFINE s == corpus[f]
      <3>1. DirType(Rowless(s)) /\ Shape(Rowless(s))
        <4>1. CASE live.table = Nothing
          <5>1. Rowless(s) = live
            BY <4>1 DEF Rowless, TInv, Shape
          <5> QED
            BY <5>1 DEF TInv, TypeOK
        <4>2. CASE live.table # Nothing
          <5>1. live.table \ {s} \in Tables
            BY <4>2 DEF TInv, TypeOK, DirType, Tables
          <5>2. Rowless(s) = [live EXCEPT !.table = live.table \ {s}]
            BY <4>2 DEF Rowless
          <5> QED
            BY <5>1, <5>2, TablePart DEF TInv, TypeOK
        <4> QED
          BY <4>1, <4>2
      <3>2. CASE live' = Rowless(s) \/ live' = live
        BY <3>1, <3>2 DEF TInv, TypeOK
      <3>3. ASSUME NEW manifest \in Tables, live' = [Rowless(s) EXCEPT !.manifest = manifest \ {s}]
            PROVE  DirType(live)' /\ Shape(live)'
        <4>1. manifest \ {s} \in Tables
          BY DEF Tables
        <4> QED
          BY <3>1, <3>3, <4>1, ManifestPart
      <3>4. live.manifest = Nothing \/ live.manifest \in Tables
        BY DEF TInv, TypeOK, DirType, Tables
      <3>5. {} \in Tables
        BY DEF Tables
      <3> QED
        BY <1>1, <3>2, <3>3, <3>4, <3>5 DEF Remove, Discard
    <2>3. corpus' \in [Files -> Sources \cup {Nothing}] /\ OneFileEach'
      BY <2>1 DEF TInv, TypeOK, OneFileEach
    <2>4. JobSound'
      BY <2>1 DEF TInv, JobSound, Building, loop
    <2> QED
      BY <2>1, <2>2, <2>3, <2>4 DEF TInv, TypeOK, StampsGiven, loop, progress, counts
  <1>2. ASSUME NEW s \in Sources, Ingest(f, s) PROVE TInv'
    <2>1. corpus' \in [Files -> Sources \cup {Nothing}] /\ OneFileEach'
      BY <1>2, FileNames DEF TInv, TypeOK, OneFileEach, Ingest, SourcesOf, Present
    <2>2. stamp' \in [Files -> 0..MaxIngests] /\ StampsGiven'
      BY <1>2, BuildBounds DEF TInv, TypeOK, StampsGiven, Ingest
    <2>3. Present \subseteq Present'
      BY <1>2, FileNames DEF Ingest, Present, TInv, TypeOK
    <2>4. JobSound'
      BY <1>2, <2>3 DEF TInv, JobSound, Ingest, loop, dirs, Dir
    <2> QED
      BY <1>2, <2>1, <2>2, <2>4 DEF TInv, TypeOK, Ingest, dirs, loop, progress, counts
  <1> QED
    BY <1>1, <1>2

\* A build starts with a table, and with the files that are there.
LEMMA StartType ==
    ASSUME TInv, StartFull \/ \E rs \in SUBSET Sources : StartFirst(rs)
    PROVE  TInv'
  <1>1. ASSUME NEW d, Shape(d), DirType(d)
        PROVE  Shape(WithTable(d)) /\ DirType(WithTable(d)) /\ WithTable(d).table \in Tables
               /\ WithTable(d).checkpoint = d.checkpoint
    <2>1. d.table = Nothing => WithTable(d) = [d EXCEPT !.table = {}]
      BY DEF WithTable
    <2>2. d.table # Nothing => WithTable(d) = [d EXCEPT !.table = d.table] /\ d.table \in Tables
      BY <1>1 DEF WithTable, DirType, Tables
    <2>3. {} \in Tables
      BY DEF Tables
    <2>4. PICK t \in Tables : WithTable(d) = [d EXCEPT !.table = t]
      <3>1. CASE d.table = Nothing
        BY <2>1, <2>3, <3>1
      <3>2. CASE d.table # Nothing
        BY <2>2, <3>2
      <3> QED
        BY <3>1, <3>2
    <2> QED
      BY <1>1, <2>4, TablePart
  <1>2. ASSUME NEW fs, fs \subseteq Present, NEW cp, NEW honoured \in BOOLEAN, Begin(fs, cp, honoured),
               honoured => CheckpointOK(cp) /\ cp # Nothing
        PROVE  /\ done' \subseteq Files /\ names' \subseteq Present /\ todo' \subseteq names'
               /\ entries' \subseteq Sources /\ processed' \in Nat /\ reported' = {}
               /\ held' = Nothing /\ inflight' = Nothing /\ writer' = "idle" /\ pc' = "files"
    BY <1>2 DEF Begin, CheckpointOK
  <1>3. Present \subseteq Files
    BY DEF Present
  <1>4. CASE StartFull
    <2> DEFINE honoured == Resumable /\ Accepted(staged.checkpoint, Present)
    <2>1. honoured => CheckpointOK(staged.checkpoint) /\ staged.checkpoint # Nothing
      BY DEF TInv, TypeOK, DirType, CheckpointOK, Resumable
    <2>2. honoured \in BOOLEAN
      BY DEF Resumable, Accepted
    <2>3. Begin(Present, staged.checkpoint, honoured)
      BY <1>4 DEF StartFull
    <2> HIDE DEF honoured
    <2>4. /\ done' \subseteq Files /\ names' \subseteq Present /\ todo' \subseteq names'
          /\ entries' \subseteq Sources /\ processed' \in Nat /\ reported' = {}
          /\ held' = Nothing /\ inflight' = Nothing /\ writer' = "idle" /\ pc' = "files"
      BY <1>2, <2>1, <2>2, <2>3
    <2>5. NoDir \in [table : {Nothing}, manifest : {Nothing}, checkpoint : {Nothing}]
      BY DEF NoDir
    <2>6. DirType(NoDir) /\ Shape(NoDir)
      BY <2>5 DEF DirType, Shape
    <2>7. DirType(staged') /\ Shape(staged') /\ staged'.table \in Tables
      BY <1>1, <1>4, <2>6 DEF StartFull, TInv, TypeOK
    <2>8. UNCHANGED <<corpusVars, live>> /\ where' = "staged" /\ requested' = {}
      BY <1>4 DEF StartFull
    <2>9. JobSound'
      BY <2>4, <2>7, <2>8 DEF JobSound, Building, Dir, Present, corpusVars
    <2> QED
      BY <1>3, <2>4, <2>7, <2>8, <2>9 DEF TInv, TypeOK, OneFileEach, StampsGiven, corpusVars
  <1>5. ASSUME NEW rs \in SUBSET Sources, StartFirst(rs) PROVE TInv'
    <2>1. FilesOf(rs) \subseteq Present /\ Begin(FilesOf(rs), live.checkpoint, FALSE)
      BY <1>5 DEF StartFirst, FilesOf
    <2>2. /\ done' \subseteq Files /\ names' \subseteq Present /\ todo' \subseteq names'
          /\ entries' \subseteq Sources /\ processed' \in Nat /\ reported' = {}
          /\ held' = Nothing /\ inflight' = Nothing /\ writer' = "idle" /\ pc' = "files"
      BY <1>2, <2>1
    <2>3. DirType(live') /\ Shape(live') /\ live'.table \in Tables
      BY <1>1, <1>5 DEF StartFirst, TInv, TypeOK
    <2>4. UNCHANGED <<corpusVars, staged>> /\ where' = "live" /\ requested' = rs
      BY <1>5 DEF StartFirst
    <2>5. JobSound'
      BY <2>2, <2>3, <2>4 DEF JobSound, Building, Dir, Present, corpusVars
    <2> QED
      BY <1>3, <2>2, <2>3, <2>4, <2>5 DEF TInv, TypeOK, OneFileEach, StampsGiven, corpusVars
  <1> QED
    BY <1>4, <1>5

\* A job ends, well or not, with its directories well-formed.
LEMMA GoneType ==
    ASSUME TInv, Gone, UNCHANGED corpusVars,
           DirType(live'), DirType(staged'), Shape(live'), Shape(staged')
    PROVE  TInv'
  <1>1. JobSound'
    BY DEF JobSound, Building, Gone
  <1> QED
    BY <1>1 DEF TInv, TypeOK, OneFileEach, StampsGiven, corpusVars, Gone

LEMMA EndType ==
    ASSUME TInv, EndsHere \/ Publish \/ PublishFails \/ Cancel \/ ReplaceFails \/ Crash
    PROVE  TInv'
  <1>1. NoDir \in [table : {Nothing}, manifest : {Nothing}, checkpoint : {Nothing}]
    BY DEF NoDir
  <1>2. DirType(NoDir) /\ Shape(NoDir)
    BY <1>1 DEF DirType, Shape
  <1>3. CASE UNCHANGED dirs
    BY <1>3, GoneType DEF EndsHere, Publish, PublishFails, Cancel, ReplaceFails, Crash, dirs, TInv, TypeOK
  <1>4. CASE Cancel
    BY <1>2, <1>4, GoneType DEF Cancel, TInv, TypeOK
  <1>5. CASE Publish
    <2>1. DirType(live)' /\ Shape(live)'
      <3>1. CheckpointOK(live.checkpoint)
        BY DEF TInv, TypeOK, DirType, CheckpointOK
      <3> QED
        BY <1>5, <3>1, CheckpointPart DEF Publish, TInv, TypeOK
    <2> QED
      BY <1>2, <1>5, <2>1, GoneType DEF Publish
  <1>6. CASE PublishFails
    <2>1. PICK moved \in {{}, {"table"}, {"table", "manifest"}} :
              staged' = [part \in DOMAIN staged |-> IF part \in moved THEN Nothing ELSE staged[part]]
      BY <1>6 DEF PublishFails
    <2>2. /\ staged'.table \in {staged.table, Nothing} /\ staged'.manifest \in {staged.manifest, Nothing}
          /\ staged'.checkpoint = staged.checkpoint /\ Shape(staged')
      BY <2>1 DEF TInv, Shape
    <2>3. DirType(staged')
      BY <2>2 DEF TInv, TypeOK, DirType
    <2> QED
      BY <1>6, <2>2, <2>3, GoneType DEF PublishFails, TInv, TypeOK
  <1> QED
    BY <1>3, <1>4, <1>5, <1>6 DEF EndsHere, ReplaceFails, Crash

\* The loop over the files, and the writer behind it.
LEMMA LoopType ==
    ASSUME TInv, SkipBlank \/ Prepare \/ ReadFails \/ Queue \/ Flush
    PROVE  TInv'
  <1>1. todo # {} => First(todo) \in todo /\ todo \subseteq Files
    BY FirstIsIn DEF TInv, TypeOK
  <1>2. CASE SkipBlank
    <2>1. JobSound'
      BY <1>1, <1>2 DEF SkipBlank, TInv, JobSound, Building, Dir, Present, corpusVars, dirs
    <2> QED
      BY <1>1, <1>2, <2>1 DEF SkipBlank, TInv, TypeOK, OneFileEach, StampsGiven, corpusVars, dirs, counts
  <1>3. CASE Prepare
    <2>1. JobSound'
      BY <1>1, <1>3 DEF Prepare, TInv, JobSound, Building, Dir, Present, corpusVars, dirs
    <2>2. held' \in Items
      BY <1>1, <1>3 DEF Prepare, TInv, TypeOK, JobSound, Present, Read, Items
    <2> QED
      BY <1>1, <1>3, <2>1, <2>2
      DEF Prepare, TInv, TypeOK, Items, OneFileEach, StampsGiven, corpusVars, dirs, progress, counts
  <1>4. CASE ReadFails
    <2>1. JobSound'
      BY <1>1, <1>4 DEF ReadFails, TInv, JobSound, Building, Dir, Present, corpusVars, dirs
    <2> QED
      BY <1>1, <1>4, <2>1 DEF ReadFails, TInv, TypeOK, OneFileEach, StampsGiven, corpusVars, dirs
  <1>5. ASSUME Collected
        PROVE  done' \subseteq Files /\ reported' \subseteq Files
    BY <1>5 DEF Collected, TInv, TypeOK, JobSound, Items
  <1>6. CASE Queue
    <2>1. CheckpointOK(Checkpoint) /\ done' \subseteq Files /\ reported' \subseteq Files
      BY <1>5, <1>6 DEF Queue, Checkpoint, CheckpointOK, TInv, TypeOK
    <2>2. /\ (DirType(live) /\ DirType(staged) /\ Shape(live) /\ Shape(staged))'
          /\ Dir'.table = Dir.table
      <3>1. CASE UNCHANGED dirs
        BY <1>6, <3>1 DEF Queue, dirs, Dir, TInv, TypeOK
      <3>2. CASE Store([Dir EXCEPT !.checkpoint = Checkpoint])
        <4>1. DirType(Dir) /\ Shape(Dir)
          BY DEF Dir, TInv, TypeOK
        <4> QED
          BY <1>6, <2>1, <3>2, <4>1, StoreCheckpoint DEF Queue
      <3> QED
        BY <1>6, <3>1, <3>2 DEF Queue
    <2>3. inflight' \in Items /\ held' = Nothing /\ writer' = "queued"
      BY <1>6 DEF Queue, TInv, TypeOK, Items
    <2>4. JobSound'
      BY <1>6, <2>2, <2>3 DEF Queue, TInv, JobSound, Building, Present, corpusVars
    <2> QED
      BY <1>6, <2>1, <2>2, <2>3, <2>4
      DEF Queue, TInv, TypeOK, Items, OneFileEach, StampsGiven, corpusVars, counts
  <1>7. CASE Flush
    <2>1. done' \subseteq Files /\ reported' \subseteq Files
      BY <1>5, <1>7 DEF Flush
    <2>2. JobSound'
      BY <1>7 DEF Flush, TInv, JobSound, Building, Dir, Present, corpusVars, dirs
    <2> QED
      BY <1>7, <2>1, <2>2 DEF Flush, TInv, TypeOK, OneFileEach, StampsGiven, corpusVars, dirs, counts
  <1> QED
    BY <1>2, <1>3, <1>4, <1>6, <1>7

LEMMA WriterType ==
    ASSUME TInv, WriterDeletes \/ WriterAdds \/ WriterMerges \/ WriterFails
    PROVE  TInv'
  <1>1. inflight \in Items /\ pc = "files" /\ Dir.table \in Tables /\ DirType(Dir) /\ Shape(Dir)
    BY DEF WriterDeletes, WriterAdds, WriterMerges, WriterFails, TInv, TypeOK, JobSound, Building, Dir
  <1>2. CASE WriterDeletes \/ WriterAdds
    <2>1. PICK t \in Tables : Store([Dir EXCEPT !.table = t])
      <3>1. Dir.table \ {inflight.source} \in Tables /\ Dir.table \cup {inflight.source} \in Tables
        BY <1>1 DEF Tables, Items
      <3> QED
        BY <1>2, <3>1 DEF WriterDeletes, WriterAdds
    <2>2. /\ (DirType(live) /\ DirType(staged) /\ Shape(live) /\ Shape(staged))'
          /\ Dir'.table \in Tables
      BY <1>2, <2>1, StoreTable DEF WriterDeletes, WriterAdds
    <2>3. JobSound'
      BY <1>1, <1>2, <2>2 DEF WriterDeletes, WriterAdds, TInv, JobSound, Building, Present, corpusVars
    <2> QED
      BY <1>2, <2>2, <2>3
      DEF WriterDeletes, WriterAdds, TInv, TypeOK, OneFileEach, StampsGiven, corpusVars, progress, counts
  <1>3. CASE WriterMerges \/ WriterFails
    <2>1. entries' \subseteq Sources
      BY <1>1, <1>3 DEF WriterMerges, WriterFails, Items, TInv, TypeOK
    <2>2. JobSound'
      BY <1>1, <1>3 DEF WriterMerges, WriterFails, TInv, JobSound, Building, Dir, Present, corpusVars, dirs
    <2> QED
      BY <1>3, <2>1, <2>2
      DEF WriterMerges, WriterFails, TInv, TypeOK, OneFileEach, StampsGiven, corpusVars, dirs, counts
  <1> QED
    BY <1>2, <1>3

\* The end of a build, up to its publication.
LEMMA FinishType ==
    ASSUME TInv, WriteManifest \/ Unlink \/ UnlinkFails \/ End \/ PreflightFails
    PROVE  TInv'
  <1>1. DirType(Dir) /\ Shape(Dir)
    BY DEF Dir, TInv, TypeOK
  <1>2. CASE WriteManifest
    <2>1. entries \in Tables
      BY DEF Tables, TInv, TypeOK
    <2>2. /\ (DirType(live) /\ DirType(staged) /\ Shape(live) /\ Shape(staged))'
          /\ Dir'.table = Dir.table
      BY <1>2, <2>1, StoreManifest DEF WriteManifest
    <2>3. JobSound'
      BY <1>2, <2>2 DEF WriteManifest, TInv, JobSound, Building, Present, corpusVars, loop
    <2> QED
      BY <1>2, <2>2, <2>3
      DEF WriteManifest, TInv, TypeOK, OneFileEach, StampsGiven, corpusVars, loop, progress, counts
  <1>3. CASE Unlink
    <2>1. CheckpointOK(Nothing)
      BY DEF CheckpointOK
    <2>2. /\ (DirType(live) /\ DirType(staged) /\ Shape(live) /\ Shape(staged))'
          /\ Dir'.table = Dir.table
      BY <1>3, <2>1, StoreCheckpoint DEF Unlink
    <2>3. JobSound'
      BY <1>3, <2>2 DEF Unlink, TInv, JobSound, Building, Present, corpusVars, loop
    <2> QED
      BY <1>3, <2>2, <2>3
      DEF Unlink, TInv, TypeOK, OneFileEach, StampsGiven, corpusVars, loop, progress, counts
  <1>4. CASE UnlinkFails \/ End
    <2>1. JobSound'
      BY <1>4 DEF UnlinkFails, End, TInv, JobSound, Building, Dir, Present, corpusVars, dirs, loop
    <2> QED
      BY <1>4, <2>1
      DEF UnlinkFails, End, TInv, TypeOK, OneFileEach, StampsGiven, corpusVars, dirs, loop, progress
  <1>5. CASE PreflightFails
    <2>1. NoDir \in [table : {Nothing}, manifest : {Nothing}, checkpoint : {Nothing}]
      BY DEF NoDir
    <2>2. DirType(NoDir) /\ Shape(NoDir)
      BY <2>1 DEF DirType, Shape
    <2>3. JobSound'
      BY <1>5 DEF PreflightFails, TInv, JobSound, Building, Present, corpusVars, loop
    <2> QED
      BY <1>5, <2>2, <2>3
      DEF PreflightFails, TInv, TypeOK, OneFileEach, StampsGiven, corpusVars, loop, progress
  <1> QED
    BY <1>2, <1>3, <1>4, <1>5

\* Incremental jobs.
LEMMA IncrementalType ==
    ASSUME TInv, \/ \E rs \in SUBSET Sources : StartIncremental(rs)
                 \/ ReplaceDeletes \/ ReplaceAdds \/ DeleteMissing \/ UpdateManifest
    PROVE  TInv'
  <1>1. ASSUME NEW rs \in SUBSET Sources, StartIncremental(rs) PROVE TInv'
    <2>1. names' \subseteq Present /\ Present \subseteq Files /\ todo' = names'
      BY <1>1 DEF StartIncremental, FilesOf, Present
    <2>2. JobSound'
      BY <1>1, <2>1 DEF StartIncremental, TInv, TypeOK, DirType, Tables, JobSound, Building, Present, corpusVars, dirs
    <2> QED
      BY <1>1, <2>1, <2>2
      DEF StartIncremental, TInv, TypeOK, OneFileEach, StampsGiven, corpusVars, dirs, progress
  <1>2. CASE ReplaceDeletes \/ ReplaceAdds \/ DeleteMissing
    <2>1. where = "live" /\ live.table \in Tables /\ DirType(Dir) /\ Shape(Dir) /\ pc = "replace"
      BY <1>2 DEF ReplaceDeletes, ReplaceAdds, DeleteMissing, TInv, TypeOK, JobSound, Dir
    <2>2. PICK t \in Tables : Store([Dir EXCEPT !.table = t])
      <3>1. \A x : live.table \ x \in Tables
        BY <2>1 DEF Tables
      <3>2. ReplaceAdds => live.table \cup ({held.source} \ Blank) \in Tables
        BY <2>1 DEF ReplaceAdds, TInv, TypeOK, Tables
      <3> QED
        BY <1>2, <2>1, <3>1, <3>2 DEF ReplaceDeletes, ReplaceAdds, DeleteMissing, Dir
    <2>3. /\ (DirType(live) /\ DirType(staged) /\ Shape(live) /\ Shape(staged))'
          /\ live'.table \in Tables /\ live'.manifest = live.manifest /\ where' = "live"
      <3>1. where' = where
        BY <1>2 DEF ReplaceDeletes, ReplaceAdds, DeleteMissing
      <3>2. /\ (DirType(live) /\ DirType(staged) /\ Shape(live) /\ Shape(staged))'
            /\ Dir'.table = t /\ Dir'.manifest = Dir.manifest
        BY <2>2, <3>1, StoreTable
      <3> QED
        BY <2>1, <3>1, <3>2 DEF Dir
    <2>4. held' \in Items \cup {Nothing}
      <3>1. ReplaceDeletes => held' \in Items
        BY FirstIsIn DEF ReplaceDeletes, TInv, TypeOK, JobSound, Present, Read, Items
      <3> QED
        BY <1>2, <3>1 DEF ReplaceDeletes, ReplaceAdds, DeleteMissing, TInv, TypeOK, Items, loop
    <2>5. JobSound'
      BY <1>2, <2>3 DEF ReplaceDeletes, ReplaceAdds, DeleteMissing, TInv, JobSound, Building, Present, corpusVars, loop
    <2> QED
      BY <1>2, <2>3, <2>4, <2>5
      DEF ReplaceDeletes, ReplaceAdds, DeleteMissing, TInv, TypeOK, Items, OneFileEach, StampsGiven,
          corpusVars, loop, progress, counts
  <1>3. CASE UpdateManifest
    <2>1. where = "live" /\ live.manifest \in Tables /\ DirType(Dir) /\ Shape(Dir) /\ names \subseteq Present
      BY <1>3 DEF UpdateManifest, TInv, TypeOK, JobSound, Dir
    <2>2. (live.manifest \ requested) \cup (SourcesOf(names) \ Blank) \in Tables
      BY <2>1 DEF Tables, SourcesOf, Present, TInv, TypeOK
    <2>3. (DirType(live) /\ DirType(staged) /\ Shape(live) /\ Shape(staged))'
      BY <1>3, <2>1, <2>2, StoreManifest DEF UpdateManifest, Dir, Gone
    <2> QED
      BY <1>3, <2>3, GoneType DEF UpdateManifest
  <1> QED
    BY <1>1, <1>2, <1>3

\* Every step preserves the type invariant.
LEMMA TStep == TInv /\ [Next]_vars => TInv'
  <1> SUFFICES ASSUME TInv, [Next]_vars PROVE TInv'
    OBVIOUS
  <1>1. CASE \E f \in Files : Remove(f) \/ Discard(f) \/ \E s \in Sources : Ingest(f, s)
    BY <1>1, CorpusType
  <1>2. CASE JobStep
    <2>1. CASE \E rs \in (SUBSET Sources) \ {{}} : StartFirst(rs) \/ StartIncremental(rs)
      BY <2>1, StartType, IncrementalType
    <2>2. CASE ~ \E rs \in (SUBSET Sources) \ {{}} : StartFirst(rs) \/ StartIncremental(rs)
      BY <1>2, <2>2, StartType, LoopType, WriterType, FinishType, EndType, IncrementalType DEF JobStep
    <2> QED
      BY <2>1, <2>2
  <1>3. CASE Crash
    BY <1>3, EndType
  <1>4. CASE UNCHANGED vars
    <2>1. JobSound'
      BY <1>4 DEF vars, corpusVars, dirs, loop, progress, counts, TInv, JobSound, Building, Dir, Present
    <2> QED
      BY <1>4, <2>1
      DEF vars, corpusVars, dirs, loop, progress, counts, TInv, TypeOK, OneFileEach, StampsGiven
  <1> QED
    BY <1>1, <1>2, <1>3, <1>4 DEF Next

-----------------------------------------------------------------------------
(* The checkpoint of a full build.                                         *)

\* What a checkpoint says, if it would be honoured, of the table beside it.
Backed(cp, t) ==
    /\ t \in Tables
    /\ \A f \in cp.done : cp.signatures[f] \in 0..ingests
    /\ Accepted(cp, Present) =>
         /\ SourcesOf(cp.done) \ Blank \subseteq t \cap cp.entries
         /\ "write" \notin Faults => cp.entries \subseteq SourcesOf(cp.done) \ Blank

\* A file that is prepared, or being written, is neither completed nor to be read.
Underway(item) ==
    /\ item \in Items
    /\ item.file \in names \ (done \cup todo)
    /\ item.source = corpus[item.file] /\ item.source \notin Blank

\* What a build has collected is in its table and its entries, and it has
\* collected what the checkpoint lists if this would be honoured.
Collecting ==
    /\ done \subseteq names /\ todo \cap done = {}
    /\ held # Nothing => Underway(held)
    /\ writer # "idle" => Underway(inflight)
    /\ held # Nothing /\ writer # "idle" => held.file # inflight.file
    /\ SourcesOf(done) \ Blank \subseteq staged.table \cap entries
    /\ writer \in {"added", "merged"} => inflight.source \in staged.table
    /\ writer = "merged" => inflight.source \in entries
    /\ staged.checkpoint # Nothing /\ Accepted(staged.checkpoint, Present) =>
           staged.checkpoint.done \subseteq done

\* It loses no file, and its entries are those of the files it has collected.
Accounted ==
    /\ \A f \in names : \/ f \in done \cup todo \cup reported
                        \/ held # Nothing /\ f = held.file
                        \/ writer # "idle" /\ f = inflight.file
    /\ "write" \notin Faults =>
           \A s \in entries : \/ s \in SourcesOf(done) \ Blank
                              \/ writer = "merged" /\ s = inflight.source

\* After the loop nothing is pending.
Finished ==
    /\ pc # "files" => todo = {} /\ held = Nothing /\ writer = "idle"
    /\ pc \in {"unlink", "end", "publish"} => staged.manifest = entries
    /\ pc \in {"end", "publish"} /\ staged.checkpoint # Nothing =>
           "unlink" \in Faults /\ faults > 0

BInv ==
    /\ faults \in Nat
    /\ staged.checkpoint # Nothing => Backed(staged.checkpoint, staged.table)
    /\ pc # "idle" /\ where = "staged" => Collecting /\ Accounted /\ Finished

\* Never do both the removal of the checkpoint and a publication fail.
Apart == MaxFaults <= 1 \/ ~({"unlink", "publish"} \subseteq Faults)

\* A checkpoint stays as good as it is while the corpus is unchanged.
LEMMA BackedKept ==
    ASSUME NEW cp, NEW t, UNCHANGED corpusVars, Backed(cp, t)
    PROVE  Backed(cp, t)'
  BY DEF Backed, Accepted, Present, SourcesOf, corpusVars

\* A job on the live directory, and one that is gone, leave the staged one alone.
LEMMA Elsewhere ==
    ASSUME TInv, BInv, where' = "live", UNCHANGED <<corpusVars, staged>>, faults' \in Nat
    PROVE  BInv'
  BY BackedKept DEF BInv

\* A checkpoint whose files have changed is not honoured later either.
LEMMA CorpusBacks ==
    ASSUME TInv, BInv, Overwrites = FALSE, NEW f \in Files,
           Remove(f) \/ Discard(f) \/ \E s \in Sources : Ingest(f, s)
    PROVE  BInv'
  <1>1. UNCHANGED <<staged, pc, where, loop, progress, faults>>
    BY DEF Remove, Discard, Ingest, dirs, counts
  <1>2. ASSUME NEW cp, NEW t, CheckpointOK(cp), cp # Nothing, Backed(cp, t)
        PROVE  /\ Backed(cp, t)'
               /\ Accepted(cp, Present)' => Accepted(cp, Present)
    <2>1. cp.done \subseteq Files
      BY <1>2 DEF CheckpointOK
    <2>2. Accepted(cp, Present)' =>
              Accepted(cp, Present) /\ \A g \in cp.done : corpus'[g] = corpus[g]
      <3>1. CASE Remove(f) \/ Discard(f)
        BY <2>1, <3>1, FileNames DEF Remove, Discard, Accepted, Present, TInv, TypeOK
      <3>2. ASSUME NEW s \in Sources, Ingest(f, s)
            PROVE  Accepted(cp, Present)' =>
                       Accepted(cp, Present) /\ \A g \in cp.done : corpus'[g] = corpus[g]
        <4>1. stamp'[f] = ingests + 1 /\ ingests \in Nat
          BY <3>2 DEF Ingest, TInv, TypeOK, StampsGiven
        <4>2. f \in cp.done => ~ Accepted(cp, Present)'
          BY <1>2, <4>1 DEF Backed, Accepted
        <4>3. \A g \in Files \ {f} : stamp'[g] = stamp[g] /\ corpus'[g] = corpus[g]
          BY <3>2 DEF Ingest, TInv, TypeOK
        <4> QED
          BY <2>1, <4>2, <4>3 DEF Accepted, Present
      <3> QED
        BY <3>1, <3>2
    <2>3. \A g \in cp.done : cp.signatures[g] \in 0..ingests'
      <3>1. ingests \in Nat /\ ingests' \in {ingests, ingests + 1}
        BY DEF Remove, Discard, Ingest, TInv, StampsGiven
      <3> QED
        BY <1>2, <3>1 DEF Backed
    <2>4. Accepted(cp, Present)' => SourcesOf(cp.done)' = SourcesOf(cp.done)
      BY <2>2 DEF SourcesOf
    <2> QED
      BY <1>2, <2>2, <2>3, <2>4 DEF Backed
  <1>3. ASSUME pc # "idle", where = "staged"
        PROVE  (Collecting /\ Accounted /\ Finished)'
    <2>1. PICK s \in Sources : Ingest(f, s)
      BY <1>3 DEF Remove, Discard
    <2>2. names \subseteq Present /\ f \notin Present
      BY <1>3, <2>1 DEF Ingest, Present, TInv, JobSound
    <2>3. \A g \in names : corpus'[g] = corpus[g]
      BY <2>1, <2>2 DEF Ingest, Present, TInv, TypeOK
    <2>4. Collecting /\ Accounted /\ Finished
      BY <1>3 DEF BInv
    <2>5. SourcesOf(done)' = SourcesOf(done)
      BY <1>1, <2>3, <2>4 DEF SourcesOf, Collecting, progress
    <2>6. ASSUME NEW item, Underway(item) PROVE Underway(item)'
      BY <1>1, <2>3, <2>6 DEF Underway, loop, progress
    <2>7. staged.checkpoint # Nothing /\ Accepted(staged.checkpoint, Present)' =>
              Accepted(staged.checkpoint, Present)
      BY <1>1, <1>2 DEF BInv, CheckpointOK, DirType, TInv, TypeOK
    <2>8. Collecting'
      BY <1>1, <2>4, <2>5, <2>6, <2>7 DEF Collecting, loop, progress
    <2> QED
      BY <1>1, <2>4, <2>5, <2>8 DEF Accounted, Finished, loop, progress
  <1>4. staged.checkpoint # Nothing => Backed(staged.checkpoint, staged.table)'
    BY <1>1, <1>2 DEF BInv, CheckpointOK, DirType, TInv, TypeOK
  <1> QED
    BY <1>1, <1>3, <1>4 DEF BInv

\* A full build starts from a checkpoint that is honoured, or from nothing.
LEMMA StartBacks ==
    ASSUME TInv, BInv, StartFull
    PROVE  BInv'
  <1> DEFINE cp == staged.checkpoint
             honoured == Resumable /\ Accepted(cp, Present)
  <1>1. /\ UNCHANGED <<corpusVars, faults>> /\ pc' = "files" /\ where' = "staged"
        /\ names' = Present /\ todo' = Present \ done' /\ held' = Nothing /\ writer' = "idle"
        /\ done' = (IF honoured THEN cp.done ELSE {})
        /\ entries' = (IF honoured THEN cp.entries ELSE {})
    BY DEF StartFull, Begin
  <1>2. CASE Resumable
    <2>1. cp # Nothing /\ Backed(cp, staged.table)
      BY <1>2 DEF Resumable, BInv
    <2>2. staged' = [staged EXCEPT !.table = staged.table] /\ staged.table \in Tables
      BY <1>2, <2>1, FileNames DEF StartFull, WithTable, Backed, Tables
    <2>3. staged'.table = staged.table /\ staged'.checkpoint = cp
      BY <2>2 DEF TInv, Shape
    <2>4. done' \subseteq Present
      BY <1>1 DEF Accepted
    <2>5. SourcesOf(done)' \ Blank \subseteq staged'.table \cap entries'
      BY <1>1, <2>1, <2>3 DEF Backed, SourcesOf, corpusVars
    <2>6. Accepted(cp, Present)' => cp.done \subseteq done'
      BY <1>1, <1>2, <2>3 DEF Accepted, Present, corpusVars
    <2>7. Collecting'
      BY <1>1, <2>3, <2>4, <2>5, <2>6 DEF Collecting
    <2>8. "write" \notin Faults => \A s \in entries' : s \in SourcesOf(done)' \ Blank
      BY <1>1, <2>1 DEF Backed, SourcesOf, corpusVars
    <2>9. Accounted' /\ Finished'
      BY <1>1, <2>8 DEF Accounted, Finished
    <2>10. Backed(staged.checkpoint, staged.table)'
      BY <1>1, <2>1, <2>3, BackedKept
    <2> QED
      BY <1>1, <2>7, <2>9, <2>10 DEF BInv
  <1>3. CASE ~Resumable
    <2>1. staged' = [NoDir EXCEPT !.table = {}]
      BY <1>3 DEF StartFull, WithTable, NoDir
    <2>2. staged'.checkpoint = Nothing
      BY <2>1 DEF NoDir
    <2>3. done' = {} /\ entries' = {} /\ SourcesOf(done)' = {}
      BY <1>1, <1>3 DEF SourcesOf
    <2> QED
      BY <1>1, <2>2, <2>3 DEF BInv, Collecting, Accounted, Finished
  <1> QED
    BY <1>2, <1>3

\* The loop that prepares the files.
LEMMA PrepareBacks ==
    ASSUME TInv, BInv, SkipBlank \/ Prepare \/ ReadFails
    PROVE  BInv'
  <1>1. /\ UNCHANGED <<corpusVars, dirs, pc, where, names, inflight, writer, entries>>
        /\ faults' \in Nat /\ pc = "files" /\ held = Nothing /\ First(todo) \in todo
    BY FirstIsIn DEF SkipBlank, Prepare, ReadFails, Fault, counts, progress, BInv, TInv, TypeOK
  <1>2. CASE where = "live"
    BY <1>1, <1>2, Elsewhere DEF dirs
  <1>3. CASE where = "staged"
    <2> DEFINE f == First(todo)
    <2>1. Collecting /\ Accounted /\ Finished
      BY <1>1, <1>3 DEF BInv
    <2>2. f \in todo /\ f \in names /\ f \notin done /\ todo' = todo \ {f} /\ f \in Files
      BY <1>1, <2>1 DEF SkipBlank, Prepare, ReadFails, Collecting, TInv, TypeOK, JobSound
    <2>3. /\ done' = done \/ (done' = done \cup {f} /\ corpus[f] \in Blank)
          /\ held' = Nothing \/ (held' = Read(f) /\ done' = done /\ corpus[f] \notin Blank)
          /\ held' = held => f \in done' \/ f \in reported'
          /\ reported \subseteq reported'
      <3>1. CASE SkipBlank
        BY <1>1, <3>1 DEF SkipBlank
      <3>2. CASE Prepare
        <4>1. f \in Files /\ corpus[f] \in Sources
          BY <1>1, <2>2 DEF TInv, TypeOK, JobSound, Present
        <4>2. Read(f) # Nothing
          <5>1. Read(f) \in [file : Files, source : Sources]
            BY <4>1 DEF Read
          <5> QED
            BY <5>1, FileNames
        <4> QED
          BY <1>1, <3>2, <4>2 DEF Prepare, progress
      <3>3. CASE ReadFails
        BY <1>1, <3>3 DEF ReadFails
      <3> QED
        BY <3>1, <3>2, <3>3
    <2> HIDE DEF f
    <2>4. SourcesOf(done)' \ Blank = SourcesOf(done) \ Blank
      BY <1>1, <2>3 DEF SourcesOf, corpusVars
    <2>5. writer # "idle" => Underway(inflight)' /\ inflight.file # f
      BY <1>1, <2>1, <2>2, <2>3 DEF Collecting, Underway, corpusVars
    <2>6. Read(f).file = f /\ Read(f).source = corpus[f]
      BY DEF Read
    <2>7. corpus[f] \in Sources
      BY <1>1, <2>2 DEF TInv, TypeOK, JobSound, Present
    <2>8. held' # Nothing => Underway(held)' /\ held'.file = f
      <3>1. CASE held' = Read(f) /\ done' = done /\ corpus[f] \notin Blank
        <4>1. Read(f) \in Items
          BY <2>2, <2>7 DEF Read, Items
        <4> QED
          BY <1>1, <2>2, <2>6, <3>1, <4>1 DEF Underway, corpusVars
      <3> QED
        BY <2>3, <3>1
    <2>9. Collecting'
      <3>1. done' \subseteq names' /\ todo' \cap done' = {} /\ done \subseteq done'
        BY <1>1, <2>1, <2>2, <2>3 DEF Collecting
      <3>2. staged.checkpoint # Nothing /\ Accepted(staged.checkpoint, Present)' =>
                Accepted(staged.checkpoint, Present)
        BY <1>1 DEF Accepted, Present, corpusVars, dirs
      <3> QED
        BY <1>1, <2>1, <2>4, <2>5, <2>8, <3>1, <3>2 DEF Collecting, dirs
    <2>10. Accounted'
      <3>1. f \in done' \cup reported' \/ (held' # Nothing /\ f = held'.file)
        BY <1>1, <2>3, <2>6, <2>8
      <3>2. done \subseteq done'
        BY <2>3
      <3> QED
        BY <1>1, <2>1, <2>2, <2>3, <2>4, <3>1, <3>2 DEF Accounted
    <2>11. staged.checkpoint # Nothing => Backed(staged.checkpoint, staged.table)'
      BY <1>1, BackedKept DEF BInv, dirs
    <2> QED
      BY <1>1, <2>9, <2>10, <2>11 DEF BInv, Finished, dirs
  <1> QED
    BY <1>2, <1>3 DEF TInv, TypeOK

\* The result of the pending write is collected: nothing else can count on it.
LEMMA CollectedBacks ==
    ASSUME TInv, Collecting, Accounted, Collected, UNCHANGED <<corpusVars, names, entries>>
    PROVE  /\ done \subseteq done' /\ done' \subseteq names /\ todo \cap done' = {}
           /\ held # Nothing => held.file \notin done'
           /\ SourcesOf(done)' \ Blank \subseteq staged.table \cap entries
           /\ \A f \in names : \/ f \in done' \cup todo \cup reported'
                               \/ held # Nothing /\ f = held.file
           /\ "write" \notin Faults => \A s \in entries : s \in SourcesOf(done)' \ Blank
  <1>1. CASE writer = "merged"
    <2>1. Underway(inflight) /\ done' = done \cup {inflight.file} /\ reported' = reported
      BY <1>1 DEF Collected, Collecting
    <2>2. SourcesOf(done)' = SourcesOf(done) \cup {inflight.source}
      BY <2>1 DEF SourcesOf, Underway, corpusVars
    <2>3. held # Nothing => held.file \notin done'
      BY <1>1, <2>1 DEF Collecting, Underway
    <2> QED
      BY <1>1, <2>1, <2>2, <2>3 DEF Collecting, Accounted, Underway
  <1>2. CASE writer # "merged"
    <2>1. done' = done /\ SourcesOf(done)' = SourcesOf(done)
      BY <1>2 DEF Collected, SourcesOf, corpusVars
    <2>2. writer # "idle" => inflight.file \in reported'
      BY <1>2 DEF Collected
    <2>3. reported \subseteq reported'
      BY DEF Collected
    <2> QED
      BY <1>2, <2>1, <2>2, <2>3 DEF Collecting, Accounted, Underway
  <1> QED
    BY <1>1, <1>2

\* The checkpoint that is written lists what has been collected.
LEMMA QueueBacks ==
    ASSUME TInv, BInv, Queue
    PROVE  BInv'
  <1>1. CASE where = "live"
    <2>1. UNCHANGED <<corpusVars, staged, faults, where>>
      BY <1>1 DEF Queue, Store, counts, dirs
    <2> QED
      BY <1>1, <2>1, Elsewhere DEF BInv
  <1>2. CASE where = "staged"
    <2>1. /\ UNCHANGED <<corpusVars, pc, where, requested, names, todo, entries, counts>>
          /\ pc = "files" /\ held # Nothing /\ held' = Nothing
          /\ inflight' = held /\ writer' = "queued"
      BY DEF Queue
    <2>2. Collecting /\ Accounted
      BY <1>2, <2>1 DEF BInv
    <2>3. /\ done \subseteq done' /\ done' \subseteq names /\ todo \cap done' = {}
          /\ held.file \notin done'
          /\ SourcesOf(done)' \ Blank \subseteq staged.table \cap entries
          /\ \A f \in names : f \in done' \cup todo \cup reported' \/ f = held.file
          /\ "write" \notin Faults => \A s \in entries : s \in SourcesOf(done)' \ Blank
      BY <2>1, <2>2, CollectedBacks DEF Queue
    <2>4. Underway(inflight)'
      BY <2>1, <2>2, <2>3 DEF Collecting, Underway, corpusVars
    <2>5. Accounted'
      BY <2>1, <2>3 DEF Accounted
    <2>6. CASE UNCHANGED dirs
      <3>1. staged' = staged
        BY <2>6 DEF dirs
      <3>2. staged.checkpoint # Nothing => Backed(staged.checkpoint, staged.table)'
        BY <2>1, <3>1, BackedKept DEF BInv
      <3>3. Accepted(staged.checkpoint, Present)' => Accepted(staged.checkpoint, Present)
        BY <2>1, <3>1 DEF Accepted, Present, corpusVars
      <3>4. Collecting'
        BY <2>1, <2>2, <2>3, <2>4, <3>1, <3>3 DEF Collecting
      <3> QED
        BY <2>1, <2>5, <3>1, <3>2, <3>4 DEF BInv, Finished, counts
    <2>7. CASE Store([Dir EXCEPT !.checkpoint = Checkpoint])
      <3> DEFINE cp == Checkpoint
      <3>1. cp.done = done' /\ cp.entries = entries /\ \A f \in done' : cp.signatures[f] = stamp[f]
        BY DEF Checkpoint
      <3>2. staged'.table = staged.table /\ staged'.checkpoint = cp
        <4>1. staged' = [staged EXCEPT !.checkpoint = cp]
          BY <1>2, <2>7 DEF Store, Dir
        <4> QED
          BY <4>1 DEF TInv, Shape
      <3> HIDE DEF cp
      <3>3. \A f \in Files : stamp[f] \in 0..ingests
        BY DEF TInv, TypeOK, StampsGiven
      <3>4. staged.table \in Tables /\ done' \subseteq Files
        BY <1>2, <2>1, <2>3 DEF TInv, TypeOK, JobSound, Building, Dir
      <3>5. Backed(staged.checkpoint, staged.table)'
        <4>1. staged'.table \in Tables
          BY <3>2, <3>4
        <4>2. \A f \in staged'.checkpoint.done : staged'.checkpoint.signatures[f] \in 0..ingests'
          BY <2>1, <3>1, <3>2, <3>3, <3>4 DEF corpusVars
        <4>3. SourcesOf(staged.checkpoint.done)' = SourcesOf(done)'
          BY <3>1, <3>2 DEF SourcesOf
        <4> QED
          BY <2>3, <3>1, <3>2, <4>1, <4>2, <4>3 DEF Backed
      <3>6. Collecting'
        BY <2>1, <2>3, <2>4, <3>1, <3>2 DEF Collecting
      <3> QED
        BY <2>1, <2>5, <3>5, <3>6 DEF BInv, Finished, counts
    <2> QED
      BY <2>6, <2>7 DEF Queue
  <1> QED
    BY <1>1, <1>2 DEF TInv, TypeOK

\* After the last write everything is collected or reported.
LEMMA FlushBacks ==
    ASSUME TInv, BInv, Flush
    PROVE  BInv'
  <1>1. /\ UNCHANGED <<corpusVars, dirs, where, names, todo, held, entries, counts>>
        /\ pc = "files" /\ held = Nothing /\ todo = {} /\ pc' = "manifest" /\ writer' = "idle"
    BY DEF Flush
  <1>2. CASE where = "live"
    BY <1>1, <1>2, Elsewhere DEF BInv, dirs, counts
  <1>3. CASE where = "staged"
    <2>1. Collecting /\ Accounted
      BY <1>1, <1>3 DEF BInv
    <2>2. /\ done \subseteq done' /\ done' \subseteq names
          /\ SourcesOf(done)' \ Blank \subseteq staged.table \cap entries
          /\ \A f \in names : f \in done' \cup reported'
          /\ "write" \notin Faults => \A s \in entries : s \in SourcesOf(done)' \ Blank
      BY <1>1, <2>1, CollectedBacks DEF Flush
    <2>3. Accepted(staged.checkpoint, Present)' => Accepted(staged.checkpoint, Present)
      BY <1>1 DEF Accepted, Present, corpusVars, dirs
    <2>4. Collecting'
      BY <1>1, <2>1, <2>2, <2>3 DEF Collecting, dirs
    <2>5. Accounted' /\ Finished'
      BY <1>1, <2>2 DEF Accounted, Finished
    <2>6. staged.checkpoint # Nothing => Backed(staged.checkpoint, staged.table)'
      BY <1>1, BackedKept DEF BInv, dirs
    <2> QED
      BY <1>1, <2>4, <2>5, <2>6 DEF BInv, dirs, counts
  <1> QED
    BY <1>2, <1>3 DEF TInv, TypeOK

\* The writer's steps, on the rows and the entry of one source.
LEMMA WriterBacks ==
    ASSUME TInv, BInv, WriterDeletes \/ WriterAdds \/ WriterMerges \/ WriterFails
    PROVE  BInv'
  <1>1. /\ UNCHANGED <<corpusVars, pc, where, names, todo, held, inflight, done>>
        /\ faults' \in Nat /\ writer # "idle" /\ pc = "files" /\ inflight \in Items
        /\ reported' = reported
    BY DEF WriterDeletes, WriterAdds, WriterMerges, WriterFails, Fault, progress, counts,
           BInv, TInv, JobSound
  <1>2. CASE where = "live"
    <2>1. staged' = staged
      BY <1>2 DEF WriterDeletes, WriterAdds, WriterMerges, WriterFails, Store, dirs
    <2> QED
      BY <1>1, <1>2, <2>1, Elsewhere
  <1>3. CASE where = "staged"
    <2> DEFINE s == inflight.source
    <2>1. Collecting /\ Accounted /\ Underway(inflight) /\ staged.table \in Tables /\ s \in Sources
      BY <1>1, <1>3 DEF BInv, Collecting, TInv, JobSound, Building, Dir, Items
    <2>2. s \notin SourcesOf(done)
      <3>1. \A f \in done : f # inflight.file /\ f \in Files
        BY <2>1 DEF Collecting, Underway, TInv, TypeOK
      <3>2. corpus[inflight.file] # Nothing /\ inflight.file \in Files
        BY <1>1, <2>1 DEF Underway, Collecting, TInv, JobSound, Present
      <3> QED
        BY <2>1, <3>1, <3>2 DEF SourcesOf, Underway, TInv, OneFileEach
    <2>3. SourcesOf(done)' = SourcesOf(done)
      BY <1>1 DEF SourcesOf, corpusVars
    <2>4. /\ held # Nothing => Underway(held)'
          /\ Underway(inflight)'
      BY <1>1, <2>1 DEF Collecting, Underway, corpusVars
    <2>5. Accepted(staged.checkpoint, Present) /\ staged.checkpoint # Nothing =>
              s \notin SourcesOf(staged.checkpoint.done)
      BY <2>1, <2>2 DEF Collecting, SourcesOf
    <2>6. ASSUME NEW t \in Tables, Store([Dir EXCEPT !.table = t]),
                 \A x : x # s /\ x \in staged.table => x \in t,
                 writer' = "added" => s \in t,
                 writer' \notin {"merged", "failed"}, writer # "merged",
                 entries' = entries
          PROVE  BInv'
      <3>1. staged'.table = t /\ staged'.checkpoint = staged.checkpoint
        <4>1. staged' = [staged EXCEPT !.table = t]
          BY <1>3, <2>6 DEF Store, Dir
        <4> QED
          BY <4>1 DEF TInv, Shape
      <3>2. Accepted(staged.checkpoint, Present)' => Accepted(staged.checkpoint, Present)
        BY <1>1, <3>1 DEF Accepted, Present, corpusVars
      <3>3. staged.checkpoint # Nothing => Backed(staged.checkpoint, staged.table)'
        <4>1. SUFFICES ASSUME staged.checkpoint # Nothing
                       PROVE  Backed(staged.checkpoint, staged.table)'
          OBVIOUS
        <4>2. Backed(staged.checkpoint, staged.table)
          BY <4>1 DEF BInv
        <4>3. SourcesOf(staged.checkpoint.done)' = SourcesOf(staged.checkpoint.done)
          BY <1>1, <3>1 DEF SourcesOf, corpusVars
        <4> QED
          BY <1>1, <2>5, <2>6, <3>1, <3>2, <4>1, <4>2, <4>3 DEF Backed, corpusVars
      <3>4. Collecting'
        BY <1>1, <2>1, <2>2, <2>3, <2>4, <2>6, <3>1, <3>2 DEF Collecting
      <3>5. Accounted'
        BY <1>1, <2>1, <2>3, <2>6 DEF Accounted, WriterDeletes, WriterAdds, WriterMerges, WriterFails
      <3> QED
        BY <1>1, <3>1, <3>3, <3>4, <3>5 DEF BInv, Finished
    <2>7. CASE WriterDeletes \/ WriterAdds
      <3>1. staged.table \ {s} \in Tables /\ staged.table \cup {s} \in Tables
        BY <2>1 DEF Tables
      <3>2. CASE WriterDeletes
        BY <1>3, <2>6, <3>1, <3>2 DEF WriterDeletes, Dir, progress
      <3>3. CASE WriterAdds
        BY <1>3, <2>6, <3>1, <3>3 DEF WriterAdds, Dir, progress
      <3> QED
        BY <2>7, <3>2, <3>3
    <2>8. CASE WriterMerges \/ WriterFails
      <3>1. staged' = staged /\ entries \subseteq entries' /\ writer' \in {"merged", "failed"}
        BY <2>8 DEF WriterMerges, WriterFails, dirs
      <3>2. writer' = "merged" => s \in staged.table /\ s \in entries'
        BY <2>1, <2>8 DEF WriterMerges, WriterFails, Collecting
      <3>3. "write" \notin Faults => writer' = "merged" /\ entries' = entries \cup {s}
                                     /\ writer # "merged"
        BY <2>8 DEF WriterMerges, WriterFails, Fault
      <3>4. Accepted(staged.checkpoint, Present)' => Accepted(staged.checkpoint, Present)
        BY <1>1, <3>1 DEF Accepted, Present, corpusVars
      <3>5. Collecting'
        BY <1>1, <2>1, <2>3, <2>4, <3>1, <3>2, <3>4 DEF Collecting
      <3>6. Accounted'
        BY <1>1, <2>1, <2>3, <3>1, <3>3 DEF Accounted
      <3>7. staged.checkpoint # Nothing => Backed(staged.checkpoint, staged.table)'
        BY <1>1, <3>1, BackedKept DEF BInv
      <3> QED
        BY <1>1, <3>1, <3>5, <3>6, <3>7 DEF BInv, Finished
    <2> QED
      BY <2>7, <2>8
  <1> QED
    BY <1>2, <1>3 DEF TInv, TypeOK

\* The end of a build, up to its publication.
LEMMA FinishBacks ==
    ASSUME TInv, BInv, WriteManifest \/ Unlink \/ UnlinkFails \/ End
    PROVE  BInv'
  <1>1. /\ UNCHANGED <<corpusVars, where, loop, progress>> /\ faults' \in Nat
        /\ pc \in {"manifest", "unlink", "end"} /\ pc' \in {"unlink", "end", "publish"}
    BY DEF WriteManifest, Unlink, UnlinkFails, End, Fault, counts, BInv
  <1>2. CASE where = "live"
    <2>1. staged' = staged
      BY <1>2 DEF WriteManifest, Unlink, UnlinkFails, End, Store, dirs
    <2> QED
      BY <1>1, <1>2, <2>1, Elsewhere
  <1>3. CASE where = "staged"
    <2>1. Collecting /\ Accounted /\ Finished
      BY <1>1, <1>3 DEF BInv
    <2>2. SourcesOf(done)' = SourcesOf(done) /\ Accounted'
      BY <1>1, <2>1 DEF Accounted, SourcesOf, corpusVars, loop, progress
    <2>3. /\ staged'.table = staged.table
          /\ staged'.checkpoint # Nothing => staged'.checkpoint = staged.checkpoint
          /\ pc' \in {"unlink", "end", "publish"} => staged'.manifest = entries
          /\ pc' \in {"end", "publish"} /\ staged'.checkpoint # Nothing =>
                 "unlink" \in Faults /\ faults' > 0
      <3>1. CASE WriteManifest
        <4>1. staged' = [staged EXCEPT !.manifest = entries] /\ pc' = "unlink"
          BY <1>3, <3>1 DEF WriteManifest, Store, Dir
        <4> QED
          BY <4>1 DEF TInv, Shape
      <3>2. CASE Unlink
        <4>1. staged' = [staged EXCEPT !.checkpoint = Nothing] /\ pc = "unlink"
          BY <1>3, <3>2 DEF Unlink, Store, Dir
        <4>2. staged'.table = staged.table /\ staged'.manifest = staged.manifest
              /\ staged'.checkpoint = Nothing
          BY <4>1 DEF TInv, Shape
        <4> QED
          BY <2>1, <4>1, <4>2 DEF Finished
      <3>3. CASE UnlinkFails
        BY <2>1, <3>3 DEF UnlinkFails, Fault, BInv, Finished, dirs
      <3>4. CASE End
        BY <2>1, <3>4 DEF End, Finished, dirs, counts
      <3> QED
        BY <3>1, <3>2, <3>3, <3>4
    <2>4. staged'.checkpoint # Nothing => Backed(staged.checkpoint, staged.table)'
      BY <1>1, <2>3, BackedKept DEF BInv
    <2>5. staged'.checkpoint # Nothing /\ Accepted(staged.checkpoint, Present)' =>
              Accepted(staged.checkpoint, Present)
      BY <1>1, <2>3 DEF Accepted, Present, corpusVars
    <2>6. todo' = {} /\ held' = Nothing /\ writer' = "idle"
      BY <1>1, <2>1 DEF Finished, loop
    <2>7. Collecting'
      BY <1>1, <2>1, <2>2, <2>3, <2>5, <2>6 DEF Collecting, loop, progress
    <2> QED
      BY <1>1, <2>2, <2>3, <2>4, <2>6, <2>7 DEF BInv, Finished, progress
  <1> QED
    BY <1>2, <1>3 DEF TInv, TypeOK

\* A failed publication leaves no checkpoint beside a table that is gone.
LEMMA EndBacks ==
    ASSUME TInv, BInv, Apart,
           \/ EndsHere \/ Publish \/ PublishFails \/ Cancel \/ ReplaceFails \/ Crash
           \/ PreflightFails
    PROVE  BInv'
  <1>1. UNCHANGED corpusVars /\ faults' \in Nat
    BY DEF EndsHere, Publish, PublishFails, Cancel, ReplaceFails, Crash, PreflightFails,
           Fault, counts, BInv
  <1>2. NoDir.checkpoint = Nothing
    BY DEF NoDir
  <1>3. CASE EndsHere \/ ReplaceFails \/ Crash
    BY <1>1, <1>3, Elsewhere DEF EndsHere, ReplaceFails, Crash, Gone, dirs
  <1>4. CASE Publish \/ Cancel
    BY <1>1, <1>2, <1>4 DEF Publish, Cancel, Gone, BInv
  <1>5. CASE PublishFails
    <2>1. staged.checkpoint = Nothing
      <3>1. pc = "publish" /\ where = "staged" /\ Finished
        BY <1>5 DEF PublishFails, TInv, JobSound, BInv
      <3>2. "publish" \in Faults /\ faults < MaxFaults
        BY <1>5 DEF PublishFails, Fault
      <3> QED
        BY <3>1, <3>2, BuildBounds DEF Finished, Apart, BInv
    <2>2. PICK moved \in {{}, {"table"}, {"table", "manifest"}} :
              staged' = [part \in DOMAIN staged |-> IF part \in moved THEN Nothing ELSE staged[part]]
      BY <1>5 DEF PublishFails
    <2>3. staged'.checkpoint = Nothing
      BY <2>1, <2>2 DEF TInv, Shape
    <2> QED
      BY <1>1, <1>5, <2>3 DEF PublishFails, Gone, BInv
  <1>6. CASE PreflightFails
    <2>1. pc' = "idle"
      BY <1>6 DEF PreflightFails
    <2>2. staged'.checkpoint # Nothing => staged' = staged
      BY <1>2, <1>6 DEF PreflightFails
    <2>3. staged'.checkpoint # Nothing => Backed(staged.checkpoint, staged.table)'
      BY <1>1, <2>2, BackedKept DEF BInv
    <2> QED
      BY <1>1, <2>1, <2>3 DEF BInv
  <1> QED
    BY <1>3, <1>4, <1>5, <1>6

\* Jobs on the live directory do not matter.
LEMMA LiveBacks ==
    ASSUME TInv, BInv,
           \/ \E rs \in SUBSET Sources : StartFirst(rs) \/ StartIncremental(rs)
           \/ ReplaceDeletes \/ ReplaceAdds \/ DeleteMissing \/ UpdateManifest
    PROVE  BInv'
  <1>1. where' = "live" /\ UNCHANGED <<corpusVars, staged, faults>>
    BY DEF StartFirst, StartIncremental, ReplaceDeletes, ReplaceAdds, DeleteMissing,
           UpdateManifest, Gone, Store, TInv, JobSound, dirs, counts
  <1> QED
    BY <1>1, Elsewhere DEF BInv

\* Every step preserves the invariant of the checkpoint.
LEMMA BStep == Overwrites = FALSE /\ Apart /\ TInv /\ BInv /\ [Next]_vars => BInv'
  <1> SUFFICES ASSUME Overwrites = FALSE, Apart, TInv, BInv, [Next]_vars PROVE BInv'
    OBVIOUS
  <1>1. CASE \E f \in Files : Remove(f) \/ Discard(f) \/ \E s \in Sources : Ingest(f, s)
    BY <1>1, CorpusBacks
  <1>2. CASE JobStep
    <2>1. CASE \E rs \in (SUBSET Sources) \ {{}} : StartFirst(rs) \/ StartIncremental(rs)
      BY <2>1, LiveBacks
    <2>2. CASE ~ \E rs \in (SUBSET Sources) \ {{}} : StartFirst(rs) \/ StartIncremental(rs)
      BY <1>2, <2>2, StartBacks, PrepareBacks, QueueBacks, FlushBacks, WriterBacks, FinishBacks,
         EndBacks, LiveBacks DEF JobStep
    <2> QED
      BY <2>1, <2>2
  <1>3. CASE Crash
    BY <1>3, EndBacks
  <1>4. CASE UNCHANGED vars
    <2>1. UNCHANGED <<corpusVars, staged, pc, where, loop, progress, faults>>
      BY <1>4 DEF vars, dirs, counts
    <2>2. Accepted(staged.checkpoint, Present)' => Accepted(staged.checkpoint, Present)
      BY <2>1 DEF Accepted, Present, corpusVars
    <2>3. Collecting => Collecting'
      BY <2>1, <2>2 DEF Collecting, Underway, SourcesOf, corpusVars, loop, progress
    <2>4. Accounted /\ Finished => (Accounted /\ Finished)'
      BY <2>1 DEF Accounted, Finished, SourcesOf, corpusVars, loop, progress
    <2>5. staged.checkpoint # Nothing => Backed(staged.checkpoint, staged.table)'
      BY <2>1, BackedKept DEF BInv
    <2> QED
      BY <2>1, <2>3, <2>4, <2>5 DEF BInv
  <1> QED
    BY <1>1, <1>2, <1>3, <1>4 DEF Next

-----------------------------------------------------------------------------
(* An incremental job.                                                     *)

\* The files done so far have their rows, and only those with records have.
Replacing ==
    /\ SourcesOf(names) \subseteq requested
    /\ held # Nothing => /\ held.file \in todo /\ held.source = corpus[held.file]
                         /\ held.source \notin live.table
    /\ \A f \in names \ todo : corpus[f] \in live.table <=> corpus[f] \notin Blank
    /\ pc = "update" => todo = {} /\ live.table \cap requested = SourcesOf(names) \ Blank

RInv == crashes \in Nat /\ (pc \in {"replace", "update"} => Replacing)

\* Rows are replaced one source at a time.
LEMMA ReplaceRows ==
    ASSUME TInv, RInv, ReplaceDeletes \/ ReplaceAdds \/ DeleteMissing
    PROVE  RInv'
  <1>1. /\ UNCHANGED <<corpusVars, requested, names>> /\ crashes' = crashes
        /\ pc = "replace" /\ where = "live" /\ Replacing
        /\ live.table \in Tables /\ names \subseteq Files /\ todo \subseteq names
    <2>1. pc = "replace" /\ UNCHANGED <<corpusVars, requested, names>> /\ crashes' = crashes
      BY DEF ReplaceDeletes, ReplaceAdds, DeleteMissing, loop, counts
    <2> QED
      BY <2>1 DEF RInv, TInv, TypeOK, JobSound
  <1>2. SourcesOf(names)' = SourcesOf(names)
    BY <1>1 DEF SourcesOf, corpusVars
  <1>3. \A f, g \in names : f # g => corpus[f] # corpus[g]
    BY <1>1 DEF TInv, JobSound, Present, OneFileEach
  <1>4. ASSUME NEW t \in Tables, Store([Dir EXCEPT !.table = t]) PROVE live'.table = t
    <2>1. live' = [live EXCEPT !.table = t]
      BY <1>1, <1>4 DEF Store, Dir
    <2> QED
      BY <2>1 DEF TInv, Shape
  <1>5. CASE ReplaceDeletes
    <2> DEFINE f == First(todo)
               t == live.table \ {held'.source}
    <2>1. f \in todo /\ held' = Read(f) /\ pc' = pc /\ todo' = todo
      BY <1>1, <1>5, FirstIsIn DEF ReplaceDeletes, loop
    <2>2. held'.file = f /\ held'.source = corpus[f]
      BY <2>1 DEF Read
    <2>3. live'.table = t
      <3>1. t \in Tables
        BY <1>1 DEF Tables
      <3>2. Store([Dir EXCEPT !.table = t])
        BY <1>1, <1>5 DEF ReplaceDeletes, Dir
      <3> HIDE DEF t
      <3> QED
        BY <1>4, <3>1, <3>2
    <2> HIDE DEF f
    <2>4. \A g \in names \ todo : corpus[g] # corpus[f]
      BY <1>1, <1>3, <2>1
    <2> QED
      BY <1>1, <1>2, <2>1, <2>2, <2>3, <2>4 DEF RInv, Replacing, corpusVars
  <1>6. CASE ReplaceAdds
    <2> DEFINE t == live.table \cup ({held.source} \ Blank)
    <2>1. held # Nothing /\ held' = Nothing /\ todo' = todo \ {held.file} /\ pc' = pc
      BY <1>6 DEF ReplaceAdds
    <2>2. live'.table = t
      <3>1. t \in Tables
        BY <1>1, <2>1 DEF Tables, TInv, TypeOK
      <3>2. Store([Dir EXCEPT !.table = t])
        BY <1>1, <1>6 DEF ReplaceAdds, Dir
      <3> HIDE DEF t
      <3> QED
        BY <1>4, <3>1, <3>2
    <2>3. \A g \in names \ todo : corpus[g] # held.source
      BY <1>1, <1>3, <2>1 DEF Replacing
    <2> QED
      BY <1>1, <1>2, <2>1, <2>2, <2>3 DEF RInv, Replacing, corpusVars
  <1>7. CASE DeleteMissing
    <2> DEFINE t == live.table \ (requested \ SourcesOf(names))
    <2>1. todo = {} /\ todo' = {} /\ held' = held /\ pc' = "update"
      BY <1>7 DEF DeleteMissing, loop
    <2>2. live'.table = t
      <3>1. t \in Tables
        BY <1>1 DEF Tables
      <3>2. Store([Dir EXCEPT !.table = t])
        BY <1>1, <1>7 DEF DeleteMissing, Dir
      <3> HIDE DEF t
      <3> QED
        BY <1>4, <3>1, <3>2
    <2>3. live'.table \cap requested = SourcesOf(names) \ Blank
      BY <1>1, <2>1, <2>2 DEF Replacing, SourcesOf
    <2>4. \A f \in names : corpus[f] \in live'.table <=> corpus[f] \notin Blank
      BY <1>1, <2>1, <2>2 DEF Replacing, SourcesOf
    <2> QED
      BY <1>1, <1>2, <2>1, <2>3, <2>4 DEF RInv, Replacing, corpusVars
  <1> QED
    BY <1>5, <1>6, <1>7

\* Every step preserves the invariant of an incremental job.
LEMMA RStep == TInv /\ RInv /\ [Next]_vars => RInv'
  <1> SUFFICES ASSUME TInv, RInv, [Next]_vars PROVE RInv'
    OBVIOUS
  <1>1. ASSUME UNCHANGED <<corpus, live, pc, requested, loop, crashes>> PROVE RInv'
    BY <1>1 DEF RInv, Replacing, SourcesOf, loop
  <1>2. ASSUME NEW f \in Files, Remove(f) \/ Discard(f) PROVE RInv'
    BY <1>2 DEF Remove, Discard, RInv, counts
  <1>3. ASSUME NEW f \in Files, NEW s \in Sources, Ingest(f, s) PROVE RInv'
    <2>1. UNCHANGED <<live, pc, requested, loop, crashes>>
      BY <1>3 DEF Ingest, dirs, counts
    <2>2. pc \in {"replace", "update"} =>
              names \subseteq Present /\ todo \subseteq names /\ f \notin Present
      BY <1>3 DEF Ingest, TInv, JobSound, Present
    <2>3. pc \in {"replace", "update"} => \A g \in names : corpus'[g] = corpus[g]
      BY <1>3, <2>2 DEF Ingest, TInv, TypeOK, Present
    <2>4. pc \in {"replace", "update"} => SourcesOf(names)' = SourcesOf(names)
      BY <2>1, <2>3 DEF SourcesOf, loop
    <2> QED
      BY <2>1, <2>2, <2>3, <2>4 DEF RInv, Replacing, loop
  <1>4. ASSUME NEW rs \in SUBSET Sources, StartIncremental(rs) PROVE RInv'
    <2>1. names' = FilesOf(rs) /\ todo' = names' /\ held' = Nothing /\ pc' = "replace"
          /\ requested' = rs /\ UNCHANGED <<corpus, crashes>>
      BY <1>4 DEF StartIncremental, corpusVars
    <2>2. SourcesOf(names)' \subseteq rs
      BY <2>1 DEF SourcesOf, FilesOf
    <2> QED
      BY <2>1, <2>2 DEF RInv, Replacing
  <1>5. CASE ReplaceDeletes \/ ReplaceAdds \/ DeleteMissing
    BY <1>5, ReplaceRows
  <1>6. CASE \/ StartFull \/ \E rs \in SUBSET Sources : StartFirst(rs)
             \/ EndsHere \/ Publish \/ PublishFails \/ Cancel \/ ReplaceFails \/ UpdateManifest
             \/ Crash
    BY <1>6 DEF StartFull, StartFirst, Begin, EndsHere, Publish, PublishFails, Cancel,
                ReplaceFails, UpdateManifest, Crash, Fault, Gone, RInv, counts
  <1>7. CASE \/ PreflightFails \/ SkipBlank \/ Prepare \/ ReadFails \/ Queue
             \/ WriterDeletes \/ WriterAdds \/ WriterMerges \/ WriterFails
             \/ Flush \/ WriteManifest \/ Unlink \/ UnlinkFails \/ End
    <2>1. crashes' = crashes /\ pc' \notin {"replace", "update"}
      BY <1>7 DEF PreflightFails, SkipBlank, Prepare, ReadFails, Queue, WriterDeletes,
                  WriterAdds, WriterMerges, WriterFails, Flush, WriteManifest, Unlink,
                  UnlinkFails, End, Fault, counts, TInv, JobSound
    <2> QED
      BY <2>1 DEF RInv
  <1>8. CASE JobStep
    <2>1. CASE \E rs \in (SUBSET Sources) \ {{}} : StartFirst(rs) \/ StartIncremental(rs)
      BY <1>4, <1>6, <2>1
    <2>2. CASE ~ \E rs \in (SUBSET Sources) \ {{}} : StartFirst(rs) \/ StartIncremental(rs)
      BY <1>5, <1>6, <1>7, <1>8, <2>2 DEF JobStep
    <2> QED
      BY <2>1, <2>2
  <1>9. CASE UNCHANGED vars
    BY <1>1, <1>9 DEF vars, corpusVars, dirs, counts
  <1> QED
    BY <1>2, <1>3, <1>6, <1>8, <1>9 DEF Next

-----------------------------------------------------------------------------
(* The theorems.                                                           *)

\* The state of a build is always well-formed: its files are files that are
\* there, no source is ever claimed by two of them, and what it writes to has a
\* table.
THEOREM TypeCorrect == Spec => []TInv
  <1> QED
    BY InitType, TStep, PTL DEF Spec

\* The code's claim for its checkpoint, "a file recorded in the checkpoint is
\* guaranteed to have its LanceDB rows + manifest entry": it holds with any
\* number of crashes and failed steps, if no file is overwritten while a build
\* reads it and a publication and the removal of the checkpoint never both fail.
THEOREM CheckpointTrusted ==
    ASSUME Overwrites = FALSE, Apart
    PROVE  Spec => []BuildSound
  <1>1. Init => BInv
    BY DEF Init, BInv, NoDir
  <1>2. TInv /\ BInv => BuildSound
    BY DEF TInv, BInv, BuildSound, CheckpointTrue, Resumable, Backed
  <1>3. TInv /\ BInv /\ [Next]_vars => BInv'
    BY BStep
  <1> QED
    BY <1>1, <1>2, <1>3, TypeCorrect, PTL DEF Spec

\* A build that is published has collected its files.
LEMMA PublishedCollected ==
    ASSUME TInv, BInv, Next, Published
    PROVE  /\ live'.table = staged.table /\ live'.manifest = entries
           /\ SourcesOf(done) \ Blank \subseteq staged.table
           /\ names \subseteq done \cup reported
           /\ "write" \notin Faults => entries \subseteq SourcesOf(done) \ Blank
  <1>1. Publish
    <2>1. pc = "publish" /\ pc' = "idle" /\ live' # live
      BY DEF Published
    <2>2. ~ Crash
      BY <2>1 DEF Crash, dirs
    <2>3. ~ \E f \in Files : Remove(f) \/ Discard(f) \/ \E s \in Sources : Ingest(f, s)
      BY <2>1 DEF Remove, Discard, Ingest
    <2>4. JobStep
      BY <2>2, <2>3 DEF Next
    <2>5. ~ (WriterDeletes \/ WriterAdds \/ WriterMerges \/ WriterFails)
      BY <2>1 DEF WriterDeletes, WriterAdds, WriterMerges, WriterFails, TInv, JobSound
    <2>6. ~ (PublishFails \/ Cancel)
      BY <2>1 DEF PublishFails, Cancel
    <2> QED
      BY <2>1, <2>4, <2>5, <2>6
      DEF JobStep, StartFull, PreflightFails, SkipBlank, Prepare, ReadFails, Queue, Flush,
          WriteManifest, Unlink, UnlinkFails, End, EndsHere, StartFirst, StartIncremental,
          ReplaceDeletes, ReplaceAdds, ReplaceFails, DeleteMissing, UpdateManifest
  <1>2. pc = "publish" /\ where = "staged" /\ Collecting /\ Accounted /\ Finished
    BY <1>1 DEF Publish, TInv, JobSound, BInv
  <1>3. live'.table = staged.table /\ live'.manifest = staged.manifest
    BY <1>1 DEF Publish, TInv, Shape
  <1> QED
    BY <1>2, <1>3 DEF Collecting, Accounted, Finished

\* What _publish_staged_index makes live has the rows of every file the build
\* found whose failure it did not report, also when the build was resumed, any
\* number of times.
THEOREM PublishedRows ==
    ASSUME Overwrites = FALSE, Apart
    PROVE  Spec => [][Published => \A f \in names \ reported :
                                       corpus[f] \in live'.table \cup Blank]_vars
  <1>1. Init => BInv
    BY DEF Init, BInv, NoDir
  <1>2. TInv /\ BInv /\ [Next]_vars => BInv'
    BY BStep
  <1>3. TInv /\ BInv /\ [Next]_vars =>
            [Published => \A f \in names \ reported : corpus[f] \in live'.table \cup Blank]_vars
    <2> SUFFICES ASSUME TInv, BInv, Next, Published
                 PROVE  \A f \in names \ reported : corpus[f] \in live'.table \cup Blank
      OBVIOUS
    <2> QED
      BY PublishedCollected DEF SourcesOf
  <1> QED
    BY <1>1, <1>2, <1>3, TypeCorrect, PTL DEF Spec

\* When no write fails, its manifest is exact too: it claims no source without
\* rows. (merge_records, which a failing write may have done, adds to an entry.)
THEOREM PublishedWhole ==
    ASSUME Overwrites = FALSE, Apart, "write" \notin Faults
    PROVE  Spec => PublishedComplete
  <1>1. Init => BInv
    BY DEF Init, BInv, NoDir
  <1>2. TInv /\ BInv /\ [Next]_vars => BInv'
    BY BStep
  <1>3. TInv /\ BInv /\ [Next]_vars =>
            [Published => /\ \A f \in names \ reported : corpus[f] \in live'.table \cup Blank
                          /\ live'.manifest \subseteq live'.table]_vars
    <2> SUFFICES ASSUME TInv, BInv, Next, Published
                 PROVE  /\ \A f \in names \ reported : corpus[f] \in live'.table \cup Blank
                        /\ live'.manifest \subseteq live'.table
      OBVIOUS
    <2>1. \A f \in names \ reported : corpus[f] \in live'.table \cup Blank
      BY PublishedCollected DEF SourcesOf
    <2>2. live'.manifest \subseteq live'.table
      BY PublishedCollected
    <2> QED
      BY <2>1, <2>2
  <1> QED
    BY <1>1, <1>2, <1>3, TypeCorrect, PTL DEF Spec, PublishedComplete

\* An incremental job that ends well leaves rows and entries of the sources it
\* was for exactly if they have a file with records, whatever the corpus gained
\* meanwhile and whatever failed before.
THEOREM IncrementalIsExact == Spec => IncrementalExact
  <1>1. Init => RInv
    BY DEF Init, RInv
  <1>2. TInv /\ RInv /\ [Next]_vars =>
            [pc = "update" /\ pc' = "idle" /\ crashes' = crashes =>
                 LET found == SourcesOf(names) \ Blank IN
                 /\ live'.table \cap requested = found
                 /\ live'.manifest \cap requested = found
                 /\ live'.manifest \ requested = live.manifest \ requested]_vars
    <2> SUFFICES ASSUME TInv, RInv, Next, pc = "update", pc' = "idle", crashes' = crashes
                 PROVE  LET found == SourcesOf(names) \ Blank IN
                        /\ live'.table \cap requested = found
                        /\ live'.manifest \cap requested = found
                        /\ live'.manifest \ requested = live.manifest \ requested
      OBVIOUS
    <2>1. UpdateManifest
      <3>1. ~ Crash
        BY DEF Crash, RInv
      <3>2. ~ \E f \in Files : Remove(f) \/ Discard(f) \/ \E s \in Sources : Ingest(f, s)
        BY DEF Remove, Discard, Ingest
      <3>3. ~ (Cancel \/ WriterDeletes \/ WriterAdds \/ WriterMerges \/ WriterFails)
        BY DEF Cancel, WriterDeletes, WriterAdds, WriterMerges, WriterFails, TInv, JobSound
      <3> QED
        BY <3>1, <3>2, <3>3
        DEF Next, JobStep, StartFull, PreflightFails, SkipBlank, Prepare, ReadFails, Queue, Flush,
            WriteManifest, Unlink, UnlinkFails, End, EndsHere, Publish, PublishFails, StartFirst,
            StartIncremental, ReplaceDeletes, ReplaceAdds, ReplaceFails, DeleteMissing
    <2> DEFINE m == (live.manifest \ requested) \cup (SourcesOf(names) \ Blank)
    <2>2. where = "live" /\ Replacing
      BY DEF TInv, JobSound, RInv
    <2>3. live' = [live EXCEPT !.manifest = m]
      BY <2>1, <2>2 DEF UpdateManifest, Store, Dir
    <2> HIDE DEF m
    <2>4. live'.table = live.table /\ live'.manifest = m
      BY <2>3 DEF TInv, Shape
    <2> QED
      BY <2>2, <2>4 DEF Replacing, m
  <1> QED
    BY <1>1, <1>2, RStep, TypeCorrect, PTL DEF Spec, IncrementalExact
=============================================================================
