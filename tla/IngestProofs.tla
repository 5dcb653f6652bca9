---------------------------- MODULE IngestProofs ----------------------------
(***************************************************************************)
(* Theorems about Ingest, for any files, contents, engines, workers and    *)
(* bounds.                                                                 *)
(*                                                                         *)
(* TInv holds whatever happens: the types, what a worker at some step has, *)
(* and that nobody else has its file or writes under its name. QInv adds   *)
(* what the resume checks go by: a hash or a stamp of a PDF as it is now   *)
(* is of this PDF. NInv is about the names, which the coming and going of  *)
(* namesakes changes, and FInv about the manifest of figures. Each but the *)
(* first names the incidents of Ingest that it does not survive.           *)
(***************************************************************************)
EXTENDS Ingest, TLAPS

-----------------------------------------------------------------------------
(* The invariants.                                                         *)

\* The steps of a worker, the ones after it has the hash, the stamp and the content,
\* and the phases of a run.
Steps == {"idle", "taken", "hashed", "new", "clean", "read", "parsed", "written", "hung"}
Hashed == {"hashed", "new", "clean", "read", "parsed", "written", "hung"}
Statted == {"new", "clean", "read", "parsed", "written", "hung"}
Parsed == {"read", "parsed", "written"}
Phases == {"idle", "submitting", "collecting", "serial", "ended"}

\* The records of the state.
Pdfs == [content : Contents, stamp : Nat]
Docs == [of : Contents, hash : Contents, shows : BOOLEAN]
Lines == [hash : Contents, stamp : Nat, file : Files]
Runs == [phase : Phases, inputs : SUBSET Files, queue : SUBSET Files, out : SUBSET Files]
Works == [file : Files \cup {None}, step : Steps, hash : Contents \cup {None},
          stamp : Nat, of : Contents \cup {None}, shows : BOOLEAN]
Batches == [base : SUBSET Contents, now : SUBSET Contents]

\* Every variable has its type.
Types ==
    /\ pdf \in [Files -> Pdfs \cup {None}]
    /\ md \in [Names -> Docs \cup {None}] /\ entry \in [Names -> Lines \cup {None}]
    /\ manifest \in SUBSET Contents /\ images \in SUBSET Contents
    /\ run \in Runs
    /\ report \in [Files -> {"none", "skipped", "failed", "processed"}]
    /\ result \in [Files -> {"none", "unlisted", "failed", "processed"}]
    /\ work \in [Workers -> Works] /\ batch \in [Workers -> Batches \cup {None}]
    /\ count \in [runs : Nat, edits : Nat, faults : Nat]

\* A worker that has a file.
Busy(w) == work[w].step # "idle"

\* A worker has what its step says, of a file that is out and not settled.
Working ==
    \A w \in Workers :
        /\ ~Busy(w) => work[w] = Idle
        /\ Busy(w) => work[w].file \in run.out \ run.queue /\ result[work[w].file] = "none"
        /\ work[w].hash # None <=> work[w].step \in Hashed
        /\ work[w].step \in Parsed => work[w].of # None
        /\ work[w].step = "read" /\ work[w].shows => batch[w] # None

\* What is queued or settled is out, and two workers have two files.
Queued ==
    /\ run.queue \subseteq run.out /\ run.out \subseteq run.inputs
    /\ \A f \in run.queue : result[f] = "none"
    /\ \A f \in Files : result[f] # "none" => f \in run.out
    /\ run.phase = "ended" => run.out = {}
    /\ \A v, w \in Workers : v # w /\ Busy(v) /\ Busy(w) => work[v].file # work[w].file

\* Stamps are in the past, and an entry is of Markdown that was written before it.
Stamped ==
    /\ \A f \in Files : pdf[f] # None => pdf[f].stamp <= count.edits
    /\ \A n \in Names : entry[n] # None => entry[n].stamp <= count.edits
    /\ \A w \in Workers : work[w].stamp <= count.edits

\* An entry has its Markdown, and a worker that has written finds what it wrote.
Wrote ==
    /\ \A n \in Names : entry[n] # None => md[n] # None
    /\ \A w \in Workers : work[w].step = "written" =>
          md[NameFor(w)] = [of |-> work[w].of, hash |-> work[w].hash, shows |-> work[w].shows]

\* What holds whatever happens.
TInv == Types /\ Working /\ Queued /\ Stamped /\ Wrote

-----------------------------------------------------------------------------
(* Names.                                                                  *)

\* A name is one of Names.
LEMMA NameIn ==
    ASSUME NEW f \in Files, NEW I
    PROVE  NameOf(f, I) \in Names
BY DEF NameOf, Names

\* Two files of a run have two names: the second namesake of a nested file gets a
\* digest, and two that are not nested have two stems.
LEMMA NameDiffer ==
    ASSUME NEW I \in SUBSET Files, NEW f \in I, NEW g \in I, NameOf(f, I) = NameOf(g, I)
    PROVE  f = g
<1>1. CASE f \notin Nested /\ g \notin Nested
  <2>1. Stem(f) = Stem(g)
    BY <1>1 DEF NameOf
  <2> QED BY <1>1, <2>1, IngestNames
<1>2. CASE f \in Nested /\ g \notin Nested
  <2>1. NameOf(g, I) = <<Stem(g), None>>
    BY <1>2 DEF NameOf
  <2>2. NameOf(f, I) = <<Stem(f), None>>
    BY <2>1, IngestNames DEF NameOf
  <2>3. Stem(g) = Stem(f)
    BY <2>1, <2>2
  <2> QED BY <1>2, <2>2, <2>3, IngestNames DEF NameOf
<1>3. CASE f \notin Nested /\ g \in Nested
  <2>1. NameOf(f, I) = <<Stem(f), None>>
    BY <1>3 DEF NameOf
  <2>2. NameOf(g, I) = <<Stem(g), None>>
    BY <2>1, IngestNames DEF NameOf
  <2>3. <<Stem(g), None>> = <<Stem(f), None>>
    BY <2>1, <2>2, Zenon
  <2>4. Stem(g) = Stem(f)
    BY <2>3
  <2> QED BY <1>3, <2>2, <2>4, IngestNames DEF NameOf
<1>4. CASE f \in Nested /\ g \in Nested
  <2>1. Stem(g) = Stem(f)
    BY DEF NameOf
  <2> QED BY <1>4, <2>1, IngestNames DEF NameOf
<1> QED BY <1>1, <1>2, <1>3, <1>4

-----------------------------------------------------------------------------
(* Steps.                                                                  *)

\* One action of the module.
Act ==
    \/ \E pool \in BOOLEAN : Start(pool)
    \/ \E w \in Workers : Take(w) \/ HashFile(w) \/ StatFile(w) \/ Clean(w) \/ Read(w)
                          \/ Commit(w) \/ WriteMarkdown(w) \/ WriteEntry(w)
                          \/ ReadFails(w) \/ CommitFails(w) \/ Hang(w)
    \/ Submitted \/ Finished \/ Timeout \/ TimeoutSlow \/ PoolBreaks \/ Fallback \/ Crash
    \/ \E f \in Files : Collect(f)
    \/ \E f \in Files, c \in Contents \cup {None} : Edit(f, c)
    \/ UNCHANGED vars

\* A step is one of these actions.
LEMMA Acts ==
    ASSUME [Next]_vars PROVE Act
BY DEF Next, Act, Step, Drain

\* An idle worker is a worker.
LEMMA IdleIs == Idle \in Works
BY DEF Idle, Works, Steps

\* A step keeps the types.
LEMMA TypesStep ==
    ASSUME Types, Working, [Next]_vars PROVE Types'
<1> USE IdleIs
<1> USE DEF Types
<1>1. CASE \E pool \in BOOLEAN : Start(pool)
  <2> DEFINE pending == {f \in Present : ~Unchanged(f, Present)}
  <2>1. Present \in SUBSET Files /\ pending \in SUBSET Files
    BY DEF Present
  <2> HIDE DEF pending
  <2>2. Listed(Present \ pending) \in [Files -> {"none", "skipped", "failed", "processed"}]
    BY DEF Listed
  <2>3. NoReport \in [Files -> {"none", "unlisted", "failed", "processed"}]
    BY DEF NoReport
  <2>4. PICK pool \in BOOLEAN : Start(pool)
    BY <1>1
  <2>5. /\ run' = [phase |-> IF pool THEN "submitting" ELSE "serial", inputs |-> Present, queue |-> pending, out |-> pending]
        /\ report' = Listed(Present \ pending) /\ result' = NoReport
        /\ work' = [w \in Workers |-> Idle] /\ batch' = [w \in Workers |-> None]
        /\ UNCHANGED <<pdf, md, entry, manifest, images>>
        /\ count' = [count EXCEPT !["runs"] = @ + 1]
    BY <2>4 DEF Start, pending, corpus, Tick
  <2>7. count' \in [runs : Nat, edits : Nat, faults : Nat]
    BY <2>5
  <2>6. run' \in Runs
    BY <2>1, <2>5 DEF Runs, Phases
  <2> QED BY <2>2, <2>3, <2>5, <2>6, <2>7
<1>2. ASSUME NEW w \in Workers, Take(w) PROVE Types'
  <2>1. PICK f \in run.queue :
            /\ run' = [run EXCEPT !.queue = @ \ {f}]
            /\ work' = [work EXCEPT ![w] = [Idle EXCEPT !.file = f, !.step = "taken"]]
            /\ UNCHANGED <<pdf, corpus, report, result, batch, count>>
    BY <1>2 DEF Take
  <2>2. run' \in Runs /\ f \in Files
    BY <2>1 DEF Runs
  <2>3. [Idle EXCEPT !.file = f, !.step = "taken"] \in Works
    BY <2>2 DEF Works, Steps, Idle
  <2> QED BY <2>1, <2>2, <2>3 DEF corpus
<1>3. ASSUME NEW w \in Workers, HashFile(w) PROVE Types'
  BY <1>3 DEF HashFile, Finish, At, Works, Steps, corpus
<1>4. ASSUME NEW w \in Workers, StatFile(w) PROVE Types'
  <2> DEFINE t == IF pdf[work[w].file] = None THEN 0 ELSE pdf[work[w].file].stamp
  <2>1. t \in Nat
    BY <1>4 DEF StatFile, At, Pdfs, Working, Busy, Runs
  <2>2. [work[w] EXCEPT !.stamp = t, !.step = "new"] \in Works
    BY <2>1 DEF Works, Steps
  <2>3. work' \in [Workers -> Works] /\ result' \in [Files -> {"none", "unlisted", "failed", "processed"}]
    BY <1>4, <2>2 DEF StatFile, Finish
  <2> QED BY <1>4, <2>3 DEF StatFile, corpus
<1>5. ASSUME NEW w \in Workers, Clean(w) PROVE Types'
  BY <1>5 DEF Clean, Works, Steps
<1>6. ASSUME NEW w \in Workers, Read(w) PROVE Types'
  BY <1>6 DEF Read, At, Works, Steps, corpus, Batches, Pdfs
<1>7. ASSUME NEW w \in Workers, Commit(w) PROVE Types'
  <2>1. work' \in [Workers -> Works] /\ UNCHANGED <<pdf, md, entry, images, run, report, result, count>>
    BY <1>7 DEF Commit, Works, Steps
  <2>2. work[w].shows => batch[w] # None /\ Merged(batch[w]) \in SUBSET Contents
    BY <1>7 DEF Commit, At, Working, Merged, Batches
  <2>3. manifest' \in SUBSET Contents /\ batch' \in [Workers -> Batches \cup {None}]
    BY <1>7, <2>2 DEF Commit
  <2> QED BY <2>1, <2>3
<1>8. ASSUME NEW w \in Workers, WriteMarkdown(w) PROVE Types'
  <2>1. work' \in [Workers -> Works] /\ UNCHANGED <<pdf, entry, manifest, images, run, report, result, batch, count>>
    BY <1>8 DEF WriteMarkdown, Works, Steps
  <2>2. [of |-> work[w].of, hash |-> work[w].hash, shows |-> work[w].shows] \in Docs
    BY <1>8 DEF WriteMarkdown, At, Working, Works, Docs, Parsed, Hashed
  <2> QED BY <1>8, <2>1, <2>2 DEF WriteMarkdown
<1>9. ASSUME NEW w \in Workers, WriteEntry(w) PROVE Types'
  <2>1. work' \in [Workers -> Works] /\ UNCHANGED <<pdf, md, manifest, images, run, report, batch, count>>
    BY <1>9 DEF WriteEntry, Finish
  <2>2. [hash |-> work[w].hash, stamp |-> work[w].stamp, file |-> work[w].file] \in Lines
    BY <1>9 DEF WriteEntry, At, Working, Works, Lines, Hashed, Busy, Runs
  <2>3. result' \in [Files -> {"none", "unlisted", "failed", "processed"}]
    BY <1>9 DEF WriteEntry, Finish
  <2> QED BY <1>9, <2>1, <2>2, <2>3 DEF WriteEntry
<1>10. ASSUME NEW w \in Workers, ReadFails(w) PROVE Types'
  <2>1. count' \in [runs : Nat, edits : Nat, faults : Nat]
    BY <1>10 DEF ReadFails, Tick
  <2> QED BY <1>10, <2>1 DEF ReadFails, Finish, corpus
<1>11. ASSUME NEW w \in Workers, CommitFails(w) PROVE Types'
  <2>1. count' \in [runs : Nat, edits : Nat, faults : Nat]
    BY <1>11 DEF CommitFails, Tick
  <2>2. work' \in [Workers -> Works]
    <3>1. [work[w] EXCEPT !.shows = FALSE, !.step = "parsed"] \in Works
      BY DEF Works, Steps
    <3> QED BY <1>11, <3>1 DEF CommitFails
  <2> QED BY <1>11, <2>1, <2>2 DEF CommitFails, corpus
<1>12. ASSUME NEW w \in Workers, Hang(w) PROVE Types'
  <2>1. count' \in [runs : Nat, edits : Nat, faults : Nat]
    BY <1>12 DEF Hang, Tick
  <2>2. work' \in [Workers -> Works]
    <3>1. [work[w] EXCEPT !.step = "hung"] \in Works
      BY DEF Works, Steps
    <3> QED BY <1>12, <3>1 DEF Hang
  <2> QED BY <1>12, <2>1, <2>2 DEF Hang, corpus
<1>13. CASE Submitted
  BY <1>13 DEF Submitted, Runs, Phases, corpus
<1>14. CASE Finished
  BY <1>14 DEF Finished, Runs, Phases, corpus
<1>15. CASE Timeout
  BY <1>15 DEF Timeout, Stopped, Runs, corpus
<1>16. CASE TimeoutSlow
  <2>1. count' \in [runs : Nat, edits : Nat, faults : Nat]
    BY <1>16 DEF TimeoutSlow, Tick
  <2>2. run' \in Runs
    BY <1>16 DEF TimeoutSlow, Runs
  <2> QED BY <1>16, <2>1, <2>2 DEF TimeoutSlow, Stopped, corpus
<1>17. CASE PoolBreaks
  BY <1>17 DEF PoolBreaks, Stopped, Runs, corpus, Tick
<1>18. CASE Fallback
  <2>1. count' \in [runs : Nat, edits : Nat, faults : Nat]
    BY <1>18 DEF Fallback, Tick
  <2>2. run' \in Runs
    BY <1>18 DEF Fallback, Runs, Phases
  <2>3. NoReport \in [Files -> {"none", "unlisted", "failed", "processed"}]
    BY DEF NoReport
  <2> QED BY <1>18, <2>1, <2>2, <2>3 DEF Fallback, Stopped, corpus
<1>19. CASE Crash
  BY <1>19 DEF Crash, Stopped, NoRun, NoReport, Runs, Phases, corpus, Tick
<1>20. ASSUME NEW f \in Files, Collect(f) PROVE Types'
  BY <1>20 DEF Collect, Runs, Phases, corpus
<1>21. ASSUME NEW f \in Files, NEW c \in Contents \cup {None}, Edit(f, c) PROVE Types'
  BY <1>21 DEF Edit, corpus, Tick, Pdfs
<1>22. CASE UNCHANGED vars
  BY <1>22 DEF vars, corpus
<1> QED
  BY Acts, <1>1, <1>2, <1>3, <1>4, <1>5, <1>6, <1>7, <1>8, <1>9, <1>10, <1>11, <1>12, <1>13,
     <1>14, <1>15, <1>16, <1>17, <1>18, <1>19, <1>20, <1>21, <1>22 DEF Act

\* A worker that reads a PDF for its figure has a batch then.
LEMMA ReadOpens ==
    ASSUME Types, Working, NEW w \in Workers, Read(w)
    PROVE  \E shows \in BOOLEAN :
            /\ work' = [work EXCEPT ![w].of = pdf[work[w].file].content, ![w].shows = shows, ![w].step = "read"]
            /\ shows => \E o \in Batches : batch' = [batch EXCEPT ![w] = o]
            /\ ~shows => batch' = batch
<1> DEFINE opened == IF batch[w] = None THEN [base |-> manifest, now |-> manifest] ELSE batch[w]
<1>1. PICK shows \in BOOLEAN :
            /\ work' = [work EXCEPT ![w].of = pdf[work[w].file].content, ![w].shows = shows, ![w].step = "read"]
            /\ batch' = IF shows THEN [batch EXCEPT ![w] = [opened EXCEPT !.now = @ \cup {work[w].hash}]] ELSE batch
            /\ images' = IF shows THEN images \cup {work[w].hash} ELSE images
  BY DEF Read, ShowsFigure
<1>2. opened \in Batches
  BY DEF Types, Batches
<1>3. work[w].hash \in Contents
  BY DEF Types, Works, Working, Read, At
<1>4. [opened EXCEPT !.now = @ \cup {work[w].hash}] \in Batches
  <2> HIDE DEF opened
  <2> QED BY <1>2, <1>3 DEF Batches
<1> QED BY <1>1, <1>4

\* A step leaves each worker with what its step says.
LEMMA WorkingStep ==
    ASSUME Types, Working, Queued, [Next]_vars PROVE Working'
<1>1. ASSUME NEW pool \in BOOLEAN, Start(pool) PROVE Working'
  BY <1>1 DEF Start, Working, Busy, Hashed, Parsed, Idle
<1>2. ASSUME NEW w \in Workers, Take(w) PROVE Working'
  BY <1>2 DEF Take, At, Working, Queued, Busy, Hashed, Parsed
<1>3. ASSUME NEW w \in Workers, HashFile(w) PROVE Working'
  <2>1. CASE pdf[work[w].file] = None
    BY <1>3, <2>1 DEF HashFile, At, Finish, Working, Queued, Types, Busy, Hashed, Parsed,
       Idle, Runs
  <2>2. CASE pdf[work[w].file] # None
    <3>1. work' = [work EXCEPT ![w].hash = pdf[work[w].file].content, ![w].step = "hashed"] /\ result' = result
      BY <1>3, <2>2 DEF HashFile
    <3>2. work[w].step = "taken" /\ UNCHANGED <<run, batch>>
      BY <1>3 DEF HashFile, At
    <3>3. pdf[work[w].file].content \in Contents
      BY <2>2, <3>2 DEF Working, Types, Busy, Runs, Pdfs
    <3> QED BY <3>1, <3>2, <3>3 DEF Types, Parsed, Works, Idle
  <2> QED BY <2>1, <2>2
<1>4. ASSUME NEW w \in Workers, StatFile(w) PROVE Working'
  <2>1. work[w].step = "hashed" /\ UNCHANGED <<run, batch>>
    BY <1>4 DEF StatFile, At
  <2>2. CASE Finish(w, "unlisted")
    BY <2>1, <2>2 DEF Finish, Working, Queued, Types, Busy, Hashed, Parsed, Idle
  <2>3. CASE ~Finish(w, "unlisted")
    <3>1. PICK t : work' = [work EXCEPT ![w].stamp = t, ![w].step = "new"] /\ result' = result
      BY <1>4, <2>3 DEF StatFile
    <3> QED BY <2>1, <3>1 DEF Working, Types, Busy, Hashed, Parsed
  <2> QED BY <2>2, <2>3
<1>5. ASSUME NEW w \in Workers, Clean(w) PROVE Working'
  BY <1>5 DEF Clean, At, Working, Busy, Hashed, Parsed
<1>6. ASSUME NEW w \in Workers, Read(w) PROVE Working'
  <2>1. PICK shows \in BOOLEAN :
            /\ work' = [work EXCEPT ![w].of = pdf[work[w].file].content, ![w].shows = shows, ![w].step = "read"]
            /\ shows => \E o \in Batches : batch' = [batch EXCEPT ![w] = o]
            /\ ~shows => batch' = batch
    BY <1>6, ReadOpens
  <2>2. work[w].step = "clean" /\ pdf[work[w].file] # None /\ UNCHANGED <<run, result>>
    BY <1>6 DEF Read, At
  <2>3. pdf[work[w].file].content \in Contents /\ None \notin Batches
    BY <2>2, IngestNames DEF Working, Types, Busy, Runs, Pdfs, Batches
  <2>4. work' \in [Workers -> Works] /\ batch' \in [Workers -> Batches \cup {None}]
    BY TypesStep DEF Types
  <2>5. \A v \in Workers : v # w => work'[v] = work[v] /\ batch'[v] = batch[v]
    BY <2>1 DEF Types
  <2>6. /\ work'[w].step = "read" /\ work'[w].file = work[w].file /\ work'[w].hash = work[w].hash
        /\ work'[w].of \in Contents
        /\ work'[w].shows => batch'[w] # None
    BY <2>1, <2>2, <2>3 DEF Types, Works
  <2> QED BY <2>2, <2>5, <2>6, IngestNames DEF Working, Busy, Hashed
<1>7. ASSUME NEW w \in Workers, Commit(w) PROVE Working'
  BY <1>7 DEF Commit, At, Working, Types, Busy, Hashed, Parsed
<1>8. ASSUME NEW w \in Workers, WriteMarkdown(w) PROVE Working'
  BY <1>8 DEF WriteMarkdown, At, Working, Busy, Hashed, Parsed
<1>9. ASSUME NEW w \in Workers, WriteEntry(w) PROVE Working'
  BY <1>9 DEF WriteEntry, At, Finish, Working, Queued, Types, Busy, Hashed, Parsed, Idle
<1>10. ASSUME NEW w \in Workers, ReadFails(w) PROVE Working'
  BY <1>10 DEF ReadFails, At, Finish, Working, Queued, Types, Busy, Hashed, Parsed, Idle
<1>11. ASSUME NEW w \in Workers, CommitFails(w) PROVE Working'
  BY <1>11 DEF CommitFails, At, Working, Types, Busy, Hashed, Parsed
<1>12. ASSUME NEW w \in Workers, Hang(w) PROVE Working'
  BY <1>12 DEF Hang, At, Working, Busy, Hashed, Parsed
<1>13. CASE Submitted
  BY <1>13 DEF Submitted, Working, Busy
<1>14. CASE Finished
  BY <1>14 DEF Finished, Working, Busy
<1>15. CASE Timeout
  BY <1>15 DEF Timeout, Stopped, Working, Busy, Hashed, Parsed, Idle
<1>16. CASE TimeoutSlow
  BY <1>16 DEF TimeoutSlow, Stopped, Working, Busy, Hashed, Parsed, Idle
<1>17. CASE PoolBreaks
  BY <1>17 DEF PoolBreaks, Stopped, Working, Busy, Hashed, Parsed, Idle
<1>18. CASE Fallback
  BY <1>18 DEF Fallback, Stopped, Working, Busy, Hashed, Parsed, Idle
<1>19. CASE Crash
  BY <1>19 DEF Crash, Stopped, Working, Busy, Hashed, Parsed, Idle
<1>20. ASSUME NEW f \in Files, Collect(f) PROVE Working'
  BY <1>20 DEF Collect, Working, Busy
<1>21. ASSUME NEW f \in Files, NEW c \in Contents \cup {None}, Edit(f, c) PROVE Working'
  BY <1>21 DEF Edit, Working, Busy
<1>22. CASE UNCHANGED vars
  BY <1>22 DEF vars, Working, Busy
<1> QED BY Acts, <1>1, <1>2, <1>3, <1>4, <1>5, <1>6, <1>7, <1>8, <1>9, <1>10, <1>11, <1>12,
     <1>13, <1>14, <1>15, <1>16, <1>17, <1>18, <1>19, <1>20, <1>21, <1>22 DEF Act

\* A step keeps what is queued, out and settled apart.
LEMMA QueuedStep ==
    ASSUME Types, Working, Queued, [Next]_vars PROVE Queued'
<1>1. ASSUME NEW pool \in BOOLEAN, Start(pool) PROVE Queued'
  <2>1. /\ run'.phase # "ended" /\ run'.queue = run'.out
        /\ run'.out \subseteq run'.inputs
        /\ result' = NoReport /\ work' = [v \in Workers |-> Idle]
    BY <1>1 DEF Start
  <2>2. run'.out \subseteq Files
    BY TypesStep DEF Types, Runs
  <2> QED BY <2>1, <2>2 DEF Queued, Busy, Idle, NoReport
<1>2. ASSUME NEW w \in Workers, Take(w) PROVE Queued'
  BY <1>2 DEF Take, Working, Queued, Busy
<1>3. ASSUME NEW w \in Workers, HashFile(w) PROVE Queued'
  <2>1. CASE pdf[work[w].file] = None
    BY <1>3, <2>1 DEF HashFile, At, Finish, Working, Queued, Types, Busy, Idle, Runs
  <2>2. CASE pdf[work[w].file] # None
    <3>1. work' = [work EXCEPT ![w].hash = pdf[work[w].file].content, ![w].step = "hashed"] /\ result' = result
      BY <1>3, <2>2 DEF HashFile
    <3>2. work[w].step = "taken" /\ UNCHANGED <<run, batch>>
      BY <1>3 DEF HashFile, At
    <3>3. pdf[work[w].file].content \in Contents
      BY <2>2, <3>2 DEF Working, Types, Busy, Runs, Pdfs
    <3> QED BY <3>1, <3>2, <3>3 DEF Queued, Types, Busy
  <2> QED BY <2>1, <2>2
<1>4. ASSUME NEW w \in Workers, StatFile(w) PROVE Queued'
  <2>1. work[w].step = "hashed" /\ UNCHANGED <<run, batch>>
    BY <1>4 DEF StatFile, At
  <2>2. CASE Finish(w, "unlisted")
    BY <2>1, <2>2 DEF Finish, Working, Queued, Busy, Idle
  <2>3. CASE ~Finish(w, "unlisted")
    <3>1. PICK t : work' = [work EXCEPT ![w].stamp = t, ![w].step = "new"] /\ result' = result
      BY <1>4, <2>3 DEF StatFile
    <3> QED BY <2>1, <3>1 DEF Queued, Types, Busy
  <2> QED BY <2>2, <2>3
<1>5. ASSUME NEW w \in Workers, Clean(w) PROVE Queued'
  BY <1>5 DEF Clean, At, Queued, Busy
<1>6. ASSUME NEW w \in Workers, Read(w) PROVE Queued'
  <2>1. PICK shows \in BOOLEAN :
            work' = [work EXCEPT ![w].of = pdf[work[w].file].content, ![w].shows = shows, ![w].step = "read"]
    BY <1>6, ReadOpens
  <2>2. work[w].step = "clean" /\ UNCHANGED <<run, result>>
    BY <1>6 DEF Read, At
  <2> QED BY <2>1, <2>2 DEF Queued, Types, Busy
<1>7. ASSUME NEW w \in Workers, Commit(w) PROVE Queued'
  BY <1>7 DEF Commit, At, Queued, Busy
<1>8. ASSUME NEW w \in Workers, WriteMarkdown(w) PROVE Queued'
  BY <1>8 DEF WriteMarkdown, At, Queued, Busy
<1>9. ASSUME NEW w \in Workers, WriteEntry(w) PROVE Queued'
  BY <1>9 DEF WriteEntry, At, Finish, Working, Queued, Busy, Idle
<1>10. ASSUME NEW w \in Workers, ReadFails(w) PROVE Queued'
  BY <1>10 DEF ReadFails, At, Finish, Working, Queued, Busy, Idle
<1>11. ASSUME NEW w \in Workers, CommitFails(w) PROVE Queued'
  BY <1>11 DEF CommitFails, At, Queued, Types, Busy
<1>12. ASSUME NEW w \in Workers, Hang(w) PROVE Queued'
  BY <1>12 DEF Hang, At, Queued, Busy
<1>13. CASE Submitted
  BY <1>13 DEF Submitted, Queued, Busy
<1>14. CASE Finished
  BY <1>14 DEF Finished, Queued, Busy
<1>15. CASE Timeout
  <2>1. /\ run'.out = {} /\ run'.queue = {} /\ result' = result /\ work' = Stopped
        /\ \A f \in Files : result[f] = "none"
    BY <1>15 DEF Timeout, Overdue, Queued, Types
  <2> QED BY <2>1 DEF Queued, Busy, Stopped, Idle
<1>16. CASE TimeoutSlow
  <2>1. /\ run'.out = {} /\ run'.queue = {} /\ result' = result /\ work' = Stopped
        /\ \A f \in Files : result[f] = "none"
    BY <1>16 DEF TimeoutSlow, Overdue, Queued, Types
  <2> QED BY <2>1 DEF Queued, Busy, Stopped, Idle
<1>17. CASE PoolBreaks
  BY <1>17 DEF PoolBreaks, Stopped, Queued, Busy, Idle
<1>18. CASE Fallback
  BY <1>18 DEF Fallback, Stopped, NoReport, Queued, Types, Busy, Idle, Runs
<1>19. CASE Crash
  BY <1>19 DEF Crash, Stopped, NoRun, NoReport, Queued, Busy, Idle
<1>20. ASSUME NEW f \in Files, Collect(f) PROVE Queued'
  BY <1>20 DEF Collect, Queued, Types, Busy
<1>21. ASSUME NEW f \in Files, NEW c \in Contents \cup {None}, Edit(f, c) PROVE Queued'
  BY <1>21 DEF Edit, Queued, Busy
<1>22. CASE UNCHANGED vars
  BY <1>22 DEF vars, Queued, Busy
<1> QED BY Acts, <1>1, <1>2, <1>3, <1>4, <1>5, <1>6, <1>7, <1>8, <1>9, <1>10, <1>11, <1>12,
     <1>13, <1>14, <1>15, <1>16, <1>17, <1>18, <1>19, <1>20, <1>21, <1>22 DEF Act

\* How a step of any action moves a worker.
Moves(w) ==
    \/ work'[w] = work[w] \/ work'[w] = Idle
    \/ /\ work[w] = Idle /\ work'[w].step = "taken" /\ work'[w].file \in run.queue
       /\ work'[w].hash = None /\ work'[w].stamp = 0
    \/ /\ work'[w].file = work[w].file
       /\ work[w].step = "taken" /\ work'[w].step = "hashed"
       /\ pdf[work[w].file] # None /\ work'[w].hash = pdf[work[w].file].content
       /\ work'[w].stamp = work[w].stamp
    \/ /\ work'[w].file = work[w].file /\ work'[w].hash = work[w].hash
       /\ work[w].step = "hashed" /\ work'[w].step = "new"
       /\ work'[w].stamp = IF pdf[work[w].file] = None THEN 0 ELSE pdf[work[w].file].stamp
    \/ /\ work'[w].file = work[w].file /\ work'[w].hash = work[w].hash /\ work'[w].stamp = work[w].stamp
       /\ \/ work[w].step = "new" /\ work'[w].step = "clean" /\ Clean(w)
          \/ work[w].step = "clean" /\ work'[w].step = "hung"
          \/ /\ work[w].step = "clean" /\ work'[w].step = "read" /\ Read(w)
             /\ pdf[work[w].file] # None /\ work'[w].of = pdf[work[w].file].content
          \/ /\ work[w].step = "read" /\ work'[w].step = "parsed"
             /\ work'[w].of = work[w].of /\ (work'[w].shows => work[w].shows /\ Commit(w))
          \/ /\ work[w].step = "parsed" /\ work'[w].step = "written" /\ WriteMarkdown(w)
             /\ work'[w].of = work[w].of /\ work'[w].shows = work[w].shows

\* Every step moves a worker in one of these ways.
LEMMA Moved ==
    ASSUME Types, Working, NEW v \in Workers, [Next]_vars PROVE Moves(v)
<1>1. ASSUME NEW pool \in BOOLEAN, Start(pool) PROVE Moves(v)
  <2>1. work' = [u \in Workers |-> Idle]
    BY <1>1 DEF Start
  <2> QED BY <2>1 DEF Moves
<1>2. ASSUME NEW w \in Workers, Take(w) PROVE Moves(v)
  <2>1. work[w] = Idle
    BY <1>2 DEF Take, At, Working, Busy
  <2>2. v # w => work'[v] = work[v]
    BY <1>2 DEF Take, Types
  <2>3. v = w => work'[v].step = "taken" /\ work'[v].file \in run.queue /\ work'[v].hash = None /\ work'[v].stamp = 0
    BY <1>2 DEF Take, Types, Idle
  <2> QED BY <2>1, <2>2, <2>3 DEF Moves
<1>3. ASSUME NEW w \in Workers, HashFile(w) PROVE Moves(v)
  <2>1. work[w].step = "taken"
    BY <1>3 DEF HashFile, At
  <2>2. CASE pdf[work[w].file] = None
    <3>1. work' = [work EXCEPT ![w] = Idle]
      BY <1>3, <2>2 DEF HashFile, Finish
    <3> QED BY <3>1 DEF Moves, Types, Works
  <2>3. CASE pdf[work[w].file] # None
    <3>1. work' = [work EXCEPT ![w].hash = pdf[work[w].file].content, ![w].step = "hashed"]
      BY <1>3, <2>3 DEF HashFile
    <3> QED BY <2>1, <2>3, <3>1 DEF Types, Works
  <2> QED BY <2>2, <2>3
<1>4. ASSUME NEW w \in Workers, StatFile(w) PROVE Moves(v)
  <2> DEFINE t == IF pdf[work[w].file] = None THEN 0 ELSE pdf[work[w].file].stamp
  <2>1. work[w].step = "hashed"
    BY <1>4 DEF StatFile, At
  <2>2. \/ work' = [work EXCEPT ![w] = Idle]
        \/ work' = [work EXCEPT ![w].stamp = t, ![w].step = "new"]
    BY <1>4 DEF StatFile, Finish
  <2>3. CASE work' = [work EXCEPT ![w] = Idle]
    BY <2>3 DEF Moves, Types, Works
  <2>4. CASE work' = [work EXCEPT ![w].stamp = t, ![w].step = "new"]
    <3> HIDE DEF t
    <3>1. v = w => work'[v] = [work[w] EXCEPT !.stamp = t, !.step = "new"]
      BY <2>4 DEF Types
    <3>2. v # w => work'[v] = work[v]
      BY <2>4 DEF Types
    <3>3. v = w => /\ work'[v].stamp = t /\ work'[v].step = "new"
                   /\ work'[v].file = work[v].file /\ work'[v].hash = work[v].hash
      <4>1. work[w] \in Works
        BY DEF Types
      <4> QED BY <3>1, <4>1 DEF Works
    <3> QED BY <2>1, <3>3, <3>2 DEF Moves, t
  <2> QED BY <2>2, <2>3, <2>4
<1>5. ASSUME NEW w \in Workers, Clean(w) PROVE Moves(v)
  <2>1. work[w].step = "new" /\ work' = [work EXCEPT ![w].step = "clean"]
    BY <1>5 DEF Clean, At
  <2> QED BY <1>5, <2>1 DEF Moves, Types, Works
<1>6. ASSUME NEW w \in Workers, Read(w) PROVE Moves(v)
  <2>1. PICK shows \in BOOLEAN :
            work' = [work EXCEPT ![w].of = pdf[work[w].file].content, ![w].shows = shows, ![w].step = "read"]
    BY <1>6, ReadOpens
  <2>2. work[w].step = "clean" /\ pdf[work[w].file] # None
    BY <1>6 DEF Read, At
  <2>3. v # w => work'[v] = work[v]
    BY <2>1 DEF Types
  <2>4. v = w => /\ work'[v].file = work[v].file /\ work'[v].hash = work[v].hash
                 /\ work'[v].stamp = work[v].stamp /\ work'[v].step = "read"
                 /\ work'[v].of = pdf[work[v].file].content
    BY <2>1 DEF Types, Works
  <2> QED BY <1>6, <2>2, <2>3, <2>4 DEF Moves
<1>7. ASSUME NEW w \in Workers, Commit(w) PROVE Moves(v)
  <2>1. work[w].step = "read" /\ work' = [work EXCEPT ![w].step = "parsed"]
    BY <1>7 DEF Commit, At
  <2> QED BY <1>7, <2>1 DEF Moves, Types, Works
<1>8. ASSUME NEW w \in Workers, WriteMarkdown(w) PROVE Moves(v)
  <2>1. work[w].step = "parsed" /\ work' = [work EXCEPT ![w].step = "written"]
    BY <1>8 DEF WriteMarkdown, At
  <2> QED BY <1>8, <2>1 DEF Moves, Types, Works
<1>9. ASSUME NEW w \in Workers, WriteEntry(w) PROVE Moves(v)
  BY <1>9 DEF WriteEntry, Finish, Moves
<1>10. ASSUME NEW w \in Workers, ReadFails(w) PROVE Moves(v)
  BY <1>10 DEF ReadFails, Finish, Moves
<1>11. ASSUME NEW w \in Workers, CommitFails(w) PROVE Moves(v)
  BY <1>11 DEF CommitFails, At, Types, Works
<1>12. ASSUME NEW w \in Workers, Hang(w) PROVE Moves(v)
  BY <1>12 DEF Hang, At, Moves
<1>13. CASE Submitted
  BY <1>13 DEF Submitted, corpus, Moves, Types
<1>14. CASE Finished
  BY <1>14 DEF Finished, corpus, Moves, Types
<1>15. CASE Timeout
  <2>1. work' = [u \in Workers |-> Idle]
    BY <1>15 DEF Timeout, Stopped
  <2> QED BY <2>1 DEF Moves
<1>16. CASE TimeoutSlow
  <2>1. work' = [u \in Workers |-> Idle]
    BY <1>16 DEF TimeoutSlow, Stopped
  <2> QED BY <2>1 DEF Moves
<1>17. CASE PoolBreaks
  <2>1. work' = [u \in Workers |-> Idle]
    BY <1>17 DEF PoolBreaks, Stopped
  <2> QED BY <2>1 DEF Moves
<1>18. CASE Fallback
  <2>1. work' = [u \in Workers |-> Idle]
    BY <1>18 DEF Fallback, Stopped
  <2> QED BY <2>1 DEF Moves
<1>19. CASE Crash
  <2>1. work' = [u \in Workers |-> Idle]
    BY <1>19 DEF Crash, Stopped
  <2> QED BY <2>1 DEF Moves
<1>20. ASSUME NEW f \in Files, Collect(f) PROVE Moves(v)
  BY <1>20 DEF Collect, corpus, Moves, Types
<1>21. ASSUME NEW f \in Files, NEW c \in Contents \cup {None}, Edit(f, c) PROVE Moves(v)
  BY <1>21 DEF Edit, Moves
<1>22. CASE UNCHANGED vars
  BY <1>22 DEF vars, corpus, Moves, Types
<1> QED BY Acts, <1>1, <1>2, <1>3, <1>4, <1>5, <1>6, <1>7, <1>8, <1>9, <1>10, <1>11, <1>12,
     <1>13, <1>14, <1>15, <1>16, <1>17, <1>18, <1>19, <1>20, <1>21, <1>22 DEF Act

\* Who changes the PDFs, the Markdown and the entries.
LEMMA Writers ==
    ASSUME Types, [Next]_vars
    PROVE  /\ \/ pdf' = pdf /\ count'.edits = count.edits
              \/ \E f \in Files, c \in Contents \cup {None} : Edit(f, c)
           /\ md' = md \/ \E w \in Workers : WriteMarkdown(w)
           /\ entry' = entry \/ \E w \in Workers : WriteEntry(w)
           /\ count.edits \in Nat /\ count'.edits \in Nat /\ count.edits <= count'.edits
<1> DEFINE Goal == /\ \/ pdf' = pdf /\ count'.edits = count.edits
                      \/ \E f \in Files, c \in Contents \cup {None} : Edit(f, c)
                   /\ md' = md \/ \E w \in Workers : WriteMarkdown(w)
                   /\ entry' = entry \/ \E w \in Workers : WriteEntry(w)
                   /\ count.edits \in Nat /\ count'.edits \in Nat /\ count.edits <= count'.edits
<1>1. ASSUME NEW pool \in BOOLEAN, Start(pool) PROVE Goal
  BY <1>1 DEF Start, Tick, corpus, Types
<1>2. ASSUME NEW w \in Workers, Take(w) PROVE Goal
  BY <1>2 DEF Take, At, corpus, Types
<1>3. ASSUME NEW w \in Workers, HashFile(w) PROVE Goal
  BY <1>3 DEF HashFile, corpus, Types
<1>4. ASSUME NEW w \in Workers, StatFile(w) PROVE Goal
  BY <1>4 DEF StatFile, corpus, Types
<1>5. ASSUME NEW w \in Workers, Clean(w) PROVE Goal
  BY <1>5 DEF Clean, At, corpus, Types
<1>6. ASSUME NEW w \in Workers, Read(w) PROVE Goal
  BY <1>6 DEF Read, At, corpus, Types
<1>7. ASSUME NEW w \in Workers, Commit(w) PROVE Goal
  BY <1>7 DEF Commit, Types
<1>8. ASSUME NEW w \in Workers, WriteMarkdown(w) PROVE Goal
  <2>1. UNCHANGED <<pdf, entry, count>> /\ count \in [runs : Nat, edits : Nat, faults : Nat]
    BY <1>8 DEF WriteMarkdown, Types
  <2> QED BY <1>8, <2>1
<1>9. ASSUME NEW w \in Workers, WriteEntry(w) PROVE Goal
  <2>1. UNCHANGED <<pdf, md, count>> /\ count \in [runs : Nat, edits : Nat, faults : Nat]
    BY <1>9 DEF WriteEntry, Types
  <2> QED BY <1>9, <2>1
<1>10. ASSUME NEW w \in Workers, ReadFails(w) PROVE Goal
  BY <1>10 DEF ReadFails, Tick, corpus, Types
<1>11. ASSUME NEW w \in Workers, CommitFails(w) PROVE Goal
  BY <1>11 DEF CommitFails, Tick, corpus, Types
<1>12. ASSUME NEW w \in Workers, Hang(w) PROVE Goal
  BY <1>12 DEF Hang, Tick, corpus, Types
<1>13. CASE Submitted
  BY <1>13 DEF Submitted, corpus, Types
<1>14. CASE Finished
  BY <1>14 DEF Finished, corpus, Types
<1>15. CASE Timeout
  BY <1>15 DEF Timeout, Stopped, corpus, Types
<1>16. CASE TimeoutSlow
  BY <1>16 DEF TimeoutSlow, Tick, corpus, Types
<1>17. CASE PoolBreaks
  BY <1>17 DEF PoolBreaks, Tick, corpus, Types
<1>18. CASE Fallback
  BY <1>18 DEF Fallback, Tick, corpus, Types
<1>19. CASE Crash
  BY <1>19 DEF Crash, Tick, corpus, Types
<1>20. ASSUME NEW f \in Files, Collect(f) PROVE Goal
  BY <1>20 DEF Collect, corpus, Types
<1>21. ASSUME NEW f \in Files, NEW c \in Contents \cup {None}, Edit(f, c) PROVE Goal
  <2>1. /\ UNCHANGED <<md, entry>> /\ count \in [runs : Nat, edits : Nat, faults : Nat]
        /\ count' = [count EXCEPT !.edits = @ + 1]
    BY <1>21 DEF Edit, corpus, Tick, Types
  <2> QED BY <1>21, <2>1
<1>22. CASE UNCHANGED vars
  BY <1>22 DEF vars, corpus, Types
<1> QED BY Acts, <1>1, <1>2, <1>3, <1>4, <1>5, <1>6, <1>7, <1>8, <1>9, <1>10, <1>11, <1>12,
     <1>13, <1>14, <1>15, <1>16, <1>17, <1>18, <1>19, <1>20, <1>21, <1>22 DEF Act

\* A step keeps the stamps in the past.
LEMMA StampedStep ==
    ASSUME Types, Working, Stamped, [Next]_vars PROVE Stamped'
<1> DEFINE e == count.edits
           d == count'.edits
<1>1. e \in Nat /\ d \in Nat /\ e <= d
  BY Writers
<1>2. ASSUME NEW f \in Files, pdf'[f] # None PROVE pdf'[f].stamp <= d
  <2>1. CASE pdf' = pdf
    <3>1. pdf[f].stamp \in Nat /\ pdf[f].stamp <= e
      BY <1>2, <2>1 DEF Stamped, Types, Pdfs
    <3> QED BY <1>1, <2>1, <3>1
  <2>2. ASSUME NEW g \in Files, NEW c \in Contents \cup {None}, Edit(g, c) PROVE pdf'[f].stamp <= d
    <3>1. /\ pdf' = [pdf EXCEPT ![g] = IF c = None THEN None ELSE [content |-> c, stamp |-> d]]
      BY <2>2 DEF Edit
    <3>2. CASE f = g
      BY <1>1, <1>2, <3>1, <3>2 DEF Types
    <3>3. CASE f # g
      <4>1. pdf[f].stamp \in Nat /\ pdf[f].stamp <= e /\ pdf'[f] = pdf[f]
        BY <1>2, <3>1, <3>3 DEF Stamped, Types, Pdfs
      <4> QED BY <1>1, <4>1
    <3> QED BY <3>2, <3>3
  <2> QED BY Writers, <2>1, <2>2
<1>3. ASSUME NEW n \in Names, entry'[n] # None PROVE entry'[n].stamp <= d
  <2>1. CASE entry' = entry
    <3>1. entry[n].stamp \in Nat /\ entry[n].stamp <= e
      BY <1>3, <2>1 DEF Stamped, Types, Lines
    <3> QED BY <1>1, <2>1, <3>1
  <2>2. ASSUME NEW w \in Workers, WriteEntry(w) PROVE entry'[n].stamp <= d
    <3>1. entry' = [entry EXCEPT ![NameFor(w)] = [hash |-> work[w].hash, stamp |-> work[w].stamp, file |-> work[w].file]]
      BY <2>2 DEF WriteEntry
    <3>2. work[w].stamp \in Nat /\ work[w].stamp <= e
      BY DEF Stamped, Types, Works
    <3>3. CASE n = NameFor(w)
      BY <1>1, <3>1, <3>2, <3>3 DEF Types
    <3>4. CASE n # NameFor(w)
      <4>1. entry[n].stamp \in Nat /\ entry[n].stamp <= e /\ entry'[n] = entry[n]
        BY <1>3, <3>1, <3>4 DEF Stamped, Types, Lines
      <4> QED BY <1>1, <4>1
    <3> QED BY <3>3, <3>4
  <2> QED BY Writers, <2>1, <2>2
<1>4. ASSUME NEW w \in Workers PROVE work'[w].stamp <= d
  <2>1. work[w] \in Works /\ work[w].stamp \in Nat /\ work[w].stamp <= e
    BY DEF Stamped, Types, Works
  <2>2. \/ work'[w].stamp = work[w].stamp \/ work'[w].stamp = 0
        \/ /\ work[w].step = "hashed" /\ pdf[work[w].file] # None
           /\ work'[w].stamp = pdf[work[w].file].stamp
    BY <2>1, Moved DEF Moves, Idle
  <2>3. ASSUME work[w].step = "hashed", pdf[work[w].file] # None
        PROVE  pdf[work[w].file].stamp \in Nat /\ pdf[work[w].file].stamp <= e
    BY <2>3 DEF Stamped, Types, Pdfs, Working, Busy, Runs
  <2> QED BY <1>1, <2>1, <2>2, <2>3
<1> QED BY <1>2, <1>3, <1>4 DEF Stamped

\* Two workers write under two names.
LEMMA NameApart ==
    ASSUME Types, Working, Queued, NEW v \in Workers, NEW w \in Workers, v # w, Busy(v), Busy(w)
    PROVE  NameFor(v) # NameFor(w)
BY NameDiffer DEF Types, Working, Queued, Runs, NameFor

\* The name that a worker writes under stays.
LEMMA NameStays ==
    ASSUME Types, Working, Queued, [Next]_vars, NEW w \in Workers, Busy(w), Busy(w)'
    PROVE  NameFor(w)' = NameFor(w) /\ work'[w].file = work[w].file /\ run'.inputs = run.inputs
<1>1. work'[w].file = work[w].file
  BY Moved DEF Moves, Idle, Busy
<1>2. run'.inputs = run.inputs
  <2>1. ASSUME NEW pool \in BOOLEAN, Start(pool) PROVE run'.inputs = run.inputs
    <3>1. ~Busy(w)'
      BY <2>1 DEF Start, Busy, Idle
    <3> QED BY <3>1
  <2>2. ASSUME NEW v \in Workers, Take(v) PROVE run'.inputs = run.inputs
    BY <2>2 DEF Take, At, corpus, Types
  <2>3. ASSUME NEW v \in Workers, HashFile(v) PROVE run'.inputs = run.inputs
    BY <2>3 DEF HashFile
  <2>4. ASSUME NEW v \in Workers, StatFile(v) PROVE run'.inputs = run.inputs
    BY <2>4 DEF StatFile
  <2>5. ASSUME NEW v \in Workers, Clean(v) PROVE run'.inputs = run.inputs
    BY <2>5 DEF Clean, At, corpus, Types
  <2>6. ASSUME NEW v \in Workers, Read(v) PROVE run'.inputs = run.inputs
    BY <2>6 DEF Read, At, corpus, Types
  <2>7. ASSUME NEW v \in Workers, Commit(v) PROVE run'.inputs = run.inputs
    BY <2>7 DEF Commit
  <2>8. ASSUME NEW v \in Workers, WriteMarkdown(v) PROVE run'.inputs = run.inputs
    BY <2>8 DEF WriteMarkdown, At, corpus, Types
  <2>9. ASSUME NEW v \in Workers, WriteEntry(v) PROVE run'.inputs = run.inputs
    BY <2>9 DEF WriteEntry
  <2>10. ASSUME NEW v \in Workers, ReadFails(v) PROVE run'.inputs = run.inputs
    BY <2>10 DEF ReadFails
  <2>11. ASSUME NEW v \in Workers, CommitFails(v) PROVE run'.inputs = run.inputs
    BY <2>11 DEF CommitFails
  <2>12. ASSUME NEW v \in Workers, Hang(v) PROVE run'.inputs = run.inputs
    BY <2>12 DEF Hang
  <2>13. CASE Submitted
    BY <2>13 DEF Submitted, corpus, Types, Runs
  <2>14. CASE Finished
    BY <2>14 DEF Finished, corpus, Types, Runs
  <2>15. CASE Timeout
    BY <2>15 DEF Timeout, Stopped, corpus, Types
  <2>16. CASE TimeoutSlow
    BY <2>16 DEF TimeoutSlow
  <2>17. CASE PoolBreaks
    BY <2>17 DEF PoolBreaks
  <2>18. CASE Fallback
    BY <2>18 DEF Fallback
  <2>19. CASE Crash
    <3>1. ~Busy(w)'
      BY <2>19 DEF Crash, Busy, Idle, Stopped
    <3> QED BY <3>1
  <2>20. ASSUME NEW f \in Files, Collect(f) PROVE run'.inputs = run.inputs
    BY <2>20 DEF Collect, corpus, Types, Runs
  <2>21. ASSUME NEW f \in Files, NEW c \in Contents \cup {None}, Edit(f, c) PROVE run'.inputs = run.inputs
    BY <2>21 DEF Edit, Tick, corpus, Types
  <2>22. CASE UNCHANGED vars
    BY <2>22 DEF vars, corpus, Types, Runs
  <2> QED BY Acts, <2>1, <2>2, <2>3, <2>4, <2>5, <2>6, <2>7, <2>8, <2>9, <2>10, <2>11, <2>12,
       <2>13, <2>14, <2>15, <2>16, <2>17, <2>18, <2>19, <2>20, <2>21, <2>22 DEF Act
<1> QED BY <1>1, <1>2 DEF NameFor

\* A step keeps entries with their Markdown.
LEMMA WroteStep ==
    ASSUME Types, Working, Queued, Wrote, [Next]_vars PROVE Wrote'
<1>1. ASSUME NEW n \in Names, entry'[n] # None PROVE md'[n] # None
  <2>1. entry[n] # None \/ \E w \in Workers : n = NameFor(w) /\ WriteEntry(w)
    BY <1>1, Writers DEF WriteEntry, Types
  <2>2. md'[n] = md[n] \/ \E w \in Workers : n = NameFor(w) /\ WriteMarkdown(w)
    BY <1>1, Writers DEF WriteMarkdown, Types
  <2>3. ASSUME NEW w \in Workers, n = NameFor(w), WriteEntry(w) PROVE md'[n] # None
    <3>1. work[w].step = "written" /\ md' = md
      BY <2>3 DEF WriteEntry, At
    <3>2. [of |-> work[w].of, hash |-> work[w].hash, shows |-> work[w].shows] \in Docs
      BY <3>1 DEF Working, Types, Works, Docs, Parsed, Hashed
    <3> QED BY <2>3, <3>1, <3>2, IngestNames DEF Wrote, Docs
  <2>4. ASSUME NEW w \in Workers, n = NameFor(w), WriteMarkdown(w) PROVE md'[n] # None
    <3>1. work[w].step = "parsed"
      BY <2>4 DEF WriteMarkdown, At
    <3>2. [of |-> work[w].of, hash |-> work[w].hash, shows |-> work[w].shows] \in Docs
      BY <3>1 DEF Working, Types, Works, Docs, Parsed, Hashed
    <3>3. md'[n] = [of |-> work[w].of, hash |-> work[w].hash, shows |-> work[w].shows]
      BY <2>4 DEF WriteMarkdown, Types
    <3> QED BY <3>2, <3>3, IngestNames DEF Docs
  <2> QED BY <2>1, <2>2, <2>3, <2>4 DEF Wrote
<1>2. ASSUME NEW w \in Workers, work'[w].step = "written"
      PROVE  md'[NameFor(w)'] = [of |-> work'[w].of, hash |-> work'[w].hash, shows |-> work'[w].shows]
  <2>1. work[w].step \in {"parsed", "written"} /\ work[w] \in Works
    BY <1>2, Moved DEF Moves, Types, Idle
  <2>2. Busy(w) /\ Busy(w)' /\ NameFor(w)' = NameFor(w)
    BY <1>2, <2>1, NameStays DEF Busy
  <2>3. NameFor(w) \in Names
    BY <2>2, NameIn DEF NameFor, Working, Types, Runs
  <2>4. CASE WriteMarkdown(w)
    BY <2>2, <2>3, <2>4 DEF WriteMarkdown, Types
  <2>5. CASE ~WriteMarkdown(w)
    <3>1. work'[w] = work[w] /\ work[w].step = "written"
      BY <1>2, <2>1, <2>5, Moved DEF Moves, Idle
    <3>2. ASSUME NEW v \in Workers, WriteMarkdown(v) PROVE md'[NameFor(w)] = md[NameFor(w)]
      <4>1. Busy(v) /\ v # w
        BY <2>5, <3>2 DEF WriteMarkdown, At, Busy
      <4>2. NameFor(v) # NameFor(w)
        BY <2>2, <4>1, NameApart
      <4> QED BY <2>3, <3>2, <4>2 DEF WriteMarkdown, Types
    <3>3. md'[NameFor(w)] = md[NameFor(w)]
      BY <3>2, Writers
    <3> QED BY <2>2, <3>1, <3>3 DEF Wrote
  <2> QED BY <2>4, <2>5
<1> QED BY <1>1, <1>2 DEF Wrote

\* The invariant holds at the beginning, and every step keeps it.
LEMMA TInit ==
    ASSUME Init PROVE TInv
<1>1. Types
  <2>1. PICK g \in Given : pdf = [f \in Files |-> IF g[f] = None THEN None ELSE [content |-> g[f], stamp |-> 0]]
    BY DEF Init
  <2>2. \A f \in Files : g[f] \in Contents \cup {None}
    BY IngestInputs
  <2>3. pdf \in [Files -> Pdfs \cup {None}]
    BY <2>1, <2>2 DEF Pdfs
  <2>4. NoRun \in Runs /\ NoReport \in [Files -> {"none"}]
    BY DEF NoRun, Runs, Phases, NoReport
  <2> QED BY <2>3, <2>4, IdleIs DEF Init, Types
<1>2. Working /\ Queued
  BY DEF Init, Working, Queued, Busy, Idle, NoRun, NoReport, Hashed, Parsed
<1>3. Stamped
  BY DEF Init, Stamped, Idle
<1>4. Wrote
  BY DEF Init, Wrote, Idle
<1> QED BY <1>1, <1>2, <1>3, <1>4 DEF TInv

LEMMA TStep ==
    ASSUME TInv, [Next]_vars PROVE TInv'
BY TypesStep, WorkingStep, QueuedStep, StampedStep, WroteStep DEF TInv

\* The invariant always holds, and it gives the type invariant.
LEMMA TAlways == Spec => []TInv
BY TInit, TStep, PTL DEF Spec

LEMMA TypeOKHolds ==
    ASSUME TInv PROVE TypeOK
<1>1. manifest \in SUBSET Contents /\ images \in SUBSET Contents
  BY DEF TInv, Types
<1>2. \A w \in Workers : Busy(w) => work[w].file \in run.out \ run.queue /\ work[w].file \in Files
  BY DEF TInv, Working, Types, Runs
<1>3. \A v, w \in Workers : v # w /\ Busy(v) => work[v].file # work[w].file
  BY <1>2, IngestNames DEF TInv, Working, Queued, Idle
<1> QED BY <1>1, <1>2, <1>3 DEF TInv, Queued, TypeOK, Busy

\* Type correctness, whatever the incidents: a worker's file is out, not queued, not
\* settled, and no other worker has it.
THEOREM TypeCorrect == Spec => []TypeOK
BY TAlways, TypeOKHolds, PTL

-----------------------------------------------------------------------------
(* The resume checks.                                                      *)

\* No PDF gets a content that something still has, and no pool breaks while files
\* are handed to it.
Quiet == {"reverted", "touched", "twin", "fallback"} \cap Incidents = {}

\* A file that is queued, or that a worker has.
Waiting(f) == f \in run.queue \/ \E w \in Workers : Busy(w) /\ work[w].file = f

\* An entry is the one of a PDF as it is, by its hash or by its stamp.
Match(n, f) ==
    /\ entry[n] # None /\ pdf[f] # None
    /\ \/ entry[n].hash = pdf[f].content
       \/ entry[n].file = f /\ entry[n].stamp = pdf[f].stamp

\* Two PDFs have two contents.
Differ == \A f, g \in Present : pdf[f].content = pdf[g].content => f = g

\* A hash that is the one of a PDF is of this file and has its stamp, in an entry
\* and in a worker that has looked.
Hashes ==
    \A n \in Names, f \in Present : entry[n] # None /\ entry[n].hash = pdf[f].content =>
        entry[n].file = f /\ entry[n].stamp = pdf[f].stamp
Holds ==
    \A w \in Workers, f \in Present : work[w].hash = pdf[f].content =>
        work[w].file = f /\ (work[w].step \in Statted => work[w].stamp = pdf[f].stamp)

\* What was read after the stamp was taken is the content, if the stamp is.
ReadNow ==
    \A w \in Workers, f \in Present :
        work[w].step \in Parsed /\ work[w].file = f /\ work[w].stamp = pdf[f].stamp => work[w].of = pdf[f].content

\* What waits has no entry that matches it, and no worker finds one.
Due == \A f \in run.inputs : Waiting(f) => ~Match(NameOf(f, run.inputs), f)
NotFound ==
    \A w \in Workers : work[w].step = "hashed" /\ entry[NameFor(w)] # None =>
        entry[NameFor(w)].hash # work[w].hash

\* What is out is settled or waits, and what is not out is listed.
Open == \A f \in run.out : result[f] # "none" \/ Waiting(f)
Told ==
    /\ \A f \in Files : result[f] # "unlisted"
    /\ \A f \in run.inputs : f \in run.out \/ report[f] # "none"

\* What the resume checks go by.
QInv == TInv /\ Differ /\ Hashes /\ Holds /\ ReadNow /\ Due /\ NotFound /\ Open /\ Told

\* Without these incidents, an edit brings a content and a stamp that nothing has.
LEMMA EditIsNew ==
    ASSUME TInv, Quiet, NEW f \in Files, NEW c \in Contents, Edit(f, c)
    PROVE  /\ \A g \in Files : pdf[g] # None => pdf[g].content # c /\ pdf[g].stamp < count'.edits
           /\ \A n \in Names : entry[n] # None => entry[n].hash # c /\ entry[n].stamp < count'.edits
           /\ \A w \in Workers : work[w].hash # c /\ work[w].stamp < count'.edits
           /\ pdf' = [pdf EXCEPT ![f] = [content |-> c, stamp |-> count'.edits]]
<1>1. {"reverted", "touched", "twin"} \cap Incidents = {} /\ c # None
  BY IngestNames DEF Quiet
<1>2. count.edits \in Nat /\ count'.edits = count.edits + 1
  BY DEF Edit, Tick, TInv, Types
<1>3. \A g \in Files : pdf[g] # None => pdf[g].content # c
  BY <1>1 DEF Edit, Allowed
<1>4. \A n \in Names : entry[n] # None => entry[n].hash # c
  BY <1>1 DEF Edit, Allowed
<1>5. \A w \in Workers : work[w].hash # c
  BY <1>1 DEF Edit, Allowed
<1>6. /\ \A g \in Files : pdf[g] # None => pdf[g].stamp \in Nat /\ pdf[g].stamp <= count.edits
      /\ \A n \in Names : entry[n] # None => entry[n].stamp \in Nat /\ entry[n].stamp <= count.edits
      /\ \A w \in Workers : work[w].stamp \in Nat /\ work[w].stamp <= count.edits
  BY DEF TInv, Types, Pdfs, Lines, Works, Stamped
<1>7. pdf' = [pdf EXCEPT ![f] = [content |-> c, stamp |-> count'.edits]]
  BY <1>1 DEF Edit
<1>8. \A k \in Nat : k <= count.edits => k < count'.edits
  BY <1>2
<1> QED BY <1>3, <1>4, <1>5, <1>6, <1>7, <1>8

\* A PDF that is there after a step is as it was, or it is new.
LEMMA PdfStays ==
    ASSUME TInv, Quiet, [Next]_vars, NEW f \in Files, pdf'[f] # None
    PROVE  \/ pdf'[f] = pdf[f]
           \/ /\ UNCHANGED <<md, entry, run, work>>
              /\ \A g \in Files \ {f} : pdf'[g] = pdf[g]
              /\ \A g \in Files : pdf[g] # None => pdf[g].content # pdf'[f].content /\ pdf[g].stamp < pdf'[f].stamp
              /\ \A n \in Names : entry[n] # None => entry[n].hash # pdf'[f].content /\ entry[n].stamp < pdf'[f].stamp
              /\ \A w \in Workers : work[w].hash # pdf'[f].content /\ work[w].stamp < pdf'[f].stamp
<1>1. CASE pdf' = pdf
  BY <1>1
<1>2. ASSUME NEW g \in Files, NEW c \in Contents \cup {None}, Edit(g, c), pdf'[f] # pdf[f]
      PROVE  /\ UNCHANGED <<md, entry, run, work>>
             /\ \A h \in Files \ {f} : pdf'[h] = pdf[h]
             /\ \A h \in Files : pdf[h] # None => pdf[h].content # pdf'[f].content /\ pdf[h].stamp < pdf'[f].stamp
             /\ \A n \in Names : entry[n] # None => entry[n].hash # pdf'[f].content /\ entry[n].stamp < pdf'[f].stamp
             /\ \A w \in Workers : work[w].hash # pdf'[f].content /\ work[w].stamp < pdf'[f].stamp
  <2>1. f = g /\ c # None
    BY <1>2 DEF Edit, TInv, Types
  <2>2. pdf' = [pdf EXCEPT ![f] = [content |-> c, stamp |-> count'.edits]] /\ UNCHANGED <<md, entry, run, work>>
    BY <1>2, <2>1 DEF Edit, corpus
  <2>3. pdf'[f].content = c /\ pdf'[f].stamp = count'.edits /\ \A h \in Files \ {f} : pdf'[h] = pdf[h]
    BY <2>2 DEF TInv, Types
  <2> QED BY <1>2, <2>1, <2>2, <2>3, EditIsNew
<1> QED BY <1>1, <1>2, Writers DEF TInv

\* A match that is there after a step was there before, if the entry was.
LEMMA MatchStays ==
    ASSUME TInv, Quiet, [Next]_vars, NEW f \in Files, NEW n \in Names, entry'[n] = entry[n], Match(n, f)'
    PROVE  Match(n, f) /\ pdf'[f] = pdf[f]
<1>1. entry[n] # None /\ pdf'[f] # None
  BY DEF Match
<1>2. CASE pdf'[f] = pdf[f]
  BY <1>2 DEF Match
<1>3. CASE pdf'[f] # pdf[f]
  <2>1. entry[n].hash # pdf'[f].content /\ entry[n].stamp < pdf'[f].stamp
    BY <1>1, <1>3, PdfStays
  <2>2. entry[n].stamp \in Nat /\ pdf'[f].stamp \in Nat
    BY <1>1, TStep DEF TInv, Types, Lines, Pdfs
  <2>3. entry[n].stamp # pdf'[f].stamp
    BY <2>1, <2>2
  <2> QED BY <2>1, <2>3 DEF Match
<1> QED BY <1>2, <1>3

\* What waits waited before, or a run begins.
LEMMA WaitStays ==
    ASSUME TInv, Open, Quiet, [Next]_vars, NEW f \in Files, Waiting(f)'
    PROVE  \/ Waiting(f) /\ run'.inputs = run.inputs /\ f \in run.inputs
           \/ \E pool \in BOOLEAN : Start(pool) /\ f \in Present /\ ~Unchanged(f, Present)
<1> DEFINE Goal == \/ Waiting(f) /\ run'.inputs = run.inputs
                   \/ \E pool \in BOOLEAN : Start(pool) /\ f \in Present /\ ~Unchanged(f, Present)
<1> SUFFICES Goal
  BY DEF Waiting, TInv, Types, Working, Queued
<1>1. ASSUME NEW pool \in BOOLEAN, Start(pool) PROVE Goal
  <2>1. run'.queue = {g \in Present : ~Unchanged(g, Present)} /\ work' = [u \in Workers |-> Idle]
    BY <1>1 DEF Start
  <2> QED BY <1>1, <2>1 DEF Waiting, Busy, Idle
<1>2. ASSUME NEW w \in Workers, Take(w) PROVE Goal
  BY <1>2 DEF Take, Waiting, Busy
<1>3. ASSUME NEW w \in Workers, HashFile(w) PROVE Goal
  <2>1. run' = run /\ Busy(w)
    BY <1>3 DEF HashFile, Busy, At
  <2>2. \/ \E h : work' = [work EXCEPT ![w] = h]
        \/ \E h, k : work' = [work EXCEPT ![w].hash = h, ![w].step = k]
        \/ \E h, k : work' = [work EXCEPT ![w].stamp = h, ![w].step = k]
    BY <1>3 DEF HashFile, Finish
  <2>3. \A v \in Workers : v # w => work'[v] = work[v]
    BY <2>2 DEF TInv, Types
  <2>4. \A v \in Workers : Busy(v)' => Busy(v)
    BY <2>1, <2>3 DEF Busy
  <2>5. \A v \in Workers : Busy(v)' => work'[v].file = work[v].file
    BY <2>4, NameStays DEF TInv
  <2> QED BY <2>1, <2>4, <2>5 DEF Waiting
<1>4. ASSUME NEW w \in Workers, StatFile(w) PROVE Goal
  <2>1. run' = run /\ Busy(w)
    BY <1>4 DEF StatFile, Busy, At
  <2>2. \/ \E h : work' = [work EXCEPT ![w] = h]
        \/ \E h, k : work' = [work EXCEPT ![w].hash = h, ![w].step = k]
        \/ \E h, k : work' = [work EXCEPT ![w].stamp = h, ![w].step = k]
    BY <1>4 DEF StatFile, Finish
  <2>3. \A v \in Workers : v # w => work'[v] = work[v]
    BY <2>2 DEF TInv, Types
  <2>4. \A v \in Workers : Busy(v)' => Busy(v)
    BY <2>1, <2>3 DEF Busy
  <2>5. \A v \in Workers : Busy(v)' => work'[v].file = work[v].file
    BY <2>4, NameStays DEF TInv
  <2> QED BY <2>1, <2>4, <2>5 DEF Waiting
<1>5. ASSUME NEW w \in Workers, Clean(w) PROVE Goal
  BY <1>5 DEF Clean, At, Waiting, Busy
<1>6. ASSUME NEW w \in Workers, Read(w) PROVE Goal
  <2>1. run' = run /\ \A v \in Workers : Busy(v)' => Busy(v)
    BY <1>6 DEF Read, Busy, At, TInv, Types
  <2>2. \A v \in Workers : Busy(v)' => work'[v].file = work[v].file
    BY <2>1, NameStays DEF TInv
  <2> QED BY <2>1, <2>2 DEF Waiting
<1>7. ASSUME NEW w \in Workers, Commit(w) PROVE Goal
  BY <1>7 DEF Commit, At, Waiting, Busy
<1>8. ASSUME NEW w \in Workers, WriteMarkdown(w) PROVE Goal
  BY <1>8 DEF WriteMarkdown, At, Waiting, Busy
<1>9. ASSUME NEW w \in Workers, WriteEntry(w) PROVE Goal
  BY <1>9 DEF WriteEntry, Finish, Waiting, Busy, Idle
<1>10. ASSUME NEW w \in Workers, ReadFails(w) PROVE Goal
  BY <1>10 DEF ReadFails, Finish, Waiting, Busy, Idle
<1>11. ASSUME NEW w \in Workers, CommitFails(w) PROVE Goal
  BY <1>11 DEF CommitFails, At, Waiting, Busy, TInv, Types
<1>12. ASSUME NEW w \in Workers, Hang(w) PROVE Goal
  BY <1>12 DEF Hang, At, Waiting, Busy
<1>13. CASE Submitted
  BY <1>13 DEF Submitted, Waiting, Busy
<1>14. CASE Finished
  BY <1>14 DEF Finished, Waiting, Busy
<1>15. CASE Timeout
  BY <1>15 DEF Timeout, Stopped, Waiting, Busy, Idle
<1>16. CASE TimeoutSlow
  BY <1>16 DEF TimeoutSlow, Stopped, Waiting, Busy, Idle
<1>17. CASE PoolBreaks
  BY <1>17 DEF PoolBreaks, Stopped, Waiting, Busy, Idle
<1>18. CASE Fallback
  <2>1. Incidents \cap {"fallback"} = {}
    BY DEF Quiet
  <2>2. \A g \in Files : result[g] = "none"
    BY <1>18, <2>1 DEF Fallback, Allowed
  <2>3. work' = [u \in Workers |-> Idle] /\ run'.queue = run.out /\ run'.inputs = run.inputs
    BY <1>18 DEF Fallback, Stopped, TInv, Types
  <2>4. f \in run.out
    BY <2>3 DEF Waiting, Busy, Idle
  <2> QED BY <2>2, <2>3, <2>4 DEF Open
<1>19. CASE Crash
  BY <1>19 DEF Crash, Stopped, NoRun, Waiting, Busy, Idle
<1>20. ASSUME NEW g \in Files, Collect(g) PROVE Goal
  BY <1>20 DEF Collect, Waiting, Busy
<1>21. ASSUME NEW g \in Files, NEW c \in Contents \cup {None}, Edit(g, c) PROVE Goal
  BY <1>21 DEF Edit, Waiting, Busy
<1>22. CASE UNCHANGED vars
  BY <1>22 DEF vars, Waiting, Busy
<1> QED BY Acts, <1>1, <1>2, <1>3, <1>4, <1>5, <1>6, <1>7, <1>8, <1>9, <1>10, <1>11, <1>12,
     <1>13, <1>14, <1>15, <1>16, <1>17, <1>18, <1>19, <1>20, <1>21, <1>22 DEF Act

\* A step keeps the contents apart.
LEMMA DifferStep ==
    ASSUME TInv, Quiet, Differ, [Next]_vars PROVE Differ'
<1> SUFFICES ASSUME NEW f \in Files, NEW g \in Files, pdf'[f] # None, pdf'[g] # None,
                    pdf'[f].content = pdf'[g].content, f # g
             PROVE  FALSE
  BY DEF Differ, Present
<1>1. CASE pdf'[f] = pdf[f] /\ pdf'[g] = pdf[g]
  BY <1>1 DEF Differ, Present
<1>2. CASE pdf'[f] # pdf[f]
  <2>1. pdf'[g] = pdf[g] /\ pdf[g].content # pdf'[f].content
    BY <1>2, PdfStays
  <2> QED BY <2>1
<1>3. CASE pdf'[g] # pdf[g]
  <2>1. pdf'[f] = pdf[f] /\ pdf[f].content # pdf'[g].content
    BY <1>3, PdfStays
  <2> QED BY <2>1
<1> QED BY <1>1, <1>2, <1>3

\* A step keeps what an entry's hash says.
LEMMA HashesStep ==
    ASSUME TInv, Quiet, Hashes, Holds, [Next]_vars PROVE Hashes'
<1> SUFFICES ASSUME NEW n \in Names, NEW f \in Files, pdf'[f] # None, entry'[n] # None,
                    entry'[n].hash = pdf'[f].content
             PROVE  entry'[n].file = f /\ entry'[n].stamp = pdf'[f].stamp
  BY DEF Hashes, Present
<1>1. CASE entry'[n] = entry[n]
  <2>1. pdf'[f] = pdf[f]
    BY <1>1, PdfStays
  <2> QED BY <1>1, <2>1 DEF Hashes, Present
<1>2. ASSUME NEW w \in Workers, WriteEntry(w), n = NameFor(w) PROVE entry'[n].file = f /\ entry'[n].stamp = pdf'[f].stamp
  <2>1. entry'[n] = [hash |-> work[w].hash, stamp |-> work[w].stamp, file |-> work[w].file]
        /\ pdf' = pdf /\ work[w].step = "written"
    BY <1>2 DEF WriteEntry, At, TInv, Types
  <2> QED BY <2>1 DEF Holds, Present, Statted
<1> QED BY <1>1, <1>2, Writers DEF WriteEntry, TInv, Types

\* A step keeps what a worker's hash says.
LEMMA HoldsStep ==
    ASSUME TInv, Quiet, Differ, Holds, [Next]_vars PROVE Holds'
<1> SUFFICES ASSUME NEW w \in Workers, NEW f \in Files, pdf'[f] # None, work'[w].hash = pdf'[f].content
             PROVE  work'[w].file = f /\ (work'[w].step \in Statted => work'[w].stamp = pdf'[f].stamp)
  BY DEF Holds, Present
<1>1. pdf'[f] = pdf[f]
  BY PdfStays
<1>2. pdf[f].content # None /\ f \in Present
  BY <1>1, IngestNames DEF TInv, Types, Pdfs, Present
<1>3. work[w] \in Works /\ (Busy(w) => work[w].file \in Files)
  BY DEF TInv, Types, Working, Runs
<1>4. CASE work[w].step = "taken" /\ work'[w].step = "hashed"
  <2>1. work'[w].file = work[w].file /\ pdf[work[w].file] # None /\ work'[w].hash = pdf[work[w].file].content
    BY <1>4, Moved DEF Moves, TInv, Idle
  <2>2. work[w].file = f
    BY <1>1, <1>2, <1>3, <1>4, <2>1 DEF Differ, Present, Busy
  <2> QED BY <1>4, <2>1, <2>2 DEF Statted
<1>5. CASE ~(work[w].step = "taken" /\ work'[w].step = "hashed")
  <2>1. work'[w].hash = work[w].hash /\ work'[w].file = work[w].file
        /\ \/ work'[w].step = work[w].step /\ work'[w].stamp = work[w].stamp
           \/ work[w].step = "hashed" /\ work'[w].stamp = IF pdf[work[w].file] = None THEN 0 ELSE pdf[work[w].file].stamp
           \/ work[w].step \in Statted /\ work'[w].stamp = work[w].stamp
    BY <1>1, <1>2, <1>5, Moved DEF Moves, TInv, Idle, Statted
  <2> QED BY <1>1, <1>2, <2>1 DEF Holds, Statted
<1> QED BY <1>4, <1>5

\* A step keeps what a worker's stamp says.
LEMMA ReadNowStep ==
    ASSUME TInv, Quiet, ReadNow, [Next]_vars PROVE ReadNow'
<1> SUFFICES ASSUME NEW w \in Workers, NEW f \in Files, pdf'[f] # None,
                    work'[w].step \in Parsed, work'[w].file = f, work'[w].stamp = pdf'[f].stamp
             PROVE  work'[w].of = pdf'[f].content
  BY DEF ReadNow, Present
<1>1. pdf'[f] = pdf[f]
  <2>1. CASE pdf'[f] # pdf[f]
    <3>1. work' = work /\ work[w].stamp < pdf'[f].stamp
      BY <2>1, PdfStays
    <3>2. work[w].stamp \in Nat /\ pdf'[f].stamp \in Nat
      BY TStep DEF TInv, Types, Works, Pdfs
    <3> QED BY <3>1, <3>2
  <2> QED BY <2>1
<1>2. CASE work[w].step = "clean" /\ work'[w].step = "read"
  <2>1. work'[w].file = work[w].file /\ work'[w].of = pdf[work[w].file].content
    BY <1>2, Moved DEF Moves, TInv, Idle
  <2> QED BY <1>1, <2>1
<1>3. CASE ~(work[w].step = "clean" /\ work'[w].step = "read")
  <2>1. work[w].step \in Parsed /\ work'[w].file = work[w].file /\ work'[w].of = work[w].of /\ work'[w].stamp = work[w].stamp
    BY <1>3, Moved DEF Moves, TInv, Idle, Parsed
  <2> QED BY <1>1, <2>1 DEF ReadNow, Present
<1> QED BY <1>2, <1>3

\* What waits after an entry was written has another name.
LEMMA WaitApart ==
    ASSUME TInv, NEW w \in Workers, WriteEntry(w) \/ WriteMarkdown(w), NEW f \in Files, Waiting(f)', Waiting(f),
           f # work[w].file
    PROVE  NameOf(f, run.inputs) # NameFor(w)
<1>1. f \in run.inputs /\ work[w].file \in run.inputs /\ run.inputs \in SUBSET Files
  BY DEF Waiting, WriteEntry, WriteMarkdown, At, Busy, TInv, Types, Working, Queued, Runs
<1> QED BY <1>1, NameDiffer DEF NameFor

\* A file whose entry is written waits no more.
LEMMA WroteLast ==
    ASSUME TInv, NEW w \in Workers, WriteEntry(w), NEW f \in Files, Waiting(f)'
    PROVE  f # work[w].file
<1>1. Busy(w) /\ work' = [work EXCEPT ![w] = Idle] /\ run' = run
  BY DEF WriteEntry, At, Busy, Finish
<1>2. work[w].file \notin run.queue
  BY <1>1 DEF TInv, Working
<1>3. \A v \in Workers : Busy(v)' => v # w /\ Busy(v) /\ work'[v] = work[v]
  BY <1>1 DEF Busy, TInv, Types, Idle
<1>4. \A v \in Workers : Busy(v)' => work[v].file # work[w].file
  BY <1>1, <1>3 DEF TInv, Queued
<1> QED BY <1>1, <1>2, <1>3, <1>4 DEF Waiting

\* The entry under the name of what waits is left alone.
LEMMA EntryStays ==
    ASSUME TInv, Quiet, [Next]_vars, NEW f \in Files, Waiting(f), Waiting(f)', run'.inputs = run.inputs
    PROVE  entry'[NameOf(f, run.inputs)] = entry[NameOf(f, run.inputs)]
<1>1. CASE entry' = entry
  BY <1>1
<1>2. ASSUME NEW w \in Workers, WriteEntry(w)
      PROVE  entry'[NameOf(f, run.inputs)] = entry[NameOf(f, run.inputs)]
  <2>1. NameOf(f, run.inputs) # NameFor(w)
    BY <1>2, WroteLast, WaitApart
  <2>2. NameOf(f, run.inputs) \in Names
    BY NameIn
  <2> QED BY <1>2, <2>1, <2>2 DEF WriteEntry, TInv
<1> QED BY <1>1, <1>2, Writers DEF TInv

\* A step keeps what waits without a match: a run only hands out what has none.
LEMMA DueStep ==
    ASSUME TInv, Quiet, Hashes, Open, Due, [Next]_vars PROVE Due'
<1> SUFFICES ASSUME NEW f \in run'.inputs, Waiting(f)', Match(NameOf(f, run.inputs), f)' PROVE FALSE
  BY DEF Due
<1>0. f \in Files
  BY TStep DEF TInv, Types, Runs
<1>1. ASSUME NEW pool \in BOOLEAN, Start(pool), f \in Present, ~Unchanged(f, Present) PROVE FALSE
  <2> DEFINE n == NameOf(f, Present)
  <2>1. run'.inputs = Present /\ UNCHANGED <<pdf, md, entry>>
    BY <1>1 DEF Start, corpus
  <2>2. Match(n, f) /\ n \in Names
    BY <1>0, <2>1, NameIn DEF Match
  <2>3. entry[n].file = f /\ entry[n].stamp = pdf[f].stamp
    BY <1>1, <2>2 DEF Match, Hashes
  <2>4. md[n] # None
    BY <2>2 DEF Match, TInv, Wrote
  <2> QED BY <1>1, <2>2, <2>3, <2>4 DEF Unchanged, Match
<1>2. CASE Waiting(f) /\ run'.inputs = run.inputs
  <2>0. PICK n \in Names : n = NameOf(f, run.inputs)
    BY <1>0, NameIn
  <2>1. entry'[n] = entry[n]
    BY <1>0, <1>2, <2>0, EntryStays
  <2>2. Match(n, f)'
    BY <1>2, <2>0 DEF Match
  <2>3. Match(n, f)
    BY <1>0, <2>1, <2>2, MatchStays
  <2> QED BY <1>2, <2>0, <2>3 DEF Due
<1> QED BY <1>0, <1>1, <1>2, WaitStays

\* A step keeps the workers from finding their file unchanged.
LEMMA NotFoundStep ==
    ASSUME TInv, Quiet, Due, NotFound, [Next]_vars PROVE NotFound'
<1> SUFFICES ASSUME NEW w \in Workers, work'[w].step = "hashed", entry'[NameFor(w)'] # None,
                    entry'[NameFor(w)'].hash = work'[w].hash
             PROVE  FALSE
  BY DEF NotFound
<1>1. /\ work'[w].file = work[w].file
      /\ \/ work[w].step = "hashed" /\ work'[w].hash = work[w].hash
         \/ work[w].step = "taken" /\ pdf[work[w].file] # None /\ work'[w].hash = pdf[work[w].file].content
  BY Moved DEF Moves, TInv, Idle
<1>2. Busy(w) /\ Busy(w)' /\ NameFor(w)' = NameFor(w) /\ run'.inputs = run.inputs
  BY <1>1, NameStays DEF Busy, TInv
<1>3. work[w].file \in run.inputs /\ work[w].file \in Files /\ Waiting(work[w].file) /\ Waiting(work[w].file)'
  BY <1>1, <1>2 DEF Waiting, TInv, Types, Working, Queued, Runs
<1>4. entry'[NameFor(w)] = entry[NameFor(w)]
  <2>1. PICK f \in Files : f = work[w].file
    BY <1>3
  <2>2. Waiting(f) /\ Waiting(f)'
    BY <1>3, <2>1, <1>1 DEF Waiting
  <2> QED BY <1>2, <2>1, <2>2, EntryStays DEF NameFor
<1>5. CASE work[w].step = "hashed" /\ work'[w].hash = work[w].hash
  BY <1>2, <1>4, <1>5 DEF NotFound
<1>6. CASE pdf[work[w].file] # None /\ work'[w].hash = pdf[work[w].file].content
  <2>1. Match(NameFor(w), work[w].file)
    BY <1>2, <1>4, <1>6 DEF Match
  <2> QED BY <1>3, <2>1 DEF Due, NameFor
<1> QED BY <1>1, <1>5, <1>6

\* A worker that goes on or settles its file leaves nothing unsettled.
LEMMA OpenLeft ==
    ASSUME TInv, Open, NEW w \in Workers, Busy(w), run' = run,
           \A v \in Workers : v # w => work'[v] = work[v],
           \A f \in Files : f # work[w].file => result'[f] = result[f],
           \/ result'[work[w].file] # "none"
           \/ Busy(w)' /\ work'[w].file = work[w].file
    PROVE  Open'
<1> SUFFICES ASSUME NEW f \in run.out, result'[f] = "none" PROVE Waiting(f)'
  BY DEF Open
<1>1. f \in Files
  BY DEF TInv, Types, Runs
<1>2. CASE f = work[w].file
  BY <1>2 DEF Waiting
<1>3. CASE f # work[w].file
  <2>1. Waiting(f)
    BY <1>1, <1>3 DEF Open
  <2> QED BY <1>3, <2>1 DEF Waiting, Busy
<1> QED BY <1>2, <1>3

\* A step leaves what is out settled or waiting.
LEMMA OpenStep ==
    ASSUME TInv, Open, [Next]_vars PROVE Open'
<1>1. ASSUME NEW pool \in BOOLEAN, Start(pool) PROVE Open'
  BY <1>1 DEF Start, Open, Waiting
<1>2. ASSUME NEW w \in Workers, Take(w) PROVE Open'
  BY <1>2 DEF Take, At, Open, Waiting, Busy, TInv, Types
<1>3. ASSUME NEW w \in Workers, HashFile(w) PROVE Open'
  <2>1. run' = run /\ Busy(w)
    BY <1>3 DEF HashFile, At, Busy
  <2>2. work[w] \in Works /\ work[w].file \in Files
    BY <2>1 DEF TInv, Types, Working, Runs
  <2>3. \/ work' = [work EXCEPT ![w] = Idle] /\ \E s \in {"failed", "unlisted"} : result' = [result EXCEPT ![work[w].file] = s]
        \/ result' = result /\ \E h : work' = [work EXCEPT ![w].hash = h, ![w].step = "hashed"]
        \/ result' = result /\ \E h : work' = [work EXCEPT ![w].stamp = h, ![w].step = "new"]
    BY <1>3 DEF HashFile, Finish
  <2>4. \A v \in Workers : v # w => work'[v] = work[v]
    BY <2>3 DEF TInv, Types
  <2>5. \A f \in Files : f # work[w].file => result'[f] = result[f]
    BY <2>3 DEF TInv, Types
  <2>6. result'[work[w].file] # "none" \/ (Busy(w)' /\ work'[w].file = work[w].file)
    <3>1. ASSUME NEW s \in {"failed", "unlisted"}, result' = [result EXCEPT ![work[w].file] = s]
          PROVE  result'[work[w].file] # "none"
      BY <2>2, <3>1 DEF TInv, Types
    <3>2. ASSUME NEW h, \/ work' = [work EXCEPT ![w].hash = h, ![w].step = "hashed"]
                        \/ work' = [work EXCEPT ![w].stamp = h, ![w].step = "new"]
          PROVE  Busy(w)' /\ work'[w].file = work[w].file
      <4>1. \/ work'[w] = [work[w] EXCEPT !.hash = h, !.step = "hashed"]
            \/ work'[w] = [work[w] EXCEPT !.stamp = h, !.step = "new"]
        BY <3>2 DEF TInv, Types
      <4> QED BY <2>2, <4>1 DEF Busy, Works
    <3> QED BY <2>3, <3>1, <3>2
  <2> QED BY <2>1, <2>4, <2>5, <2>6, OpenLeft
<1>4. ASSUME NEW w \in Workers, StatFile(w) PROVE Open'
  <2>1. run' = run /\ Busy(w)
    BY <1>4 DEF StatFile, At, Busy
  <2>2. work[w] \in Works /\ work[w].file \in Files
    BY <2>1 DEF TInv, Types, Working, Runs
  <2>3. \/ work' = [work EXCEPT ![w] = Idle] /\ \E s \in {"failed", "unlisted"} : result' = [result EXCEPT ![work[w].file] = s]
        \/ result' = result /\ \E h : work' = [work EXCEPT ![w].hash = h, ![w].step = "hashed"]
        \/ result' = result /\ \E h : work' = [work EXCEPT ![w].stamp = h, ![w].step = "new"]
    BY <1>4 DEF StatFile, Finish
  <2>4. \A v \in Workers : v # w => work'[v] = work[v]
    BY <2>3 DEF TInv, Types
  <2>5. \A f \in Files : f # work[w].file => result'[f] = result[f]
    BY <2>3 DEF TInv, Types
  <2>6. result'[work[w].file] # "none" \/ (Busy(w)' /\ work'[w].file = work[w].file)
    <3>1. ASSUME NEW s \in {"failed", "unlisted"}, result' = [result EXCEPT ![work[w].file] = s]
          PROVE  result'[work[w].file] # "none"
      BY <2>2, <3>1 DEF TInv, Types
    <3>2. ASSUME NEW h, \/ work' = [work EXCEPT ![w].hash = h, ![w].step = "hashed"]
                        \/ work' = [work EXCEPT ![w].stamp = h, ![w].step = "new"]
          PROVE  Busy(w)' /\ work'[w].file = work[w].file
      <4>1. \/ work'[w] = [work[w] EXCEPT !.hash = h, !.step = "hashed"]
            \/ work'[w] = [work[w] EXCEPT !.stamp = h, !.step = "new"]
        BY <3>2 DEF TInv, Types
      <4> QED BY <2>2, <4>1 DEF Busy, Works
    <3> QED BY <2>3, <3>1, <3>2
  <2> QED BY <2>1, <2>4, <2>5, <2>6, OpenLeft
<1>5. ASSUME NEW w \in Workers, Clean(w) PROVE Open'
  <2>1. run' = run /\ Busy(w)
    BY <1>5 DEF Clean, At, Busy
  <2>2. work[w] \in Works /\ work[w].file \in Files
    BY <2>1 DEF TInv, Types, Working, Runs
  <2>3. /\ \A v \in Workers : v # w => work'[v] = work[v]
        /\ \A f \in Files : f # work[w].file => result'[f] = result[f]
        /\ \/ result'[work[w].file] # "none"
           \/ Busy(w)' /\ work'[w].file = work[w].file
    BY <1>5, <2>2 DEF Clean, At, Busy
  <2> QED BY <2>1, <2>3, OpenLeft
<1>6. ASSUME NEW w \in Workers, Read(w) PROVE Open'
  <2>1. run' = run /\ result' = result /\ Busy(w)
    BY <1>6 DEF Read, At, Busy
  <2>2. work[w] \in Works /\ work[w].file \in Files
    BY <2>1 DEF TInv, Types, Working, Runs
  <2>3. \E h, k : work' = [work EXCEPT ![w].of = h, ![w].shows = k, ![w].step = "read"]
    BY <1>6 DEF Read
  <2>4. /\ \A v \in Workers : v # w => work'[v] = work[v]
        /\ Busy(w)' /\ work'[w].file = work[w].file
    BY <2>2, <2>3 DEF Busy, TInv, Types
  <2> QED BY <2>1, <2>4, OpenLeft
<1>7. ASSUME NEW w \in Workers, Commit(w) PROVE Open'
  <2>1. run' = run /\ Busy(w)
    BY <1>7 DEF Commit, At, Busy
  <2>2. work[w] \in Works /\ work[w].file \in Files
    BY <2>1 DEF TInv, Types, Working, Runs
  <2>3. /\ \A v \in Workers : v # w => work'[v] = work[v]
        /\ \A f \in Files : f # work[w].file => result'[f] = result[f]
        /\ \/ result'[work[w].file] # "none"
           \/ Busy(w)' /\ work'[w].file = work[w].file
    BY <1>7, <2>2 DEF Commit, At, Busy
  <2> QED BY <2>1, <2>3, OpenLeft
<1>8. ASSUME NEW w \in Workers, WriteMarkdown(w) PROVE Open'
  <2>1. run' = run /\ Busy(w)
    BY <1>8 DEF WriteMarkdown, At, Busy
  <2>2. work[w] \in Works /\ work[w].file \in Files
    BY <2>1 DEF TInv, Types, Working, Runs
  <2>3. /\ \A v \in Workers : v # w => work'[v] = work[v]
        /\ \A f \in Files : f # work[w].file => result'[f] = result[f]
        /\ \/ result'[work[w].file] # "none"
           \/ Busy(w)' /\ work'[w].file = work[w].file
    BY <1>8, <2>2 DEF WriteMarkdown, At, Busy
  <2> QED BY <2>1, <2>3, OpenLeft
<1>9. ASSUME NEW w \in Workers, WriteEntry(w) PROVE Open'
  <2>1. run' = run /\ Busy(w)
    BY <1>9 DEF WriteEntry, At, Busy
  <2>2. work[w] \in Works /\ work[w].file \in Files
    BY <2>1 DEF TInv, Types, Working, Runs
  <2>3. /\ \A v \in Workers : v # w => work'[v] = work[v]
        /\ \A f \in Files : f # work[w].file => result'[f] = result[f]
        /\ \/ result'[work[w].file] # "none"
           \/ Busy(w)' /\ work'[w].file = work[w].file
    BY <1>9, <2>2 DEF WriteEntry, Finish, TInv, Types
  <2> QED BY <2>1, <2>3, OpenLeft
<1>10. ASSUME NEW w \in Workers, ReadFails(w) PROVE Open'
  <2>1. run' = run /\ Busy(w)
    BY <1>10 DEF ReadFails, At, Busy
  <2>2. work[w] \in Works /\ work[w].file \in Files
    BY <2>1 DEF TInv, Types, Working, Runs
  <2>3. /\ \A v \in Workers : v # w => work'[v] = work[v]
        /\ \A f \in Files : f # work[w].file => result'[f] = result[f]
        /\ \/ result'[work[w].file] # "none"
           \/ Busy(w)' /\ work'[w].file = work[w].file
    BY <1>10, <2>2 DEF ReadFails, Finish, TInv, Types
  <2> QED BY <2>1, <2>3, OpenLeft
<1>11. ASSUME NEW w \in Workers, CommitFails(w) PROVE Open'
  <2>1. run' = run /\ Busy(w)
    BY <1>11 DEF CommitFails, At, Busy
  <2>2. work[w] \in Works /\ work[w].file \in Files
    BY <2>1 DEF TInv, Types, Working, Runs
  <2>3. /\ \A v \in Workers : v # w => work'[v] = work[v]
        /\ \A f \in Files : f # work[w].file => result'[f] = result[f]
        /\ \/ result'[work[w].file] # "none"
           \/ Busy(w)' /\ work'[w].file = work[w].file
    BY <1>11, <2>2 DEF CommitFails, Busy, TInv, Types
  <2> QED BY <2>1, <2>3, OpenLeft
<1>12. ASSUME NEW w \in Workers, Hang(w) PROVE Open'
  <2>1. run' = run /\ Busy(w)
    BY <1>12 DEF Hang, At, Busy
  <2>2. work[w] \in Works /\ work[w].file \in Files
    BY <2>1 DEF TInv, Types, Working, Runs
  <2>3. /\ \A v \in Workers : v # w => work'[v] = work[v]
        /\ \A f \in Files : f # work[w].file => result'[f] = result[f]
        /\ \/ result'[work[w].file] # "none"
           \/ Busy(w)' /\ work'[w].file = work[w].file
    BY <1>12, <2>2 DEF Hang, At, Busy
  <2> QED BY <2>1, <2>3, OpenLeft
<1>13. CASE Submitted
  BY <1>13 DEF Submitted, Open, Waiting, Busy
<1>14. CASE Finished
  BY <1>14 DEF Finished, Open
<1>15. CASE Timeout
  BY <1>15 DEF Timeout, Open
<1>16. CASE TimeoutSlow
  BY <1>16 DEF TimeoutSlow, Open
<1>17. CASE PoolBreaks
  BY <1>17 DEF PoolBreaks, Open, TInv, Types, Runs
<1>18. CASE Fallback
  BY <1>18 DEF Fallback, Open, Waiting
<1>19. CASE Crash
  BY <1>19 DEF Crash, NoRun, Open
<1>20. ASSUME NEW f \in Files, Collect(f) PROVE Open'
  BY <1>20 DEF Collect, Open, Waiting, Busy
<1>21. ASSUME NEW f \in Files, NEW c \in Contents \cup {None}, Edit(f, c) PROVE Open'
  BY <1>21 DEF Edit, Open, Waiting, Busy
<1>22. CASE UNCHANGED vars
  BY <1>22 DEF vars, Open, Waiting, Busy
<1> QED BY Acts, <1>1, <1>2, <1>3, <1>4, <1>5, <1>6, <1>7, <1>8, <1>9, <1>10, <1>11, <1>12,
     <1>13, <1>14, <1>15, <1>16, <1>17, <1>18, <1>19, <1>20, <1>21, <1>22 DEF Act

\* A step leaves what is not out listed.
LEMMA ToldStep ==
    ASSUME TInv, NotFound, Told, [Next]_vars PROVE Told'
<1>1. ASSUME NEW pool \in BOOLEAN, Start(pool) PROVE Told'
  <2> DEFINE pending == {f \in Present : ~Unchanged(f, Present)}
  <2>1. /\ run'.inputs = Present /\ run'.out = pending
        /\ report' = Listed(Present \ pending) /\ result' = NoReport
    BY <1>1 DEF Start
  <2>2. pending \subseteq Present /\ Present \subseteq Files
    BY DEF Present
  <2> HIDE DEF pending
  <2> QED BY <2>1, <2>2 DEF Told, Listed, NoReport
<1>2. ASSUME NEW w \in Workers, Take(w) PROVE Told'
  BY <1>2 DEF Take, Told
<1>3. ASSUME NEW w \in Workers, HashFile(w) PROVE Told'
  BY <1>3 DEF HashFile, Finish, Told, TInv, Types
<1>4. ASSUME NEW w \in Workers, StatFile(w) PROVE Told'
  <2>1. ~(entry[NameFor(w)] # None /\ entry[NameFor(w)].hash = work[w].hash)
    BY <1>4 DEF StatFile, At, NotFound
  <2>2. UNCHANGED <<run, result, report>>
    BY <1>4, <2>1 DEF StatFile
  <2> QED BY <2>2 DEF Told
<1>5. ASSUME NEW w \in Workers, Clean(w) PROVE Told'
  BY <1>5 DEF Clean, Told
<1>6. ASSUME NEW w \in Workers, Read(w) PROVE Told'
  BY <1>6 DEF Read, Told
<1>7. ASSUME NEW w \in Workers, Commit(w) PROVE Told'
  BY <1>7 DEF Commit, Told
<1>8. ASSUME NEW w \in Workers, WriteMarkdown(w) PROVE Told'
  BY <1>8 DEF WriteMarkdown, Told
<1>9. ASSUME NEW w \in Workers, WriteEntry(w) PROVE Told'
  BY <1>9 DEF WriteEntry, Finish, Told
<1>10. ASSUME NEW w \in Workers, ReadFails(w) PROVE Told'
  BY <1>10 DEF ReadFails, Finish, Told
<1>11. ASSUME NEW w \in Workers, CommitFails(w) PROVE Told'
  BY <1>11 DEF CommitFails, Told
<1>12. ASSUME NEW w \in Workers, Hang(w) PROVE Told'
  BY <1>12 DEF Hang, Told
<1>13. CASE Submitted
  BY <1>13 DEF Submitted, Told
<1>14. CASE Finished
  BY <1>14 DEF Finished, Told
<1>15. CASE Timeout
  BY <1>15 DEF Timeout, Told, TInv, Types, Runs
<1>16. CASE TimeoutSlow
  BY <1>16 DEF TimeoutSlow, Told, TInv, Types, Runs
<1>17. CASE PoolBreaks
  BY <1>17 DEF PoolBreaks, Told
<1>18. CASE Fallback
  BY <1>18 DEF Fallback, NoReport, Told
<1>19. CASE Crash
  BY <1>19 DEF Crash, NoRun, NoReport, Told
<1>20. ASSUME NEW f \in Files, Collect(f) PROVE Told'
  BY <1>20 DEF Collect, Told, TInv, Types
<1>21. ASSUME NEW f \in Files, NEW c \in Contents \cup {None}, Edit(f, c) PROVE Told'
  BY <1>21 DEF Edit, Told
<1>22. CASE UNCHANGED vars
  BY <1>22 DEF vars, Told
<1> QED BY Acts, <1>1, <1>2, <1>3, <1>4, <1>5, <1>6, <1>7, <1>8, <1>9, <1>10, <1>11, <1>12,
     <1>13, <1>14, <1>15, <1>16, <1>17, <1>18, <1>19, <1>20, <1>21, <1>22 DEF Act

\* The invariant holds at the beginning, every step keeps it, and it always holds.
LEMMA QInit ==
    ASSUME Init, Quiet PROVE QInv
<1>1. Differ
  <2>1. PICK g \in Given :
            /\ Allowed("twin", \E f, h \in Files : f # h /\ g[f] # None /\ g[f] = g[h])
            /\ pdf = [f \in Files |-> IF g[f] = None THEN None ELSE [content |-> g[f], stamp |-> 0]]
    BY DEF Init
  <2>2. \A f, h \in Files : f # h /\ g[f] # None => g[f] # g[h]
    BY <2>1 DEF Quiet, Allowed
  <2> QED BY <2>1, <2>2 DEF Differ, Present
<1>2. Hashes /\ NotFound /\ ReadNow
  BY DEF Init, Hashes, NotFound, ReadNow, Idle, Parsed
<1>3. Holds
  <2>1. \A f \in Present : pdf[f].content # None
    BY TInit, IngestNames DEF TInv, Types, Pdfs, Present
  <2> QED BY <2>1 DEF Init, Holds, Idle
<1>4. Due /\ Open /\ Told
  BY DEF Init, Due, Open, Told, NoRun, NoReport
<1> QED BY <1>1, <1>2, <1>3, <1>4, TInit DEF QInv

LEMMA QStep ==
    ASSUME QInv, Quiet, [Next]_vars PROVE QInv'
BY TStep, DifferStep, HashesStep, HoldsStep, ReadNowStep, DueStep, NotFoundStep, OpenStep,
   ToldStep DEF QInv

LEMMA QAlways == ASSUME Quiet PROVE Spec => []QInv
<1>1. Init => QInv
  BY QInit
<1>2. QInv /\ [Next]_vars => QInv'
  BY QStep
<1> QED BY <1>1, <1>2, PTL DEF Spec

\* The state is well-formed, and a run that came to its end has listed every input,
\* whatever was edited, failed, hung, died or was interrupted, in a Quiet directory.
THEOREM Sound == ASSUME Quiet PROVE Spec => []IngestSound
<1>1. ASSUME QInv PROVE IngestSound
  BY <1>1, TypeOKHolds DEF QInv, TInv, Told, Queued, IngestSound, Accounted
<1> QED BY <1>1, QAlways, PTL

-----------------------------------------------------------------------------
(* Names that come back.                                                  *)

\* No PDF gets back a name whose entry matches it.
Named == "renamed" \notin Incidents

\* Nothing matches the entry under a name that is to be written.
DueName ==
    \A f \in run.inputs, g \in Present :
        Waiting(f) /\ NameOf(g, Present) = NameOf(f, run.inputs) => ~Match(NameOf(f, run.inputs), g)
\* Nor does what waits match under the name that it has by now.
DueNow == \A f \in Present : Waiting(f) => ~Match(NameOf(f, Present), f)
\* What matches under its name has Markdown of its content.
Current == \A f \in Present : Match(NameOf(f, Present), f) => md[NameOf(f, Present)].of = pdf[f].content

\* What the names need.
NInv == QInv /\ DueName /\ DueNow /\ Current

\* A PDF that is there and does not change matches nothing under a new name.
LEMMA NewName ==
    ASSUME TInv, Quiet, Named, [Next]_vars, NEW f \in Files, pdf[f] # None, pdf'[f] = pdf[f],
           NEW n \in Names, n = NameOf(f, Present'), n # NameOf(f, Present)
    PROVE  ~Match(n, f) /\ ~Match(n, f)' /\ UNCHANGED <<md, entry, run, work>>
<1>1. CASE pdf' = pdf
  BY <1>1 DEF Present
<1>2. ASSUME NEW g \in Files, NEW c \in Contents \cup {None}, Edit(g, c)
      PROVE ~Match(n, f) /\ ~Match(n, f)' /\ UNCHANGED <<md, entry, run, work>>
  <2>1. pdf' = [pdf EXCEPT ![g] = IF c = None THEN None ELSE [content |-> c, stamp |-> count'.edits]]
        /\ UNCHANGED <<md, entry, run, work>>
    BY <1>2 DEF Edit, corpus
  <2>2. count'.edits \in Nat
    BY Writers DEF TInv
  <2>3. c # None => [content |-> c, stamp |-> count'.edits] # None
    BY <2>2, IngestNames
  <2>4. Present' = IF c = None THEN Present \ {g} ELSE Present \cup {g}
    BY <2>1, <2>3 DEF Present, TInv, Types
  <2>5. CASE f = g
    <3>1. c # None
      BY <2>1, <2>5 DEF TInv, Types
    <3>2. Present' = Present
      BY <2>4, <2>5, <3>1 DEF Present
    <3> QED BY <3>2
  <2>6. CASE f # g
    <3>1. f \in Present \ {g}
      BY <2>6 DEF Present
    <3>2. /\ ~(LET m == NameOf(f, IF c = None THEN Present \ {g} ELSE Present \cup {g}) IN
               /\ m # NameOf(f, Present)
               /\ entry[m] # None
               /\ \/ entry[m].hash = pdf[f].content
                  \/ entry[m].file = f /\ entry[m].stamp = pdf[f].stamp)
      BY <1>2, <3>1 DEF Edit, Allowed, Named
    <3>3. ~Match(n, f)
      BY <2>4, <3>2 DEF Match
    <3> QED BY <2>1, <3>3 DEF Match
  <2> QED BY <2>5, <2>6
<1> QED BY <1>1, <1>2, Writers DEF TInv

\* A PDF that matches under its name after a step has the same name, and the same
\* match, as before, if the entry was not written.
LEMMA NameKept ==
    ASSUME TInv, Quiet, Named, [Next]_vars, NEW f \in Files, NEW n \in Names, n = NameOf(f, Present'),
           entry'[n] = entry[n], Match(n, f)'
    PROVE  n = NameOf(f, Present) /\ Match(n, f) /\ pdf'[f] = pdf[f] /\ f \in Present
<1>1. Match(n, f) /\ pdf'[f] = pdf[f]
  BY MatchStays
<1>2. pdf[f] # None
  BY <1>1 DEF Match
<1> QED BY <1>1, <1>2, NewName DEF Present

\* A step brings no match under a name that is to be written.
LEMMA DueNameStep ==
    ASSUME QInv, Quiet, Named, DueName, [Next]_vars PROVE DueName'
<1> SUFFICES ASSUME NEW f \in run'.inputs, NEW g \in Files, NEW n \in Names, Waiting(f)', g \in Present',
                    n = NameOf(g, Present'), n = NameOf(f, run'.inputs), Match(n, g)'
             PROVE  FALSE
  BY NameIn DEF DueName, Present, Match
<1>0. f \in Files
  BY QStep DEF QInv, TInv, Types, Runs
<1>1. ASSUME NEW pool \in BOOLEAN, Start(pool), f \in Present, ~Unchanged(f, Present) PROVE FALSE
  <2>1. run'.inputs = Present /\ pdf' = pdf
    BY <1>1 DEF Start
  <2>2. Present' = Present /\ Present \in SUBSET Files
    BY <2>1 DEF Present
  <2>3. f = g
    BY <1>1, <2>1, <2>2, NameDiffer
  <2>4. Match(NameOf(f, run.inputs), f)'
    BY <2>3 DEF Match
  <2> QED BY <2>4, QStep DEF QInv, Due
<1>2. CASE Waiting(f) /\ run'.inputs = run.inputs
  <2>1. entry'[n] = entry[n]
    BY <1>0, <1>2, EntryStays DEF QInv
  <2>2. n = NameOf(g, Present) /\ Match(n, g) /\ g \in Present
    BY <2>1, NameKept DEF QInv
  <2> QED BY <1>2, <2>2 DEF DueName
<1> QED BY <1>0, <1>1, <1>2, WaitStays DEF QInv

\* A step brings no match for what waits.
LEMMA DueNowStep ==
    ASSUME QInv, Quiet, Named, DueNow, [Next]_vars PROVE DueNow'
<1> SUFFICES ASSUME NEW f \in Files, NEW n \in Names, Waiting(f)', f \in Present',
                    n = NameOf(f, Present'), Match(n, f)'
             PROVE  FALSE
  BY NameIn DEF DueNow, Present, Match
<1>1. ASSUME NEW pool \in BOOLEAN, Start(pool), f \in Present, ~Unchanged(f, Present) PROVE FALSE
  <2>1. run'.inputs = Present /\ pdf' = pdf
    BY <1>1 DEF Start
  <2>2. Present' = Present
    BY <2>1 DEF Present
  <2>3. Match(NameOf(f, run.inputs), f)' /\ f \in run'.inputs
    BY <1>1, <2>1, <2>2 DEF Match
  <2> QED BY <2>3, QStep DEF QInv, Due
<1>2. CASE Waiting(f)
  <2>1. CASE entry'[n] = entry[n]
    BY <1>2, <2>1, NameKept DEF QInv, DueNow
  <2>2. ASSUME NEW w \in Workers, WriteEntry(w), n = NameFor(w) PROVE FALSE
    <3>1. entry'[n] = [hash |-> work[w].hash, stamp |-> work[w].stamp, file |-> work[w].file]
          /\ pdf' = pdf /\ work[w].step = "written"
      BY <2>2 DEF WriteEntry, At, QInv, TInv, Types
    <3>2. f # work[w].file
      BY <2>2, WroteLast DEF QInv
    <3>3. pdf[f].content # work[w].hash
      BY <3>1, <3>2 DEF QInv, Holds, Present
    <3> QED BY <3>1, <3>2, <3>3 DEF Match
  <2> QED BY <2>1, <2>2, Writers DEF WriteEntry, QInv, TInv, Types
<1> QED BY <1>1, <1>2, WaitStays DEF QInv

\* A step keeps the Markdown of what matches.
LEMMA CurrentStep ==
    ASSUME QInv, Quiet, Named, DueName, Current, [Next]_vars PROVE Current'
<1> SUFFICES ASSUME NEW f \in Files, NEW n \in Names, f \in Present', n = NameOf(f, Present'), Match(n, f)'
             PROVE  md'[n].of = pdf'[f].content
  BY NameIn DEF Current, Present, Match
<1>1. CASE entry'[n] = entry[n]
  <2>1. n = NameOf(f, Present) /\ Match(n, f) /\ pdf'[f] = pdf[f] /\ f \in Present
    BY <1>1, NameKept DEF QInv
  <2>2. ASSUME NEW w \in Workers, WriteMarkdown(w), n = NameFor(w) PROVE FALSE
    <3>1. Busy(w) /\ work[w].file \in run.inputs
      BY <2>2 DEF WriteMarkdown, At, Busy, QInv, TInv, Working, Queued
    <3>2. PICK g \in run.inputs : g = work[w].file
      BY <3>1
    <3>3. Waiting(g) /\ n = NameOf(g, run.inputs)
      BY <2>2, <3>1, <3>2 DEF Waiting, NameFor
    <3> QED BY <2>1, <3>3 DEF DueName
  <2>3. md'[n] = md[n]
    BY <2>2, Writers DEF WriteMarkdown, QInv, TInv, Types
  <2> QED BY <2>1, <2>3 DEF Current
<1>2. ASSUME NEW w \in Workers, WriteEntry(w), n = NameFor(w) PROVE md'[n].of = pdf'[f].content
  <2>1. entry'[n] = [hash |-> work[w].hash, stamp |-> work[w].stamp, file |-> work[w].file]
        /\ pdf' = pdf /\ md' = md /\ work[w].step = "written"
    BY <1>2 DEF WriteEntry, At, QInv, TInv, Types
  <2>2. md[n].of = work[w].of
    <3>1. md[NameFor(w)] = [of |-> work[w].of, hash |-> work[w].hash, shows |-> work[w].shows]
      BY <2>1 DEF QInv, TInv, Wrote
    <3> QED BY <1>2, <3>1
  <2>3. f \in Present /\ (work[w].hash = pdf[f].content \/ (work[w].file = f /\ work[w].stamp = pdf[f].stamp))
    BY <2>1 DEF Match, Present
  <2>4. work[w].file = f /\ work[w].stamp = pdf[f].stamp
    BY <2>1, <2>3 DEF QInv, Holds, Statted
  <2> QED BY <2>1, <2>2, <2>3, <2>4 DEF QInv, ReadNow, Parsed
<1> QED BY <1>1, <1>2, Writers DEF WriteEntry, QInv, TInv, Types

\* The invariant holds at the beginning, every step keeps it, and it always holds.
LEMMA NInit ==
    ASSUME Init, Quiet PROVE NInv
<1>1. DueName /\ DueNow /\ Current
  BY NameIn DEF Init, DueName, DueNow, Current, Match, Present
<1> QED BY <1>1, QInit DEF NInv

LEMMA NStep ==
    ASSUME NInv, Quiet, Named, [Next]_vars PROVE NInv'
BY QStep, DueNameStep, DueNowStep, CurrentStep DEF NInv

LEMMA NAlways == ASSUME Quiet, Named PROVE Spec => []NInv
<1>1. Init => NInv
  BY NInit
<1>2. NInv /\ [Next]_vars => NInv'
  BY NStep
<1> QED BY <1>1, <1>2, PTL DEF Spec

\* A PDF that a run would skip, by its stamp or by its hash, has Markdown of the
\* content that it has, whatever was interrupted, if no PDF gets back an old name
\* either.
THEOREM NothingStale == ASSUME Quiet, Named PROVE Spec => []SkipSound
<1>1. ASSUME NInv PROVE SkipSound
  BY <1>1 DEF NInv, Current, Match, SkipSound, Unchanged, Present
<1> QED BY <1>1, NAlways, PTL

-----------------------------------------------------------------------------
(* Figures.                                                                *)

\* No figure is saved again in a batch that began with it.
Rearm == "rearmed" \notin Incidents

\* What the open batch of a worker would add to the manifest.
Stale(v) == IF batch[v] = None THEN {} ELSE batch[v].now \ batch[v].base

\* A batch removes nothing.
Grows == \A v \in Workers : batch[v] # None => batch[v].base \subseteq batch[v].now
\* A figure that was read has its file and is in the batch.
Saved == \A w \in Workers : work[w].step = "read" /\ work[w].shows => work[w].hash \in images \cap Stale(w)
\* A figure that will be shown has its file and is in the manifest.
Kept ==
    \A w \in Workers : work[w].step \in {"parsed", "written"} /\ work[w].shows => work[w].hash \in images \cap manifest
\* Two workers have two hashes.
Alone == \A v, w \in Workers : work[v].hash = work[w].hash /\ work[v].hash # None => v = w
\* What was cleaned stays out of the manifest until the figure is read.
Cleaned == \A w \in Workers : work[w].step = "clean" => work[w].hash \notin manifest

\* A figure in a batch that is still open is of the file that its worker has
\* read, or of one that is done with, which has the hash in its entry, or
\* nobody works any more. Nobody will clean it.
Past(v, h) ==
    \/ work[v].hash = h
    \/ \E f \in run.inputs : /\ ~Waiting(f)
                             /\ entry[NameOf(f, run.inputs)] # None /\ entry[NameOf(f, run.inputs)].hash = h
    \/ run.queue = {} /\ \A w \in Workers : ~Busy(w)
\* Only the worker that has read a PDF may hold the hash of what its batch would add.
Own(v, h) == \A w \in Workers : work[w].hash = h => w = v /\ work[v].step \in Parsed
\* And no other worker has or will have that PDF.
NotDue(v, h) ==
    \A f \in Present : pdf[f].content = h =>
        /\ f \notin run.queue
        /\ \A w \in Workers : Busy(w) /\ work[w].file = f => w = v /\ work[v].step \in Parsed
\* Each of them, for all that a batch would add.
Left == \A v \in Workers : \A h \in Stale(v) : Past(v, h) /\ Own(v, h) /\ NotDue(v, h)

\* The figure that is shown under the entry of a PDF as it is resolves.
Figured ==
    \A f \in Present :
        LET n == NameOf(f, Present) IN
        entry[n] # None /\ entry[n].hash = pdf[f].content /\ md[n].shows => pdf[f].content \in manifest \cap images

\* What the figures need.
FInv == NInv /\ Grows /\ Saved /\ Kept /\ Alone /\ Cleaned /\ Left /\ Figured

\* The batches are forgotten with the processes.
Emptied == UNCHANGED <<manifest, images>> /\ batch' = [w \in Workers |-> None] /\ work' = [w \in Workers |-> Idle]
\* Who changes the manifest, the image files and the batches.
Shelves ==
    \/ UNCHANGED <<manifest, images, batch>> \/ Emptied
    \/ \E w \in Workers : Clean(w) \/ Read(w) \/ Commit(w)

\* Every step does it in one of these ways.
LEMMA Shelved ==
    ASSUME Types, [Next]_vars PROVE Shelves
<1>1. ASSUME NEW pool \in BOOLEAN, Start(pool) PROVE Shelves
  BY <1>1 DEF Start, corpus, Shelves, Emptied
<1>2. ASSUME NEW w \in Workers, Take(w) PROVE Shelves
  BY <1>2 DEF Take, At, corpus, Shelves
<1>3. ASSUME NEW w \in Workers, HashFile(w) PROVE Shelves
  BY <1>3 DEF HashFile, corpus, Shelves
<1>4. ASSUME NEW w \in Workers, StatFile(w) PROVE Shelves
  BY <1>4 DEF StatFile, corpus, Shelves
<1>5. ASSUME NEW w \in Workers, Clean(w) PROVE Shelves
  BY <1>5 DEF Shelves
<1>6. ASSUME NEW w \in Workers, Read(w) PROVE Shelves
  BY <1>6 DEF Shelves
<1>7. ASSUME NEW w \in Workers, Commit(w) PROVE Shelves
  BY <1>7 DEF Shelves
<1>8. ASSUME NEW w \in Workers, WriteMarkdown(w) PROVE Shelves
  BY <1>8 DEF WriteMarkdown, At, corpus, Shelves
<1>9. ASSUME NEW w \in Workers, WriteEntry(w) PROVE Shelves
  BY <1>9 DEF WriteEntry, Shelves
<1>10. ASSUME NEW w \in Workers, ReadFails(w) PROVE Shelves
  BY <1>10 DEF ReadFails, corpus, Shelves
<1>11. ASSUME NEW w \in Workers, CommitFails(w) PROVE Shelves
  BY <1>11 DEF CommitFails, corpus, Shelves
<1>12. ASSUME NEW w \in Workers, Hang(w) PROVE Shelves
  BY <1>12 DEF Hang, corpus, Shelves
<1>13. CASE Submitted
  BY <1>13 DEF Submitted, corpus, Shelves, Emptied
<1>14. CASE Finished
  BY <1>14 DEF Finished, corpus, Shelves, Emptied
<1>15. CASE Timeout
  BY <1>15 DEF Timeout, Stopped, corpus, Shelves
<1>16. CASE TimeoutSlow
  BY <1>16 DEF TimeoutSlow, corpus, Shelves
<1>17. CASE PoolBreaks
  BY <1>17 DEF PoolBreaks, corpus, Shelves
<1>18. CASE Fallback
  BY <1>18 DEF Fallback, Stopped, corpus, Shelves, Emptied
<1>19. CASE Crash
  BY <1>19 DEF Crash, Stopped, corpus, Shelves, Emptied
<1>20. ASSUME NEW f \in Files, Collect(f) PROVE Shelves
  BY <1>20 DEF Collect, corpus, Shelves, Emptied
<1>21. ASSUME NEW f \in Files, NEW c \in Contents \cup {None}, Edit(f, c) PROVE Shelves
  BY <1>21 DEF Edit, Tick, corpus, Shelves
<1>22. CASE UNCHANGED vars
  BY <1>22 DEF vars, corpus, Shelves, Emptied
<1> QED BY Acts, <1>1, <1>2, <1>3, <1>4, <1>5, <1>6, <1>7, <1>8, <1>9, <1>10, <1>11, <1>12,
     <1>13, <1>14, <1>15, <1>16, <1>17, <1>18, <1>19, <1>20, <1>21, <1>22 DEF Act

\* Unless the batches are emptied, the queue only gets shorter.
LEMMA QueueShrinks ==
    ASSUME Types, [Next]_vars PROVE Emptied \/ (run'.queue \subseteq run.queue /\ run'.inputs = run.inputs)
<1> DEFINE Goal == Emptied \/ (run'.queue \subseteq run.queue /\ run'.inputs = run.inputs)
<1>1. ASSUME NEW pool \in BOOLEAN, Start(pool) PROVE Goal
  BY <1>1 DEF Start, corpus, Emptied
<1>2. ASSUME NEW w \in Workers, Take(w) PROVE Goal
  BY <1>2 DEF Take
<1>3. ASSUME NEW w \in Workers, HashFile(w) PROVE Goal
  BY <1>3 DEF HashFile
<1>4. ASSUME NEW w \in Workers, StatFile(w) PROVE Goal
  BY <1>4 DEF StatFile
<1>5. ASSUME NEW w \in Workers, Clean(w) PROVE Goal
  BY <1>5 DEF Clean
<1>6. ASSUME NEW w \in Workers, Read(w) PROVE Goal
  BY <1>6 DEF Read
<1>7. ASSUME NEW w \in Workers, Commit(w) PROVE Goal
  BY <1>7 DEF Commit
<1>8. ASSUME NEW w \in Workers, WriteMarkdown(w) PROVE Goal
  BY <1>8 DEF WriteMarkdown
<1>9. ASSUME NEW w \in Workers, WriteEntry(w) PROVE Goal
  BY <1>9 DEF WriteEntry
<1>10. ASSUME NEW w \in Workers, ReadFails(w) PROVE Goal
  BY <1>10 DEF ReadFails
<1>11. ASSUME NEW w \in Workers, CommitFails(w) PROVE Goal
  BY <1>11 DEF CommitFails
<1>12. ASSUME NEW w \in Workers, Hang(w) PROVE Goal
  BY <1>12 DEF Hang
<1>13. CASE Submitted
  BY <1>13 DEF Submitted, corpus, Types, Runs
<1>14. CASE Finished
  BY <1>14 DEF Finished, corpus, Types, Runs
<1>15. CASE Timeout
  BY <1>15 DEF Timeout
<1>16. CASE TimeoutSlow
  BY <1>16 DEF TimeoutSlow
<1>17. CASE PoolBreaks
  BY <1>17 DEF PoolBreaks
<1>18. CASE Fallback
  BY <1>18 DEF Fallback, Stopped, corpus, Emptied
<1>19. CASE Crash
  BY <1>19 DEF Crash, Stopped, corpus, Emptied
<1>20. ASSUME NEW f \in Files, Collect(f) PROVE Goal
  BY <1>20 DEF Collect, corpus, Types, Runs
<1>21. ASSUME NEW f \in Files, NEW c \in Contents \cup {None}, Edit(f, c) PROVE Goal
  BY <1>21 DEF Edit
<1>22. CASE UNCHANGED vars
  BY <1>22 DEF vars, corpus, Types, Runs
<1> QED BY Acts, <1>1, <1>2, <1>3, <1>4, <1>5, <1>6, <1>7, <1>8, <1>9, <1>10, <1>11, <1>12,
     <1>13, <1>14, <1>15, <1>16, <1>17, <1>18, <1>19, <1>20, <1>21, <1>22 DEF Act

\* A worker that has read a PDF is done when the entry is written, or all are stopped.
LEMMA LeavesRead ==
    ASSUME Types, Working, [Next]_vars, NEW v \in Workers, work[v].step \in Parsed, work'[v].step = "idle"
    PROVE  \/ Emptied \/ WriteEntry(v)
           \/ run'.queue = {} /\ \A w \in Workers : work'[w].step = "idle"
<1> DEFINE Goal == \/ Emptied \/ WriteEntry(v)
                   \/ run'.queue = {} /\ \A w \in Workers : work'[w].step = "idle"
<1>0. work[v].step \in {"read", "parsed", "written"} /\ work[v] \in Works
  BY DEF Parsed, Types
<1>1. ASSUME NEW pool \in BOOLEAN, Start(pool) PROVE Goal
  BY <1>1 DEF Start, corpus, Emptied
<1>2. ASSUME NEW w \in Workers, Take(w) PROVE Goal
  <2>1. work' = work \/ (work[w].step \notin Parsed /\ \A u \in Workers : u # w => work'[u] = work[u])
    BY <1>2 DEF Take, Parsed
  <2> QED BY <1>0, <2>1 DEF Parsed
<1>3. ASSUME NEW w \in Workers, HashFile(w) PROVE Goal
  <2>1. work' = work \/ (work[w].step \notin Parsed /\ \A u \in Workers : u # w => work'[u] = work[u])
    BY <1>3 DEF HashFile, At, Finish, Types, Parsed
  <2> QED BY <1>0, <2>1 DEF Parsed
<1>4. ASSUME NEW w \in Workers, StatFile(w) PROVE Goal
  <2>1. work' = work \/ (work[w].step \notin Parsed /\ \A u \in Workers : u # w => work'[u] = work[u])
    BY <1>4 DEF StatFile, At, Finish, Types, Parsed
  <2> QED BY <1>0, <2>1 DEF Parsed
<1>5. ASSUME NEW w \in Workers, Clean(w) PROVE Goal
  <2>1. work' = work \/ (work[w].step \notin Parsed /\ \A u \in Workers : u # w => work'[u] = work[u])
    BY <1>5 DEF Clean, Parsed
  <2> QED BY <1>0, <2>1 DEF Parsed
<1>6. ASSUME NEW w \in Workers, Read(w) PROVE Goal
  <2>1. work' = work \/ (work[w].step \notin Parsed /\ \A u \in Workers : u # w => work'[u] = work[u])
    BY <1>6 DEF Read, Types, Parsed
  <2> QED BY <1>0, <2>1 DEF Parsed
<1>7. ASSUME NEW w \in Workers, Commit(w) PROVE Goal
  <2>1. work' = [work EXCEPT ![w].step = "parsed"]
    BY <1>7 DEF Commit
  <2>2. work'[v].step # "idle"
    BY <1>0, <2>1 DEF Types
  <2> QED BY <2>2
<1>8. ASSUME NEW w \in Workers, WriteMarkdown(w) PROVE Goal
  <2>1. work' = [work EXCEPT ![w].step = "written"]
    BY <1>8 DEF WriteMarkdown
  <2>2. work'[v].step # "idle"
    BY <1>0, <2>1 DEF Types
  <2> QED BY <2>2
<1>9. ASSUME NEW w \in Workers, WriteEntry(w) PROVE Goal
  <2>1. v # w => work'[v] = work[v]
    BY <1>9 DEF WriteEntry, Finish, Types
  <2> QED BY <1>0, <1>9, <2>1
<1>10. ASSUME NEW w \in Workers, ReadFails(w) PROVE Goal
  <2>1. work' = work \/ (work[w].step \notin Parsed /\ \A u \in Workers : u # w => work'[u] = work[u])
    BY <1>10 DEF ReadFails, At, Finish, Parsed
  <2> QED BY <1>0, <2>1 DEF Parsed
<1>11. ASSUME NEW w \in Workers, CommitFails(w) PROVE Goal
  BY <1>11 DEF CommitFails, At, Types, Works
<1>12. ASSUME NEW w \in Workers, Hang(w) PROVE Goal
  <2>1. work' = work \/ (work[w].step \notin Parsed /\ \A u \in Workers : u # w => work'[u] = work[u])
    BY <1>12 DEF Hang, Parsed
  <2> QED BY <1>0, <2>1 DEF Parsed
<1>13. CASE Submitted
  <2>1. work' = work
    BY <1>13 DEF Submitted
  <2> QED BY <1>0, <2>1
<1>14. CASE Finished
  <2>1. work' = work
    BY <1>14 DEF Finished
  <2> QED BY <1>0, <2>1
<1>15. CASE Timeout
  <2>1. work' = [u \in Workers |-> Idle] /\ run'.queue = {}
    BY <1>15 DEF Timeout, Stopped, Types, Runs
  <2> QED BY <2>1 DEF Idle
<1>16. CASE TimeoutSlow
  <2>1. work' = [u \in Workers |-> Idle] /\ run'.queue = {}
    BY <1>16 DEF TimeoutSlow, Stopped, Types, Runs
  <2> QED BY <2>1 DEF Idle
<1>17. CASE PoolBreaks
  <2>1. work' = [u \in Workers |-> Idle] /\ run'.queue = {}
    BY <1>17 DEF PoolBreaks, Stopped, Types, Runs
  <2> QED BY <2>1 DEF Idle
<1>18. CASE Fallback
  BY <1>18 DEF Fallback, Stopped, corpus, Emptied
<1>19. CASE Crash
  BY <1>19 DEF Crash, Stopped, NoRun
<1>20. ASSUME NEW f \in Files, Collect(f) PROVE Goal
  <2>1. work' = work
    BY <1>20 DEF Collect
  <2> QED BY <1>0, <2>1
<1>21. ASSUME NEW f \in Files, NEW c \in Contents \cup {None}, Edit(f, c) PROVE Goal
  <2>1. work' = work
    BY <1>21 DEF Edit
  <2> QED BY <1>0, <2>1
<1>22. CASE UNCHANGED vars
  <2>1. work' = work
    BY <1>22 DEF vars
  <2> QED BY <1>0, <2>1
<1> QED BY Acts, <1>1, <1>2, <1>3, <1>4, <1>5, <1>6, <1>7, <1>8, <1>9, <1>10, <1>11, <1>12,
     <1>13, <1>14, <1>15, <1>16, <1>17, <1>18, <1>19, <1>20, <1>21, <1>22 DEF Act

\* What reading a PDF does to the figures and the batch.
LEMMA ReadBatch ==
    ASSUME TInv, NEW w \in Workers, Read(w)
    PROVE  /\ UNCHANGED <<pdf, md, entry, manifest, run>>
           /\ work[w].step = "clean" /\ work'[w].hash = work[w].hash /\ work'[w].step = "read" /\ work[w].hash \in Contents
           /\ \A u \in Workers : u # w => work'[u] = work[u] /\ batch'[u] = batch[u]
           /\ images \subseteq images' /\ (work'[w].shows => work[w].hash \in images')
           /\ ~work'[w].shows => batch' = batch
           /\ work'[w].shows => \E o \in Batches :
                /\ o = IF batch[w] = None THEN [base |-> manifest, now |-> manifest] ELSE batch[w]
                /\ "rearmed" \notin Incidents => batch[w] = None \/ work[w].hash \notin o.base
                /\ batch'[w] = [base |-> o.base, now |-> o.now \cup {work[w].hash}]
<1> DEFINE opened == IF batch[w] = None THEN [base |-> manifest, now |-> manifest] ELSE batch[w]
<1>0. UNCHANGED <<pdf, md, entry, manifest, run>> /\ work[w].step = "clean" /\ work[w] \in Works
  BY DEF Read, At, TInv, Types
<1>1. PICK shows \in BOOLEAN :
            /\ work' = [work EXCEPT ![w].of = pdf[work[w].file].content, ![w].shows = shows, ![w].step = "read"]
            /\ batch' = IF shows THEN [batch EXCEPT ![w] = [opened EXCEPT !.now = @ \cup {work[w].hash}]] ELSE batch
            /\ images' = IF shows THEN images \cup {work[w].hash} ELSE images
            /\ "rearmed" \notin Incidents => ~(shows /\ batch[w] # None /\ work[w].hash \in opened.base)
  BY DEF Read, ShowsFigure, Allowed
<1>2. opened \in Batches
  BY DEF TInv, Types, Batches
<1>3. work[w].hash \in Contents
  BY <1>0 DEF TInv, Works, Working, Hashed
<1>4. [opened EXCEPT !.now = @ \cup {work[w].hash}] = [base |-> opened.base, now |-> opened.now \cup {work[w].hash}]
  <2> HIDE DEF opened
  <2> QED BY <1>2, <1>3 DEF Batches
<1>5. /\ work'[w].hash = work[w].hash /\ work'[w].step = "read" /\ work'[w].shows = shows
      /\ \A u \in Workers : u # w => work'[u] = work[u] /\ batch'[u] = batch[u]
  BY <1>0, <1>1 DEF Works, TInv, Types
<1>6. shows => batch'[w] = [base |-> opened.base, now |-> opened.now \cup {work[w].hash}]
  BY <1>1, <1>4 DEF TInv, Types
<1>7. PICK o \in Batches : o = opened
  BY <1>2
<1>8. batch[w] = None \/ batch[w] # None
  OBVIOUS
<1> QED BY <1>0, <1>1, <1>3, <1>5, <1>6, <1>7, <1>8

\* What a commit does: the manifest gets what the batch adds, and loses nothing.
LEMMA CommitBatch ==
    ASSUME TInv, Grows, NEW w \in Workers, Commit(w)
    PROVE  /\ UNCHANGED <<pdf, md, entry, images, run>>
           /\ work[w].step = "read" /\ work'[w].hash = work[w].hash /\ work'[w].step = "parsed"
           /\ work'[w].shows = work[w].shows
           /\ \A u \in Workers : u # w => work'[u] = work[u] /\ batch'[u] = batch[u]
           /\ batch'[w] = None \/ batch'[w] = batch[w]
           /\ manifest \subseteq manifest' /\ manifest' \subseteq manifest \cup Stale(w)
           /\ work[w].shows => Stale(w) \subseteq manifest'
<1>1. /\ work[w].step = "read" /\ work[w] \in Works
      /\ UNCHANGED <<pdf, md, entry, images, run>>
  BY DEF Commit, At, TInv, Types
<1>2. work' = [work EXCEPT ![w].step = "parsed"]
  BY DEF Commit
<1>3. /\ work'[w].hash = work[w].hash /\ work'[w].step = "parsed" /\ work'[w].shows = work[w].shows
      /\ \A u \in Workers : u # w => work'[u] = work[u]
  BY <1>1, <1>2 DEF TInv, Types, Works
<1>4. CASE work[w].shows
  <2>1. batch[w] # None /\ batch[w] \in Batches /\ batch[w].base \subseteq batch[w].now
    BY <1>1, <1>4 DEF TInv, Types, Working, Grows
  <2>2. manifest' = Merged(batch[w]) /\ batch' = [batch EXCEPT ![w] = None]
    BY <1>4 DEF Commit
  <2>3. manifest' = manifest \cup (batch[w].now \ batch[w].base)
    BY <2>1, <2>2 DEF Merged
  <2> QED BY <1>1, <1>3, <2>1, <2>2, <2>3 DEF Stale
<1>5. CASE ~work[w].shows
  <2>1. UNCHANGED <<manifest, batch>>
    BY <1>5 DEF Commit
  <2> QED BY <1>1, <1>3, <1>5, <2>1
<1> QED BY <1>4, <1>5

\* What removing the figures of a hash does.
LEMMA CleanShelf ==
    ASSUME TInv, NEW w \in Workers, Clean(w)
    PROVE  /\ UNCHANGED <<pdf, md, entry, run, batch>>
           /\ images' = images \ {work[w].hash} /\ manifest' = manifest \ {work[w].hash}
           /\ work[w].step = "new" /\ work'[w].hash = work[w].hash /\ work'[w].step = "clean"
           /\ work[w].hash # None
           /\ \A u \in Workers : u # w => work'[u] = work[u]
BY DEF Clean, At, TInv, Types, Working, Hashed

\* What a batch would add was there before, or its worker has just read it.
LEMMA StaleMoves ==
    ASSUME TInv, Grows, [Next]_vars, NEW v \in Workers, NEW h, h \in Stale(v)'
    PROVE  /\ ~Emptied
           /\ h \in Stale(v) \/ (Read(v) /\ work'[v].shows /\ h = work[v].hash)
<1>1. ~Emptied
  BY DEF Emptied, Stale
<1>2. CASE UNCHANGED <<manifest, images, batch>>
  BY <1>1, <1>2 DEF Stale
<1>3. ASSUME NEW w \in Workers, Clean(w) PROVE h \in Stale(v)
  BY <1>3, CleanShelf DEF Stale
<1>4. ASSUME NEW w \in Workers, Read(w) PROVE h \in Stale(v) \/ (Read(v) /\ work'[v].shows /\ h = work[v].hash)
  <2>1. CASE w # v \/ ~work'[w].shows
    BY <1>4, <2>1, ReadBatch DEF Stale
  <2>2. CASE w = v /\ work'[w].shows
    <3>1. PICK o \in Batches :
                /\ o = IF batch[w] = None THEN [base |-> manifest, now |-> manifest] ELSE batch[w]
                /\ batch'[w] = [base |-> o.base, now |-> o.now \cup {work[w].hash}]
      BY <1>4, <2>2, ReadBatch
    <3>2. h \in (o.now \cup {work[w].hash}) \ o.base
      BY <2>2, <3>1 DEF Stale
    <3> QED BY <1>4, <2>2, <3>1, <3>2 DEF Stale
  <2> QED BY <2>1, <2>2
<1>5. ASSUME NEW w \in Workers, Commit(w) PROVE h \in Stale(v)
  BY <1>5, CommitBatch DEF Stale
<1> QED BY <1>1, <1>2, <1>3, <1>4, <1>5, Shelved DEF Shelves, TInv

\* A step leaves a batch that removes nothing.
LEMMA GrowsStep ==
    ASSUME TInv, Grows, [Next]_vars PROVE Grows'
<1> SUFFICES ASSUME NEW v \in Workers, batch'[v] # None PROVE batch'[v].base \subseteq batch'[v].now
  BY DEF Grows
<1>1. CASE batch'[v] = batch[v]
  BY <1>1 DEF Grows
<1>2. CASE Emptied
  BY <1>2 DEF Emptied
<1>3. ASSUME NEW w \in Workers, Read(w), batch'[v] # batch[v] PROVE batch'[v].base \subseteq batch'[v].now
  <2>1. w = v /\ work'[w].shows
    BY <1>3, ReadBatch
  <2>2. PICK o \in Batches :
                /\ o = IF batch[w] = None THEN [base |-> manifest, now |-> manifest] ELSE batch[w]
                /\ batch'[w] = [base |-> o.base, now |-> o.now \cup {work[w].hash}]
    BY <1>3, <2>1, ReadBatch
  <2> QED BY <2>1, <2>2 DEF Grows
<1>4. ASSUME NEW w \in Workers, Commit(w) PROVE batch'[v] = batch[v] \/ batch'[v] = None
  BY <1>4, CommitBatch
<1>5. ASSUME NEW w \in Workers, Clean(w) PROVE batch'[v] = batch[v]
  BY <1>5, CleanShelf
<1> QED BY <1>1, <1>2, <1>3, <1>4, <1>5, Shelved DEF Shelves, TInv

\* A step keeps the workers' hashes apart.
LEMMA AloneStep ==
    ASSUME QInv, Alone, [Next]_vars PROVE Alone'
<1> SUFFICES ASSUME NEW v \in Workers, NEW w \in Workers, work'[v].hash = work'[w].hash, work'[v].hash # None, v # w
             PROVE  FALSE
  BY DEF Alone
<1>1. \A u \in Workers : u \in {v, w} =>
          \/ work'[u].hash = work[u].hash
          \/ work[u].step = "taken" /\ pdf[work[u].file] # None /\ work'[u].hash = pdf[work[u].file].content
  BY Moved DEF Moves, QInv, TInv, Idle
<1>2. \A u \in Workers : work[u].step = "taken" => Busy(u) /\ work[u].file \in Files
  BY DEF QInv, TInv, Types, Working, Busy, Runs
<1>3. \A u \in Workers : work[u].hash # None => Busy(u)
  BY DEF QInv, TInv, Working, Busy, Hashed
<1>4. Busy(v) /\ Busy(w)
  BY <1>1, <1>2, <1>3
<1>5. work[v].file # work[w].file
  BY <1>4 DEF QInv, TInv, Queued
<1>6. CASE work'[v].hash = work[v].hash /\ work'[w].hash = work[w].hash
  BY <1>6 DEF Alone
<1>7. ASSUME NEW a \in {v, w}, NEW b \in {v, w}, a # b, work'[a].hash = work[a].hash,
             work[b].step = "taken", pdf[work[b].file] # None, work'[b].hash = pdf[work[b].file].content
      PROVE  FALSE
  <2>1. work[b].file \in Present /\ work[a].hash = pdf[work[b].file].content
    BY <1>2, <1>7 DEF Present
  <2>2. work[a].file = work[b].file
    BY <2>1 DEF QInv, Holds
  <2> QED BY <1>5, <1>7, <2>2
<1>8. CASE /\ work[v].step = "taken" /\ pdf[work[v].file] # None /\ work'[v].hash = pdf[work[v].file].content
           /\ work[w].step = "taken" /\ pdf[work[w].file] # None /\ work'[w].hash = pdf[work[w].file].content
  BY <1>2, <1>5, <1>8 DEF QInv, Differ, Present
<1> QED BY <1>1, <1>6, <1>7, <1>8

\* A step adds nothing that was cleaned: a batch that would is of the same worker,
\* which has read it.
LEMMA CleanedStep ==
    ASSUME TInv, Grows, Cleaned, Left, [Next]_vars PROVE Cleaned'
<1> SUFFICES ASSUME NEW w \in Workers, work'[w].step = "clean", work'[w].hash \in manifest' PROVE FALSE
  BY DEF Cleaned
<1>1. CASE Clean(w)
  BY <1>1, CleanShelf
<1>2. CASE ~Clean(w)
  <2>1. work'[w] = work[w]
    BY <1>2, Moved DEF Moves, TInv, Idle
  <2>2. work[w].step = "clean" /\ work[w].hash \notin manifest
    BY <2>1 DEF Cleaned
  <2>3. ASSUME NEW u \in Workers, Clean(u) \/ Read(u) PROVE manifest' \subseteq manifest
    BY <2>3, CleanShelf, ReadBatch
  <2>4. PICK u \in Workers : Commit(u)
    BY <2>1, <2>2, <2>3, Shelved DEF Shelves, Emptied, TInv
  <2>5. work[w].hash \in Stale(u)
    BY <2>1, <2>2, <2>4, CommitBatch
  <2>6. w = u /\ work[u].step \in Parsed
    BY <2>5 DEF Left, Own
  <2> QED BY <2>2, <2>6 DEF Parsed
<1> QED BY <1>1, <1>2

\* A step leaves a figure that was read in the batch.
LEMMA SavedStep ==
    ASSUME TInv, Rearm, Grows, Saved, Alone, Cleaned, [Next]_vars PROVE Saved'
<1> SUFFICES ASSUME NEW w \in Workers, work'[w].step = "read", work'[w].shows
             PROVE  work'[w].hash \in images' /\ work'[w].hash \in Stale(w)'
  BY DEF Saved
<1>1. CASE Read(w)
  <2>1. PICK o \in Batches :
                /\ o = IF batch[w] = None THEN [base |-> manifest, now |-> manifest] ELSE batch[w]
                /\ "rearmed" \notin Incidents => batch[w] = None \/ work[w].hash \notin o.base
                /\ batch'[w] = [base |-> o.base, now |-> o.now \cup {work[w].hash}]
    BY <1>1, ReadBatch
  <2>2. work[w].step = "clean" /\ work'[w].hash = work[w].hash /\ work[w].hash \in images'
    BY <1>1, ReadBatch
  <2>3. work[w].hash \notin o.base
    BY <2>1, <2>2 DEF Rearm, Cleaned
  <2>4. batch'[w] # None
    BY TStep, <1>1, <2>1, <2>2 DEF TInv, Working
  <2> QED BY <2>1, <2>2, <2>3, <2>4 DEF Stale
<1>2. CASE ~Read(w)
  <2>1. work'[w] = work[w]
    BY <1>2, Moved DEF Moves, TInv, Idle
  <2>2. work[w].step = "read" /\ work[w].hash \in images /\ work[w].hash \in Stale(w) /\ work[w].hash # None
    BY <2>1 DEF Saved, TInv, Working, Hashed
  <2>3. ASSUME NEW u \in Workers, Clean(u) PROVE batch' = batch /\ work[w].hash \in images'
    <3>1. u # w /\ work[u].hash # work[w].hash
      BY <2>2, <2>3, CleanShelf DEF Alone
    <3> QED BY <2>2, <2>3, <3>1, CleanShelf
  <2>4. ASSUME NEW u \in Workers, Read(u) \/ Commit(u) PROVE batch'[w] = batch[w] /\ images \subseteq images'
    <3>1. u # w
      BY <2>1, <2>2, <2>4, ReadBatch, CommitBatch
    <3> QED BY <2>4, <3>1, ReadBatch, CommitBatch
  <2>5. ~Emptied
    BY <2>1, <2>2 DEF Emptied, Idle
  <2>6. batch'[w] = batch[w] /\ work[w].hash \in images'
    BY <2>2, <2>3, <2>4, <2>5, Shelved DEF Shelves, TInv
  <2> QED BY <2>1, <2>2, <2>6 DEF Stale
<1> QED BY <1>1, <1>2

\* A step leaves a figure that will be shown in the manifest.
LEMMA KeptStep ==
    ASSUME TInv, Grows, Saved, Kept, Alone, [Next]_vars PROVE Kept'
<1> SUFFICES ASSUME NEW w \in Workers, work'[w].step \in {"parsed", "written"}, work'[w].shows
             PROVE  work'[w].hash \in images' /\ work'[w].hash \in manifest'
  BY DEF Kept
<1>1. CASE Commit(w)
  <2>1. work[w].step = "read" /\ work[w].shows /\ images' = images /\ work'[w].hash = work[w].hash
        /\ Stale(w) \subseteq manifest'
    BY <1>1, CommitBatch
  <2> QED BY <2>1 DEF Saved
<1>2. CASE ~Commit(w)
  <2>1. /\ work[w].step \in {"parsed", "written"} /\ work[w].shows
        /\ work'[w].hash = work[w].hash
    BY <1>2, Moved DEF Moves, TInv, Idle
  <2>2. work[w].hash \in images /\ work[w].hash \in manifest /\ work[w].hash # None
    BY <2>1 DEF Kept, TInv, Working, Hashed
  <2>3. ASSUME NEW u \in Workers, Clean(u) PROVE work[w].hash \in images' /\ work[w].hash \in manifest'
    <3>1. u # w
      BY <2>1, <2>3, CleanShelf
    <3>2. work[u].hash # work[w].hash
      BY <2>2, <3>1 DEF Alone
    <3> QED BY <2>2, <2>3, <3>2, CleanShelf
  <2>4. ASSUME NEW u \in Workers, Read(u) \/ Commit(u) PROVE images \subseteq images' /\ manifest \subseteq manifest'
    BY <2>4, ReadBatch, CommitBatch
  <2> QED BY <2>1, <2>2, <2>3, <2>4, Shelved DEF Shelves, Emptied, TInv
<1> QED BY <1>1, <1>2

\* A step keeps open batches from what others clean.
LEMMA LeftStep ==
    ASSUME QInv, Quiet, Grows, Alone, Left, [Next]_vars PROVE Left'
<1> SUFFICES ASSUME NEW v \in Workers, NEW h, h \in Stale(v)'
             PROVE  Past(v, h)' /\ Own(v, h)' /\ NotDue(v, h)'
  BY DEF Left
<1>0. ~Emptied /\ (h \in Stale(v) \/ (Read(v) /\ work'[v].shows /\ h = work[v].hash))
  BY StaleMoves DEF QInv
<1>1. run'.queue \subseteq run.queue /\ run'.inputs = run.inputs
  BY <1>0, QueueShrinks DEF QInv, TInv
<1>2. CASE h \in Stale(v)
  <2>0. Past(v, h) /\ Own(v, h) /\ NotDue(v, h)
    BY <1>2 DEF Left
  <2>a. h # None
    <3>1. Stale(v) \subseteq Contents
      BY DEF Stale, QInv, TInv, Types, Batches
    <3> QED BY <1>2, <3>1, IngestNames
  <2>1. Own(v, h)'
    <3> SUFFICES ASSUME NEW w \in Workers, work'[w].hash = h PROVE w = v /\ work'[v].step \in Parsed
      BY DEF Own
    <3>1. CASE work'[w].hash = work[w].hash
      <4>1. w = v /\ work[v].step \in Parsed
        BY <2>0, <3>1 DEF Own
      <4> QED BY <2>a, <4>1, Moved DEF Moves, QInv, TInv, Idle, Parsed
    <3>2. CASE work'[w].hash # work[w].hash
      <4>1. work[w].step = "taken" /\ pdf[work[w].file] # None /\ h = pdf[work[w].file].content
        BY <2>a, <3>2, Moved DEF Moves, QInv, TInv, Idle
      <4>2. Busy(w) /\ work[w].file \in Present
        BY <4>1 DEF Busy, Present, QInv, TInv, Types, Working, Runs
      <4>3. w = v /\ work[v].step \in Parsed
        BY <2>0, <4>1, <4>2 DEF NotDue
      <4> QED BY <4>1, <4>3 DEF Parsed
    <3> QED BY <3>1, <3>2
  <2>2. NotDue(v, h)'
    <3> SUFFICES ASSUME NEW f \in Files, pdf'[f] # None, pdf'[f].content = h
                 PROVE  /\ f \notin run'.queue
                        /\ \A w \in Workers : Busy(w)' /\ work'[w].file = f => w = v /\ work'[v].step \in Parsed
      BY DEF NotDue, Present
    <3>1. CASE pdf'[f] = pdf[f]
      <4>1. f \in Present /\ pdf[f].content = h
        BY <3>1 DEF Present
      <4>2. f \notin run.queue
        BY <2>0, <4>1 DEF NotDue
      <4>3. ASSUME NEW w \in Workers, Busy(w)', work'[w].file = f PROVE w = v /\ work'[v].step \in Parsed
        <5>1. Busy(w) /\ work[w].file = f
          BY <4>2, <4>3, Moved DEF Moves, QInv, TInv, Idle, Busy
        <5>2. w = v /\ work[v].step \in Parsed
          BY <2>0, <4>1, <5>1 DEF NotDue
        <5> QED BY <4>3, <5>2, Moved DEF Moves, QInv, TInv, Idle, Parsed, Busy
      <4> QED BY <1>1, <4>2, <4>3
    <3>2. CASE pdf'[f] # pdf[f]
      <4>1. /\ UNCHANGED <<entry, run, work>>
            /\ \A n \in Names : entry[n] # None => entry[n].hash # h
            /\ \A w \in Workers : work[w].hash # h
        BY <3>2, PdfStays DEF QInv
      <4>2. run.inputs \subseteq Files
        BY DEF QInv, TInv, Types, Runs
      <4>3. run.queue = {} /\ \A w \in Workers : ~Busy(w)
        BY <2>0, <4>1, <4>2, NameIn DEF Past
      <4> QED BY <4>1, <4>3 DEF Busy
    <3> QED BY <3>1, <3>2
  <2>3. Past(v, h)'
    <3>1. CASE work[v].hash = h
      <4>1. work[v].step \in Parsed
        BY <2>0, <3>1 DEF Own
      <4>2. CASE work'[v].hash = h
        BY <4>2 DEF Past
      <4>3. CASE work'[v].hash # h
        <5>1. work'[v].step = "idle"
          BY <3>1, <4>1, <4>3, Moved DEF Moves, QInv, TInv, Idle, Parsed
        <5>2. WriteEntry(v) \/ (run'.queue = {} /\ \A w \in Workers : work'[w].step = "idle")
          BY <1>0, <4>1, <5>1, LeavesRead DEF QInv, TInv
        <5>3. CASE WriteEntry(v)
          <6>1. work[v].file \in run.inputs /\ work[v].file \in Files /\ NameFor(v) \in Names
            BY <4>1, NameIn DEF NameFor, QInv, TInv, Types, Working, Queued, Runs, Busy, Parsed
          <6>2. PICK f \in Files : f = work[v].file
            BY <6>1
          <6>3. ~Waiting(f)'
            BY <5>3, <6>2, WroteLast DEF QInv
          <6>4. entry'[NameOf(f, run.inputs)] = [hash |-> work[v].hash, stamp |-> work[v].stamp, file |-> work[v].file]
            BY <5>3, <6>1, <6>2 DEF WriteEntry, QInv, TInv, Types, NameFor
          <6>5. entry'[NameOf(f, run.inputs)] # None /\ entry'[NameOf(f, run.inputs)].hash = h
            <7>1. [hash |-> work[v].hash, stamp |-> work[v].stamp, file |-> work[v].file] \in Lines
              <8>1. work[v] \in Works /\ work[v].hash # None
                BY <2>a, <3>1 DEF QInv, TInv, Types
              <8> QED BY <6>1, <8>1 DEF Lines, Works
            <7> QED BY <3>1, <6>4, <7>1, IngestNames DEF Lines
          <6> QED BY <1>1, <6>1, <6>2, <6>3, <6>5 DEF Past
        <5>4. CASE run'.queue = {} /\ \A w \in Workers : work'[w].step = "idle"
          BY <5>4 DEF Past, Busy
        <5> QED BY <5>2, <5>3, <5>4
      <4> QED BY <4>2, <4>3
    <3>2. ASSUME NEW f \in run.inputs, ~Waiting(f), entry[NameOf(f, run.inputs)] # None,
                 entry[NameOf(f, run.inputs)].hash = h
          PROVE  Past(v, h)'
      <4>1. f \in Files /\ run.inputs \in SUBSET Files
        BY DEF QInv, TInv, Types, Runs
      <4>2. ~Waiting(f)'
        <5>1. ASSUME NEW w \in Workers, Busy(w)', work'[w].file = f PROVE (Busy(w) /\ work[w].file = f) \/ f \in run.queue
          BY <5>1, Moved DEF Moves, QInv, TInv, Idle, Busy
        <5> QED BY <1>1, <3>2, <5>1 DEF Waiting
      <4>3. entry'[NameOf(f, run.inputs)] = entry[NameOf(f, run.inputs)]
        <5>1. ASSUME NEW w \in Workers, WriteEntry(w) PROVE NameFor(w) # NameOf(f, run.inputs)
          <6>1. Busy(w) /\ work[w].file \in run.inputs
            BY <5>1 DEF WriteEntry, At, Busy, QInv, TInv, Working, Queued
          <6>2. work[w].file # f
            BY <3>2, <6>1 DEF Waiting
          <6> QED BY <4>1, <6>1, <6>2, NameDiffer DEF NameFor
        <5> QED BY <4>1, <5>1, NameIn, Writers DEF WriteEntry, QInv, TInv, Types
      <4> QED BY <1>1, <3>2, <4>2, <4>3 DEF Past
    <3>3. CASE run.queue = {} /\ \A w \in Workers : ~Busy(w)
      <4>1. \A w \in Workers : ~Busy(w)'
        BY <3>3, Moved DEF Moves, QInv, TInv, Idle, Busy
      <4> QED BY <1>1, <3>3, <4>1 DEF Past
    <3> QED BY <2>0, <3>1, <3>2, <3>3 DEF Past
  <2> QED BY <2>1, <2>2, <2>3
<1>3. CASE Read(v) /\ h = work[v].hash
  <2>1. /\ pdf' = pdf /\ run' = run /\ work'[v].hash = h /\ work'[v].step = "read"
        /\ \A u \in Workers : u # v => work'[u] = work[u]
        /\ work[v].step = "clean" /\ h # None
    BY <1>3, ReadBatch, IngestNames DEF QInv
  <2>2. Busy(v) /\ work[v].file \notin run.queue
    BY <2>1 DEF Busy, QInv, TInv, Working
  <2>3. Past(v, h)'
    BY <2>1 DEF Past
  <2>4. Own(v, h)'
    BY <1>3, <2>1 DEF Own, Alone, Parsed
  <2>5. NotDue(v, h)'
    <3> SUFFICES ASSUME NEW f \in Files, pdf[f] # None, pdf[f].content = h
                 PROVE  /\ f \notin run.queue
                        /\ \A w \in Workers : Busy(w)' /\ work'[w].file = f => w = v /\ work'[v].step \in Parsed
      BY <2>1 DEF NotDue, Present
    <3>1. work[v].file = f
      BY <1>3 DEF QInv, Holds, Present
    <3>2. \A w \in Workers : w # v /\ Busy(w) => work[w].file # f
      BY <2>2, <3>1 DEF QInv, TInv, Queued
    <3> QED BY <2>1, <2>2, <3>1, <3>2 DEF Busy, Parsed
  <2> QED BY <2>3, <2>4, <2>5
<1> QED BY <1>0, <1>2, <1>3

\* A step keeps the figures that are shown.
LEMMA FiguredStep ==
    ASSUME NInv, Quiet, Named, Grows, Kept, Figured, [Next]_vars PROVE Figured'
<1> SUFFICES ASSUME NEW f \in Files, NEW n \in Names, pdf'[f] # None, n = NameOf(f, Present'),
                    entry'[n] # None, entry'[n].hash = pdf'[f].content, md'[n].shows
             PROVE  pdf'[f].content \in manifest' /\ pdf'[f].content \in images'
  BY NameIn DEF Figured, Present
<1>0. Match(n, f)'
  BY DEF Match
<1>1. CASE entry'[n] = entry[n]
  <2>1. n = NameOf(f, Present) /\ Match(n, f) /\ pdf'[f] = pdf[f] /\ f \in Present
    BY <1>0, <1>1, NameKept DEF NInv, QInv
  <2>2. ASSUME NEW w \in Workers, WriteMarkdown(w), n = NameFor(w) PROVE FALSE
    <3>1. Busy(w) /\ work[w].file \in run.inputs
      BY <2>2 DEF WriteMarkdown, At, Busy, NInv, QInv, TInv, Working, Queued
    <3>2. PICK g \in run.inputs : g = work[w].file
      BY <3>1
    <3>3. Waiting(g) /\ n = NameOf(g, run.inputs)
      BY <2>2, <3>1, <3>2 DEF Waiting, NameFor
    <3> QED BY <2>1, <3>3 DEF NInv, DueName
  <2>3. md'[n] = md[n]
    BY <2>2, Writers DEF WriteMarkdown, NInv, QInv, TInv, Types
  <2>4. pdf[f].content \in manifest /\ pdf[f].content \in images
    BY <1>1, <2>1, <2>3 DEF Figured
  <2>5. ASSUME NEW u \in Workers, Clean(u) PROVE work[u].hash # pdf[f].content
    <3>1. Busy(u)
      BY <2>5, CleanShelf DEF Busy, NInv, QInv
    <3>2. ~Waiting(f)
      BY <2>1 DEF NInv, DueNow
    <3> QED BY <2>1, <3>1, <3>2 DEF Waiting, NInv, QInv, Holds
  <2>6. ASSUME NEW u \in Workers, Read(u) \/ Commit(u) PROVE images \subseteq images' /\ manifest \subseteq manifest'
    BY <2>6, ReadBatch, CommitBatch DEF NInv, QInv
  <2>7. pdf[f].content \in manifest' /\ pdf[f].content \in images'
    BY <2>4, <2>5, <2>6, CleanShelf, Shelved DEF Shelves, Emptied, NInv, QInv, TInv
  <2> QED BY <2>1, <2>7
<1>2. ASSUME NEW w \in Workers, WriteEntry(w), n = NameFor(w)
      PROVE  pdf'[f].content \in manifest' /\ pdf'[f].content \in images'
  <2>1. /\ entry'[n] = [hash |-> work[w].hash, stamp |-> work[w].stamp, file |-> work[w].file]
        /\ UNCHANGED <<pdf, md, manifest, images>> /\ work[w].step = "written"
    BY <1>2 DEF WriteEntry, At, NInv, QInv, TInv, Types
  <2>2. md[n].shows = work[w].shows
    <3>1. md[NameFor(w)] = [of |-> work[w].of, hash |-> work[w].hash, shows |-> work[w].shows]
      BY <2>1 DEF NInv, QInv, TInv, Wrote
    <3> QED BY <1>2, <3>1
  <2> QED BY <2>1, <2>2 DEF Kept
<1> QED BY <1>1, <1>2, Writers DEF WriteEntry, NInv, QInv, TInv, Types

\* The invariant holds at the beginning, and every step keeps it.
LEMMA FInit ==
    ASSUME Init, Quiet PROVE FInv
<1>1. Grows /\ Saved /\ Kept /\ Alone /\ Cleaned
  BY DEF Init, Grows, Saved, Kept, Alone, Cleaned, Idle
<1>2. Left
  BY DEF Init, Left, Stale
<1>3. Figured
  BY NameIn DEF Init, Figured, Present
<1> QED BY <1>1, <1>2, <1>3, NInit DEF FInv

LEMMA FStep ==
    ASSUME FInv, Quiet, Named, Rearm, [Next]_vars PROVE FInv'
<1>1. NInv /\ QInv /\ TInv
  BY DEF FInv, NInv, QInv
<1> QED
  BY <1>1, NStep, GrowsStep, SavedStep, KeptStep, AloneStep, CleanedStep, LeftStep,
     FiguredStep DEF FInv

\* The figure that the Markdown of an up-to-date document shows is in the manifest
\* and has its file, if no figure is saved again in a batch that began with it either.
THEOREM FiguresStay == ASSUME Quiet, Named, Rearm PROVE Spec => []FiguresResolve
<1>1. Init => FInv
  BY FInit
<1>2. FInv /\ [Next]_vars => FInv'
  BY FStep
<1>3. FInv => FiguresResolve
  BY DEF FInv, Figured, FiguresResolve
<1> QED BY <1>1, <1>2, <1>3, PTL DEF Spec
=============================================================================
