------------------------------- MODULE Ingest -------------------------------
(***************************************************************************)
(* One ingestion after another over a directory of PDFs: the resume check, *)
(* the pool of worker processes with its timeout, its breakdown and its    *)
(* serial fallback, the steps of a worker from the PDF's hash to the       *)
(* source-map entry, the choice among the parsers, and the manifest of the *)
(* extracted figures that the workers share.                               *)
(*                                                                         *)
(* A PDF is its content and the stamp (size and time) of its last write. A *)
(* content has at most one figure, and names it by its hash.               *)
(***************************************************************************)
EXTENDS Naturals, FiniteSets

CONSTANTS
    Files,        \* places where a PDF may be
    Nested,       \* the ones that are not at the top of the input directory
    Stem(_),      \* the file name without its directory and its suffix
    Contents,     \* contents of PDFs
    Scanned,      \* the contents that have no usable text
    Figures,      \* the contents that have a figure
    OcrEngine,    \* whether an OCR engine is configured for scanned PDFs
    VisionEnabled, \* whether the vision model may be asked
    Workers,      \* processes of the pool
    Main,         \* the worker that stands for the main process, in a serial run
    None,
    Given,        \* the corpora to begin with: a content or None for each of Files
    Incidents,    \* bound: the coincidences that may happen, see below
    MaxRuns,      \* bound: ingestions
    MaxEdits,     \* bound: changes of the PDFs
    MaxFaults     \* bound: parses, commits and processes that fail, hang or end

ASSUME IngestBounds ==
    MaxRuns \in Nat /\ MaxEdits \in Nat /\ MaxFaults \in Nat
\* The names of files in one directory differ, and so do their stems.
ASSUME IngestNames ==
    /\ None \notin Files \cup Contents
    /\ None \notin [content : Contents, stamp : Nat]
    /\ None \notin [of : Contents, hash : Contents, shows : BOOLEAN]
    /\ None \notin [hash : Contents, stamp : Nat, file : Files]
    /\ None \notin [base : SUBSET Contents, now : SUBSET Contents]
    /\ \A f, g \in Files \ Nested : Stem(f) = Stem(g) => f = g
ASSUME IngestInputs ==
    /\ Nested \subseteq Files /\ Scanned \subseteq Contents /\ Figures \subseteq Contents
    /\ Given \subseteq [Files -> Contents \cup {None}]
    /\ {OcrEngine, VisionEnabled} \subseteq BOOLEAN /\ Main \in Workers
    \* reverted: a PDF gets back the content that was hashed last for it while
    \*           other content is read, or was before a crash
    \* touched:  a PDF is written with the content it has or had at its last ingestion
    \* twin:     a PDF with the content of another one
    \* renamed:  a PDF gets back a name that it had before its namesake came or went
    \* fallback: the pool breaks while files are handed to it, after one was finished
    \* rearmed:  a figure is saved again in a batch that was opened, and failed to be
    \*           committed, when an interrupted run had left it in the manifest
ASSUME IngestIncidents ==
    Incidents \subseteq {"reverted", "touched", "twin", "renamed", "fallback", "rearmed"}

VARIABLES
    pdf,       \* the PDFs: content and stamp, or None
    md,        \* durable: Markdown by name: the content it is of, whether it shows the figure
    entry,     \* durable: .source_map.json by name: hash and stamp
    manifest,  \* durable: the contents whose figure is in the asset manifest
    images,    \* durable: the contents whose figure has its file
    run,       \* the ingestion: phase, inputs, queue, outstanding futures
    report,    \* what the ingestion says of each input
    result,    \* a worker's result that the main process has not seen
    work,      \* what each worker does
    batch,     \* each worker's open batch of manifest changes, or None
    count      \* the bounded counters

corpus == <<md, entry, manifest, images>>
vars == <<pdf, corpus, run, report, result, work, batch, count>>

Allowed(incident, happens) == happens => incident \in Incidents
Tick(counter, bound) == count[counter] < bound /\ count' = [count EXCEPT ![counter] = @ + 1]

Present == {f \in Files : pdf[f] # None}
Names == {<<Stem(f), None>> : f \in Files} \cup {<<Stem(f), f>> : f \in Nested}

\* Mutation: every file is named by its stem.
StemOnly(f, inputs) == <<Stem(f), None>>

\* _markdown_name_for_pdf: a nested file whose stem another input has gets a
\* digest of its path.
NameOf(f, inputs) ==
    IF f \in Nested /\ \E g \in inputs \ {f} : Stem(g) = Stem(f)
    THEN <<Stem(f), f>> ELSE <<Stem(f), None>>

-----------------------------------------------------------------------------
(* Parsers: which engine gives the text, when some of them are down *)

\* DocumentProcessor, in its hybrid mode.
Engines ==
    {"docling"} \cup (IF OcrEngine THEN {"ocr"} ELSE {}) \cup (IF VisionEnabled THEN {"vision"} ELSE {})

OcrText(down) == "ocr" \in Engines \ down
DoclingText(down) == "docling" \in Engines \ down
PageImageText(down) == "vision" \in Engines \ down

\* HybridPdfParser: the text layer if it is usable, else one after another.
HasText(c, down) ==
    c \notin Scanned \/ OcrText(down) \/ DoclingText(down) \/ PageImageText(down)

\* A figure comes from Docling, and is kept if the vision model describes it.
ShowsFigure(c, down) ==
    /\ c \in Figures /\ DoclingText(down) /\ "vision" \in Engines \ down
    /\ c \in Scanned => ~OcrText(down)

-----------------------------------------------------------------------------
(* The plan of a run *)

Idle == [file |-> None, step |-> "idle", hash |-> None, stamp |-> 0, of |-> None, shows |-> FALSE]
NoRun == [phase |-> "idle", inputs |-> {}, queue |-> {}, out |-> {}]
NoReport == [f \in Files |-> "none"]

\* The resume check goes by the stamp.
Unchanged(f, inputs) ==
    LET n == NameOf(f, inputs) IN
    /\ md[n] # None /\ entry[n] # None
    /\ entry[n].stamp = pdf[f].stamp /\ entry[n].file = f

\* Mutation: only what is handed to the workers is listed.
ListNone(skipped) == NoReport
Listed(skipped) == [f \in Files |-> IF f \in skipped THEN "skipped" ELSE "none"]

\* run_ingestion: partition the inputs, then a pool if there is enough to do.
Start(pool) ==
    LET pending == {f \in Present : ~Unchanged(f, Present)} IN
    /\ run.phase \in {"idle", "ended"} /\ Present # {}
    /\ Tick("runs", MaxRuns)
    /\ pool => Cardinality(pending) > 1
    /\ run' = [phase |-> IF pool THEN "submitting" ELSE "serial",
               inputs |-> Present, queue |-> pending, out |-> pending]
    /\ report' = Listed(Present \ pending)
    /\ result' = NoReport
    /\ work' = [w \in Workers |-> Idle]
    /\ batch' = [w \in Workers |-> None]
    /\ UNCHANGED <<pdf, corpus>>

-----------------------------------------------------------------------------
(* _ingest_one_pdf, in a worker *)

Running(w) ==
    \/ run.phase \in {"submitting", "collecting"}
    \/ run.phase = "serial" /\ w = Main
At(w, step) == Running(w) /\ work[w].step = step
NameFor(w) == NameOf(work[w].file, run.inputs)

\* The future of the worker's file is settled.
Finish(w, status) ==
    /\ work' = [work EXCEPT ![w] = Idle]
    /\ result' = [result EXCEPT ![work[w].file] = status]

Take(w) ==
    /\ At(w, "idle")
    /\ \A f \in Files : run.phase = "serial" => result[f] = "none"
    /\ \E f \in run.queue :
           /\ run' = [run EXCEPT !.queue = @ \ {f}]
           /\ work' = [work EXCEPT ![w] = [Idle EXCEPT !.file = f, !.step = "taken"]]
    /\ UNCHANGED <<pdf, corpus, report, result, batch, count>>

\* sha256_file, or the file is gone.
HashFile(w) ==
    /\ At(w, "taken")
    /\ IF pdf[work[w].file] = None THEN Finish(w, "failed")
       ELSE /\ work' = [work EXCEPT ![w].hash = pdf[work[w].file].content, ![w].step = "hashed"]
            /\ UNCHANGED result
    /\ UNCHANGED <<pdf, corpus, run, report, batch, count>>

\* The stamp, and the resume check by the hash.
StatFile(w) ==
    LET f == work[w].file
        n == NameFor(w)
    IN
    /\ At(w, "hashed")
    /\ IF entry[n] # None /\ md[n] # None /\ entry[n].hash = work[w].hash
       THEN Finish(w, "unlisted")
       ELSE /\ work' = [work EXCEPT ![w].stamp = IF pdf[f] = None THEN 0 ELSE pdf[f].stamp,
                                    ![w].step = "new"]
            /\ UNCHANGED result
    /\ UNCHANGED <<pdf, corpus, run, report, batch, count>>

\* remove_source_assets, in a store of its own: an open batch is not touched.
Clean(w) ==
    /\ At(w, "new")
    /\ images' = images \ {work[w].hash}
    /\ manifest' = manifest \ {work[w].hash}
    /\ work' = [work EXCEPT ![w].step = "clean"]
    /\ UNCHANGED <<pdf, md, entry, run, report, result, batch, count>>

\* process_pdf with the engines that are up: the text, and a batch that is
\* opened for the figure, whose file is written at once.
Read(w) ==
    LET f == work[w].file IN
    /\ At(w, "clean") /\ pdf[f] # None
    /\ \E down \in SUBSET Engines :
           LET shows == ShowsFigure(pdf[f].content, down)
               opened == IF batch[w] = None THEN [base |-> manifest, now |-> manifest] ELSE batch[w]
           IN
           /\ HasText(pdf[f].content, down)
           /\ Allowed("rearmed", shows /\ batch[w] # None /\ work[w].hash \in opened.base)
           /\ work' = [work EXCEPT ![w].of = pdf[f].content, ![w].shows = shows, ![w].step = "read"]
           /\ images' = IF shows THEN images \cup {work[w].hash} ELSE images
           /\ batch' = IF shows
                       THEN [batch EXCEPT ![w] = [opened EXCEPT !.now = @ \cup {work[w].hash}]]
                       ELSE batch
    /\ UNCHANGED <<pdf, md, entry, manifest, run, report, result, count>>

Unreadable(f) ==
    IF pdf[f] = None THEN TRUE ELSE \E down \in SUBSET Engines : ~HasText(pdf[f].content, down)

\* The asset lock is not free, the file is gone, or no engine reads it.
ReadFails(w) ==
    /\ At(w, "new") \/ At(w, "clean")
    /\ work[w].step = "clean" => Unreadable(work[w].file)
    /\ IF pdf[work[w].file] = None THEN UNCHANGED count ELSE Tick("faults", MaxFaults)
    /\ Finish(w, "failed")
    /\ UNCHANGED <<pdf, corpus, run, report, batch>>

\* Mutation: the manifest as it was when the batch was opened, with its changes.
MergedStale(b) == b.now

\* commit_batch: what the batch changed, in the manifest as it is now.
Merged(b) == (manifest \ (b.base \ b.now)) \cup (b.now \ b.base)

Commit(w) ==
    /\ At(w, "read")
    /\ IF work[w].shows
       THEN /\ manifest' = Merged(batch[w])
            /\ batch' = [batch EXCEPT ![w] = None]
       ELSE UNCHANGED <<manifest, batch>>
    /\ work' = [work EXCEPT ![w].step = "parsed"]
    /\ UNCHANGED <<pdf, md, entry, images, run, report, result, count>>

\* The lock is not free or the write fails: the batch stays open, and the
\* document goes on without its figures.
CommitFails(w) ==
    /\ At(w, "read") /\ work[w].shows
    /\ Tick("faults", MaxFaults)
    /\ work' = [work EXCEPT ![w].shows = FALSE, ![w].step = "parsed"]
    /\ UNCHANGED <<pdf, corpus, run, report, result, batch>>

WriteMarkdown(w) ==
    /\ At(w, "parsed")
    /\ md' = [md EXCEPT ![NameFor(w)] = [of |-> work[w].of, hash |-> work[w].hash, shows |-> work[w].shows]]
    /\ work' = [work EXCEPT ![w].step = "written"]
    /\ UNCHANGED <<pdf, entry, manifest, images, run, report, result, batch, count>>

WriteEntry(w) ==
    /\ At(w, "written")
    /\ entry' = [entry EXCEPT ![NameFor(w)] =
                    [hash |-> work[w].hash, stamp |-> work[w].stamp, file |-> work[w].file]]
    /\ Finish(w, "processed")
    /\ UNCHANGED <<pdf, md, manifest, images, run, report, batch, count>>

\* OCR or Docling does not come back.
Hang(w) ==
    /\ At(w, "clean") /\ run.phase # "serial"
    /\ Tick("faults", MaxFaults)
    /\ work' = [work EXCEPT ![w].step = "hung"]
    /\ UNCHANGED <<pdf, corpus, run, report, result, batch>>

-----------------------------------------------------------------------------
(* The main process *)

\* _terminate_process_pool.
Stopped == [w \in Workers |-> Idle]

Submitted ==
    /\ run.phase = "submitting"
    /\ run' = [run EXCEPT !.phase = "collecting"]
    /\ UNCHANGED <<pdf, corpus, report, result, work, batch, count>>

\* A future is settled. What a worker found unchanged is logged, not listed.
Collect(f) ==
    /\ run.phase \in {"collecting", "serial"}
    /\ f \in run.out /\ result[f] # "none"
    /\ report' = [report EXCEPT ![f] = IF result[f] = "unlisted" THEN "none" ELSE result[f]]
    /\ result' = [result EXCEPT ![f] = "none"]
    /\ run' = [run EXCEPT !.out = @ \ {f}]
    /\ UNCHANGED <<pdf, corpus, work, batch, count>>

\* Mutation: the limit is only looked at for futures that are settled.
OverdueNever == FALSE

\* cf_wait came back with nothing: no future was settled within the limit.
Overdue == run.phase = "collecting" /\ run.out # {} /\ \A f \in run.out : result[f] = "none"

\* The processes are terminated, and all that is outstanding has failed.
Timeout ==
    /\ Overdue
    /\ \A w \in Workers : work[w].step \in {"hung", "idle"}
    /\ \A w \in Workers : work[w].step = "idle" => run.queue = {}
    /\ report' = [f \in Files |-> IF f \in run.out THEN "failed" ELSE report[f]]
    /\ run' = [run EXCEPT !.out = {}, !.queue = {}]
    /\ work' = Stopped
    /\ UNCHANGED <<pdf, corpus, result, batch, count>>

\* The same for processes that are only slow.
TimeoutSlow ==
    /\ Overdue
    /\ Tick("faults", MaxFaults)
    /\ report' = [f \in Files |-> IF f \in run.out THEN "failed" ELSE report[f]]
    /\ run' = [run EXCEPT !.out = {}, !.queue = {}]
    /\ work' = Stopped
    /\ UNCHANGED <<pdf, corpus, result, batch>>

\* A worker process dies: the pool is broken, and every future that is not
\* settled fails.
PoolBreaks ==
    /\ run.phase = "collecting" /\ run.queue \cup {f \in run.out : result[f] = "none"} # {}
    /\ Tick("faults", MaxFaults)
    /\ result' = [f \in Files |-> IF f \in run.out /\ result[f] = "none" THEN "failed" ELSE result[f]]
    /\ run' = [run EXCEPT !.queue = {}]
    /\ work' = Stopped
    /\ UNCHANGED <<pdf, corpus, report, batch>>

\* It breaks while files are handed to it: everything again, serially.
Fallback ==
    /\ run.phase = "submitting"
    /\ Tick("faults", MaxFaults)
    /\ Allowed("fallback", \E f \in Files : result[f] # "none" \/ \E n \in Names :
                   entry[n] # None /\ f \in run.out /\ NameOf(f, run.inputs) = n /\
                   pdf[f] # None /\ entry[n].hash = pdf[f].content)
    /\ run' = [run EXCEPT !.phase = "serial", !.queue = run.out]
    /\ result' = NoReport
    /\ work' = Stopped
    /\ batch' = [w \in Workers |-> None]
    /\ UNCHANGED <<pdf, corpus, report>>

\* .ingest_result.json is written. The run fails if it lists nothing that was
\* processed or skipped.
Finished ==
    /\ run.phase \in {"collecting", "serial"} /\ run.out = {}
    /\ run' = [run EXCEPT !.phase = "ended"]
    /\ UNCHANGED <<pdf, corpus, report, result, work, batch, count>>
Aborted == run.phase = "ended" /\ \A f \in run.inputs : report[f] \notin {"processed", "skipped"}

Crash ==
    /\ run.phase \notin {"idle", "ended"}
    /\ Tick("faults", MaxFaults)
    /\ run' = NoRun /\ report' = NoReport /\ result' = NoReport
    /\ work' = Stopped /\ batch' = [w \in Workers |-> None]
    /\ UNCHANGED <<pdf, corpus>>

\* Somebody puts, replaces or removes a PDF.
Edit(f, c) ==
    /\ Tick("edits", MaxEdits)
    /\ Allowed("touched", \/ pdf[f] # None /\ c = pdf[f].content
                          \/ \E n \in Names : entry[n] # None /\ entry[n].hash = c)
    /\ Allowed("twin", \E g \in Files \ {f} :
                   \/ pdf[g] # None /\ pdf[g].content = c
                   \/ \E n \in Names : entry[n] # None /\ entry[n].file = g /\ entry[n].hash = c)
    /\ Allowed("renamed", \E g \in Present \ {f} :
                   LET n == NameOf(g, IF c = None THEN Present \ {f} ELSE Present \cup {f}) IN
                   /\ n # NameOf(g, Present)
                   /\ entry[n] # None
                   /\ \/ entry[n].hash = pdf[g].content
                      \/ entry[n].file = g /\ entry[n].stamp = pdf[g].stamp)
    /\ Allowed("reverted",
            \/ c # None /\ \E w \in Workers : work[w].hash = c
            \/ \E n \in Names : /\ entry[n] # None /\ entry[n].hash = c
                                /\ \/ md[n] # None /\ md[n].of # c
                                   \/ \E w \in Workers : work[w].file = f)
    /\ pdf' = [pdf EXCEPT ![f] = IF c = None THEN None ELSE [content |-> c, stamp |-> count'.edits]]
    /\ UNCHANGED <<corpus, run, report, result, work, batch>>

Init ==
    /\ \E g \in Given :
        /\ Allowed("twin", \E f, h \in Files : f # h /\ g[f] # None /\ g[f] = g[h])
        /\ pdf = [f \in Files |-> IF g[f] = None THEN None ELSE [content |-> g[f], stamp |-> 0]]
    /\ md = [n \in Names |-> None] /\ entry = [n \in Names |-> None]
    /\ manifest = {} /\ images = {}
    /\ run = NoRun /\ report = NoReport /\ result = NoReport
    /\ work = [w \in Workers |-> Idle] /\ batch = [w \in Workers |-> None]
    /\ count = [runs |-> 0, edits |-> 0, faults |-> 0]

Step(w) ==
    \/ Take(w) \/ HashFile(w) \/ StatFile(w) \/ Clean(w)
    \/ Read(w) \/ Commit(w) \/ WriteMarkdown(w) \/ WriteEntry(w)

Drain == Submitted \/ Finished \/ Timeout \/ \E f \in Files : Collect(f)

Next ==
    \/ \E pool \in BOOLEAN : Start(pool)
    \/ \E w \in Workers : Step(w) \/ ReadFails(w) \/ CommitFails(w) \/ Hang(w)
    \/ Drain \/ TimeoutSlow \/ PoolBreaks \/ Fallback \/ Crash
    \/ \E f \in Files, c \in Contents \cup {None} : Edit(f, c)

\* A process that does not hang gets on with its file, or fails on it; the main
\* process loops over the futures.
Fairness ==
    /\ \A w \in Workers : WF_vars(Step(w) \/ ReadFails(w))
    /\ WF_vars(Drain)

Spec == Init /\ [][Next]_vars /\ Fairness

-----------------------------------------------------------------------------
(* Properties *)

\* The state is well-formed: a batch is open only in the process that works.
TypeOK ==
    /\ manifest \subseteq Contents /\ images \subseteq Contents
    /\ run.queue \subseteq run.out /\ run.out \subseteq run.inputs
    /\ \A f \in Files : result[f] # "none" => f \in run.out
    /\ \A w \in Workers : work[w].step # "idle" => work[w].file \in run.out \ run.queue
    /\ \A v, w \in Workers : v # w /\ work[v].step # "idle" => work[v].file # work[w].file

\* A PDF that a run would skip, by its stamp or by its hash, has Markdown of the
\* content that it has: whatever was interrupted, and however the names of its
\* namesakes changed, nothing stale stays.
SkipSound ==
    \A f \in Present :
        LET n == NameOf(f, Present) IN
        \/ \E w \in Workers : work[w].step # "idle" /\ NameFor(w) = n
        \/ md[n] = None \/ entry[n] = None
        \/ entry[n].hash # pdf[f].content /\ ~Unchanged(f, Present)
        \/ md[n].of = pdf[f].content

\* The figure that the Markdown of an up-to-date document shows is in the
\* manifest and has its file, although the workers write one manifest, and a
\* re-ingestion removes figures first.
FiguresResolve ==
    \A f \in Present :
        LET n == NameOf(f, Present) IN
        md[n] # None /\ entry[n] # None /\ md[n].shows /\ entry[n].hash = pdf[f].content =>
            pdf[f].content \in manifest \cap images

\* A run that came to its end has listed every input: a reader of the result
\* file sees what was processed, skipped and failed, and the run fails only if
\* it failed for every file.
Accounted == run.phase = "ended" => \A f \in run.inputs : report[f] # "none"

\* The state is well-formed, and a run that ended has listed every input.
IngestSound == TypeOK /\ Accounted

\* A hung worker process does not keep a pool from its end.
RunEnds == (run.phase = "collecting") ~> (run.phase \in {"ended", "idle"})
=============================================================================
