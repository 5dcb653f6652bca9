------------------------------- MODULE Intake -------------------------------
(***************************************************************************)
(* How a PDF gets in: the chunked and the multipart upload endpoints, the  *)
(* duplicate check with its force tokens, the PDF registry with the entry  *)
(* a forced upload replaces, and the files and registry marks of an upload *)
(* job, under crashes, failures and cancellations. A chunk request may be  *)
(* delivered twice or late, and its answer may be lost.                    *)
(*                                                                         *)
(* JobQueue has the workers and the ledger, Corpus the categories and the  *)
(* other jobs; here every job makes progress by itself, in any order. Sizes *)
(* are counted in chunks, and a document is named by its content.          *)
(***************************************************************************)
EXTENDS Naturals, Sequences, Functions

CONSTANTS
    Files,       \* files that users have
    Large,       \* the ones that the browser sends in chunks
    Chunks,      \* chunks of each file
    Sessions,    \* chunked uploads: one upload_id each
    Forms,       \* multipart forms: sequences of parts, a part is a sequence of files
    MaxEntries,  \* entries a zip may have
    Loose,       \* contents of the PDFs that were put into data/ by hand
    None,
    Incidents,   \* bound: the coincidences that may happen, see below
    MaxTries,    \* bound: requests that are sent
    MaxUploads,  \* bound: uploads that get as far as the registry
    MaxResends,  \* bound: chunk requests that are sent again, or answers lost
    MaxFaults,   \* bound: failures and cancellations
    MaxCrashes   \* bound: crashes

Content == [file : Files, size : 1..Chunks]
Ids == 1..MaxUploads

\* What a force token may be for: these PDFs, which replace these.
Grants == [docs : SUBSET Content, dups : SUBSET Content]

ASSUME IntakeBounds ==
    /\ Chunks \in Nat \ {0} /\ MaxEntries \in Nat /\ MaxTries \in Nat
    /\ MaxUploads \in Nat /\ MaxResends \in Nat /\ MaxFaults \in Nat /\ MaxCrashes \in Nat
ASSUME IntakeForms == Large \subseteq Files /\ Forms \subseteq Seq(Seq(Files))
ASSUME IntakeNames == None \notin Ids /\ None \notin Sessions /\ None \notin Grants
    \* late:    a copy of the first chunk arrives after the .part file was removed
    \* overlap: an upload replaces one that has not ended
    \* undone:  a replacement stops after the old version was removed
ASSUME IntakeIncidents == Incidents \subseteq {"late", "overlap", "undone"}

VARIABLES
    part,     \* durable: the chunks in each .part file
    meta,     \* the sessions with an entry in _CHUNK_UPLOADS
    client,   \* what each session's browser is doing
    wire,     \* chunk requests in flight, by session and offset
    tokens,   \* the force tokens that this process signed and that are not expired
    req,      \* upload requests, which become jobs under the same id
    staged,   \* durable: the PDFs in each staging directory
    saved,    \* durable: the PDFs in each upload directory
    entry,    \* durable: the registry, an entry and the ones it replaced
    md,       \* durable: documents with Markdown and a source-map entry
    rows,     \* durable: documents with rows in the live index
    agreed,   \* ghost: what the user of each request agreed to replace
    count     \* the bounded counters

chunked == <<part, meta, client, wire>>
disk == <<staged, saved, md, rows>>
vars == <<chunked, tokens, req, disk, entry, agreed, count>>

Whole(f) == [file |-> f, size |-> Chunks]
Allowed(incident, happens) == happens => incident \in Incidents
Tick(counter, bound) == count[counter] < bound /\ count' = [count EXCEPT ![counter] = @ + 1]

-----------------------------------------------------------------------------
(* Chunked uploads *)

\* The browser sends the chunk at its offset and waits for the answer.
SendChunk(s) ==
    /\ client[s].step = "sending" /\ client[s].offset < Chunks
    /\ wire' = [wire EXCEPT ![s][client[s].offset] = @ + 1]
    /\ client' = [client EXCEPT ![s].step = "waiting"]
    /\ UNCHANGED <<part, meta, tokens, req, disk, entry, agreed, count>>

\* The answer is lost or late: the client asks chunk_status for the offset and
\* goes on from there, while its request may still arrive.
AskStatus(s) ==
    /\ client[s].step = "waiting"
    /\ Tick("resends", MaxResends)
    /\ client' = [client EXCEPT ![s].offset = Len(part[s]), ![s].step = "sending"]
    /\ UNCHANGED <<part, meta, wire, tokens, req, disk, entry, agreed>>

\* Mutation: the size of the .part file is not compared with the offset.
AcceptsAny(s, o) == TRUE

\* The offset check, made under the append lock of the session.
Accepts(s, o) == o = Len(part[s])

\* A chunk request arrives. A client that is not waiting for it any more does
\* not see the answer. The metadata is written after the lock is released.
ChunkArrives(s, o) ==
    /\ wire[s][o] > 0
    /\ Allowed("late", o = 0 /\ part[s] = <<>> /\ client[s].offset > 0)
    /\ wire' = [wire EXCEPT ![s][o] = @ - 1]
    /\ part' = IF Accepts(s, o) THEN [part EXCEPT ![s] = Append(@, o + 1)] ELSE part
    /\ meta' = IF Accepts(s, o) THEN meta \cup {s} ELSE meta
    /\ client' = IF client[s].step = "waiting" /\ client[s].offset = o
                 THEN [client EXCEPT ![s].offset = Len(part'[s]), ![s].step = "sending"]
                 ELSE client
    /\ UNCHANGED <<tokens, req, disk, entry, agreed, count>>

\* _prune_abandoned_uploads: a day after the first chunk, whatever came since.
\* A .part file that no process remembers is never found.
Prune(s) ==
    /\ s \in meta
    /\ Tick("faults", MaxFaults)
    /\ part' = [part EXCEPT ![s] = <<>>]
    /\ meta' = meta \ {s}
    /\ UNCHANGED <<client, wire, tokens, req, disk, entry, agreed>>

\* A client whose offset is the file's size asks for completion.
AskComplete(s) ==
    /\ client[s].step = "sending" /\ client[s].offset = Chunks
    /\ client' = [client EXCEPT ![s].step = "completing"]
    /\ UNCHANGED <<part, meta, wire, tokens, req, disk, entry, agreed, count>>

\* What the bytes of a .part file are: the beginning of a file.
ContentOf(s) == [file |-> client[s].file, size |-> Len(part[s])]

-----------------------------------------------------------------------------
(* The PDF registry *)

Blocking == {"queued", "saving_uploads", "ingesting", "ingested", "indexed"}
Active == {"queued", "saving_uploads", "ingesting"}
Recoverable == Active \cup {"ingested"}

StatusOf(d) == IF entry[d] = <<>> THEN "none" ELSE entry[d][1].status
JobOf(d) == IF entry[d] = <<>> THEN None ELSE entry[d][1].job

\* register_queued: an entry that is replaced by force is kept behind the new
\* one; any other is overwritten.
Registered(e, i, forced) ==
    <<[status |-> "queued", job |-> i]>> \o (IF forced THEN e ELSE <<>>)

\* mark_job_status for one document.
Mark(e, i, status) ==
    IF e = <<>> \/ e[1].job # i THEN e
    ELSE CASE status = "interrupted" /\ Len(e) > 1 -> Tail(e)
           [] status = "failed" /\ e[1].status \in {"ingested", "indexed"} -> e
           [] status = "failed" /\ e[1].status \notin {"ingested", "indexed"} /\ Len(e) > 1 -> Tail(e)
           [] status \in {"ingested", "indexed"} -> <<[e[1] EXCEPT !.status = status]>>
           [] OTHER -> <<[e[1] EXCEPT !.status = status]>> \o Tail(e)

\* Each document has a Markdown file of its own here. What every mark also does
\* to documents that share one with a newer (_supersede_same_processed_paths sets
\* them to "superseded") is left out.
MarkAll(i, status) ==
    entry' = [d \in Content |-> IF d \in req[i].docs THEN Mark(entry[d], i, status) ELSE entry[d]]

-----------------------------------------------------------------------------
(* Upload requests *)

NoReq == [docs |-> {}, found |-> {}, forced |-> {}, token |-> None,
          session |-> None, again |-> FALSE, step |-> "free"]
Live == {i \in Ids : req[i].step \notin {"free", "ended"}}
InFlight == {i \in Ids : req[i].step \in {"staged", "checked", "registered"}}
Set(i, step) == req' = [req EXCEPT ![i].step = step]

\* The four detectors: the registry, the source map, the vector store, the
\* PDFs under data/ that nothing refers to.
RegistryDuplicate(d) == StatusOf(d) \in Blocking
LoosePdf(d) == d \in Loose /\ entry[d] = <<>> /\ d \notin md
Duplicate(d) == RegistryDuplicate(d) \/ d \in md \/ d \in rows \/ LoosePdf(d)

\* The PDFs of a form, by the part and the place in it: a part with another number
\* of files than one is a zip.
Places(form) == UNION {{<<k, n>> : n \in DOMAIN form[k]} : k \in DOMAIN form}
Unpacked(form) == [p \in Places(form) |-> form[p[1]][p[2]]]
ZipRefused(form) == \E k \in DOMAIN form : Len(form[k]) = 0 \/ Len(form[k]) > MaxEntries
SelectedTwice(form) == ~IsInjective(Unpacked(form))
Tokens == {None} \cup tokens

\* A multipart request is staged, with or without a force token.
Stage(i, form, t) ==
    /\ req[i].step = "free" /\ \A k \in 1..(i - 1) : req[k].step # "free"
    /\ Tick("tries", MaxTries)
    /\ ~ZipRefused(form) /\ ~SelectedTwice(form)
    /\ LET docs == {Whole(f) : f \in Range(Unpacked(form))} IN
       /\ req' = [req EXCEPT ![i] = [NoReq EXCEPT !.docs = docs, !.token = t, !.step = "staged"]]
       /\ staged' = [staged EXCEPT ![i] = docs]
    /\ UNCHANGED <<chunked, tokens, saved, md, rows, entry, agreed>>

\* A form that is refused before anything is looked up.
RefuseForm(form) ==
    /\ Tick("tries", MaxTries)
    /\ ZipRefused(form) \/ SelectedTwice(form)
    /\ UNCHANGED <<chunked, tokens, req, disk, entry, agreed>>

\* complete_chunked_upload under the append lock: what has arrived is copied
\* into the staging directory, the .part file and its metadata are removed. The
\* size that the client declared is not looked at.
Complete(i, s, t) ==
    /\ client[s].step = "completing" /\ part[s] # <<>>
    /\ req[i].step = "free" /\ \A k \in 1..(i - 1) : req[k].step # "free"
    /\ Tick("tries", MaxTries)
    /\ req' = [req EXCEPT ![i] = [NoReq EXCEPT !.docs = {ContentOf(s)}, !.token = t,
                                               !.session = s, !.step = "staged"]]
    /\ staged' = [staged EXCEPT ![i] = {ContentOf(s)}]
    /\ part' = [part EXCEPT ![s] = <<>>]
    /\ meta' = meta \ {s}
    /\ UNCHANGED <<client, wire, tokens, saved, md, rows, entry, agreed>>

\* There is nothing to complete: 404, and the client gives up.
CompleteNothing(s) ==
    /\ client[s].step = "completing" /\ part[s] = <<>>
    /\ \A i \in InFlight : req[i].session # s
    /\ client' = [client EXCEPT ![s].step = "done"]
    /\ UNCHANGED <<part, meta, wire, tokens, req, disk, entry, agreed, count>>

\* The duplicate check; nothing locks the registry until the request registers.
Check(i) ==
    LET found == {d \in req[i].docs : Duplicate(d)} IN
    /\ req[i].step = "staged"
    /\ req' = [req EXCEPT ![i].found = found, ![i].step = "checked"]
    /\ UNCHANGED <<chunked, tokens, disk, entry, agreed, count>>

\* A token is good for these uploads with these duplicates.
Token(docs, dups) == [docs |-> docs, dups |-> dups]

\* Mutation: a token is good for these uploads, whatever they replace.
TokenForUploads(i) ==
    \E t \in tokens : t = req[i].token /\ t.docs = req[i].docs

\* _force_upload_token_valid
TokenValid(i) ==
    req[i].token \in tokens /\ req[i].token = Token(req[i].docs, req[i].found)

\* 409 with a new token, or any other error: what was staged is removed. The
\* chunks of a session are gone by now, its client has to send them again.
Leave(i) ==
    /\ req' = [req EXCEPT ![i] = NoReq]
    /\ staged' = [staged EXCEPT ![i] = {}]
    /\ client' = IF req[i].session = None THEN client
                 ELSE [client EXCEPT ![req[i].session].step = "done"]

RefuseDuplicate(i) ==
    /\ req[i].step = "checked" /\ req[i].found # {} /\ ~TokenValid(i)
    /\ tokens' = tokens \cup {Token(req[i].docs, req[i].found)}
    /\ Leave(i)
    /\ UNCHANGED <<part, meta, wire, saved, md, rows, entry, agreed, count>>

\* No room in the corpus, a bad group, a category that is not allowed.
RefuseOther(i) ==
    /\ req[i].step \in {"staged", "checked"}
    /\ Tick("faults", MaxFaults)
    /\ Leave(i)
    /\ UNCHANGED <<part, meta, wire, tokens, saved, md, rows, entry, agreed>>

Register(i) ==
    LET forced == IF TokenValid(i) THEN req[i].found ELSE {} IN
    /\ req[i].step = "checked"
    /\ req[i].found # {} => TokenValid(i)
    /\ Allowed("overlap", \E d \in req[i].docs : StatusOf(d) \in Active)
    /\ Allowed("overlap", \E k \in Live \ {i} : req[k].docs \cap req[i].docs # {} /\ k \notin InFlight)
    /\ req' = [req EXCEPT ![i].forced = forced, ![i].found = {}, ![i].token = None, ![i].step = "registered"]
    /\ entry' = [d \in Content |->
                   IF d \in req[i].docs THEN Registered(entry[d], i, d \in forced) ELSE entry[d]]
    /\ agreed' = [agreed EXCEPT ![i] = IF req[i].token = None THEN {} ELSE req[i].token.dups]
    /\ UNCHANGED <<chunked, tokens, disk, count>>

End(i) ==
    /\ req' = [req EXCEPT ![i] = [NoReq EXCEPT !.step = "ended"]]
    /\ agreed' = [agreed EXCEPT ![i] = {}]
    /\ client' = IF req[i].session = None THEN client
                 ELSE [client EXCEPT ![req[i].session].step = "done"]

Enqueue(i) ==
    /\ req[i].step = "registered"
    /\ req' = [req EXCEPT ![i].session = None, ![i].step = "queued"]
    /\ client' = IF req[i].session = None THEN client
                 ELSE [client EXCEPT ![req[i].session].step = "done"]
    /\ UNCHANGED <<part, meta, wire, tokens, disk, entry, agreed, count>>

\* The queue refuses it: the registry entry becomes a failed one.
NotQueued(i) ==
    /\ req[i].step = "registered"
    /\ Tick("faults", MaxFaults)
    /\ MarkAll(i, "failed")
    /\ End(i)
    /\ staged' = [staged EXCEPT ![i] = {}]
    /\ UNCHANGED <<part, meta, wire, tokens, saved, md, rows>>

\* FORCE_UPLOAD_TOKEN_TTL_SECONDS are over.
Expire(t) ==
    /\ t \in tokens
    /\ Tick("faults", MaxFaults)
    /\ tokens' = tokens \ {t}
    /\ UNCHANGED <<chunked, req, disk, entry, agreed>>

-----------------------------------------------------------------------------
(* The job of an upload *)

\* _save_staged_uploads: each PDF is copied, then removed.
Copy(i, d) ==
    /\ req[i].step = "queued" /\ d \in staged[i] /\ d \notin saved[i]
    /\ saved' = [saved EXCEPT ![i] = @ \cup {d}]
    /\ UNCHANGED <<chunked, tokens, req, staged, md, rows, entry, agreed, count>>

\* Mutation: it is removed from the staging directory whether it was copied or not.
UnlinkFirst(i, d) ==
    /\ req[i].step = "queued" /\ d \in staged[i]
    /\ staged' = [staged EXCEPT ![i] = @ \ {d}]
    /\ UNCHANGED <<chunked, tokens, req, saved, md, rows, entry, agreed, count>>

Unlink(i, d) ==
    /\ req[i].step = "queued" /\ d \in staged[i] \cap saved[i]
    /\ staged' = [staged EXCEPT ![i] = @ \ {d}]
    /\ UNCHANGED <<chunked, tokens, req, saved, md, rows, entry, agreed, count>>

\* _require_upload_files
HasFiles(i) == req[i].docs \subseteq saved[i]

\* A recovered job whose staging directory is gone has nothing to save, and
\* leaves the status alone.
Saved(i) ==
    /\ req[i].step = "queued" /\ staged[i] = {} /\ HasFiles(i)
    /\ \/ (req[i].again => \A d \in req[i].docs : StatusOf(d) = "queued") /\ MarkAll(i, "saving_uploads")
       \/ req[i].again /\ UNCHANGED entry
    /\ Set(i, "saved")
    /\ UNCHANGED <<chunked, tokens, disk, agreed, count>>

Ingesting(i) ==
    /\ req[i].step = "saved"
    /\ MarkAll(i, "ingesting")
    /\ Set(i, "ingesting")
    /\ UNCHANGED <<chunked, tokens, disk, agreed, count>>

\* _prepare_for_forced_duplicates
Prepare(i) ==
    /\ req[i].step = "ingesting"
    /\ md' = md \ req[i].forced
    /\ rows' = rows \ req[i].forced
    /\ Set(i, "prepared")
    /\ UNCHANGED <<chunked, tokens, staged, saved, entry, agreed, count>>

Extract(i) ==
    /\ req[i].step = "prepared"
    /\ md' = md \cup req[i].docs
    /\ Set(i, "extracted")
    /\ UNCHANGED <<chunked, tokens, staged, saved, rows, entry, agreed, count>>

Ingested(i) ==
    /\ req[i].step = "extracted"
    /\ MarkAll(i, "ingested")
    /\ Set(i, "ingested")
    /\ UNCHANGED <<chunked, tokens, disk, agreed, count>>

Index(i) ==
    /\ req[i].step = "ingested"
    /\ rows' = rows \cup req[i].docs
    /\ Set(i, "indexed")
    /\ UNCHANGED <<chunked, tokens, staged, saved, md, entry, agreed, count>>

Indexed(i) ==
    /\ req[i].step = "indexed"
    /\ MarkAll(i, "indexed")
    /\ End(i)
    /\ UNCHANGED <<part, meta, wire, tokens, disk, count>>

Jobs == Live \ InFlight

\* A job fails (status "failed") or is cancelled ("interrupted").
Stop(i, status) ==
    /\ i \in Jobs
    /\ Allowed("undone", req[i].forced # {} /\ (req[i].again \/ req[i].step \in {"prepared", "extracted"}))
    /\ Tick("faults", MaxFaults)
    /\ MarkAll(i, status)
    /\ End(i)
    /\ UNCHANGED <<part, meta, wire, tokens, disk>>

\* Mutation: a job that was saving its PDFs is not recovered.
DocsLeftUnsaved(i) ==
    {d \in Content : JobOf(d) = i /\ StatusOf(d) \in Recoverable \ {"saving_uploads"}}

\* The documents that the registry's recovery finds for a job, and where the
\* job goes on: with the indexing when all of them were ingested and their
\* Markdown is still there, else from the start.
DocsLeft(i) == {d \in Content : JobOf(d) = i /\ StatusOf(d) \in Recoverable}
ResumeAt(i) ==
    IF \A d \in DocsLeft(i) : StatusOf(d) = "ingested" /\ d \in md THEN "ingested" ELSE "queued"

\* The server dies and starts: requests, metadata, and the key of the tokens
\* are gone; the registry's recovery makes the jobs again.
Crash ==
    /\ Tick("crashes", MaxCrashes)
    /\ meta' = {} /\ tokens' = {}
    /\ wire' = [s \in Sessions |-> [o \in 0..(Chunks - 1) |-> 0]]
    /\ client' = [s \in Sessions |->
                    IF client[s].step \in {"waiting", "sending"}
                    THEN [client[s] EXCEPT !.offset = Len(part[s]), !.step = "sending"]
                    ELSE [client[s] EXCEPT !.step = IF @ = "completing" /\ part[s] # <<>>
                                                    THEN "completing" ELSE "done"]]
    /\ req' = [i \in Ids |->
                 IF DocsLeft(i) # {}
                 THEN [NoReq EXCEPT !.docs = DocsLeft(i),
                                    !.forced = {d \in DocsLeft(i) : Len(entry[d]) > 1},
                                    !.again = TRUE, !.step = ResumeAt(i)]
                 ELSE [NoReq EXCEPT !.step = IF req[i].step \in {"free", "staged", "checked"}
                                             THEN "free" ELSE "ended"]]
    /\ staged' = [i \in Ids |-> IF req[i].step \in {"staged", "checked"} THEN {} ELSE staged[i]]
    /\ UNCHANGED <<part, saved, md, rows, entry, agreed>>

-----------------------------------------------------------------------------
Init ==
    /\ part = [s \in Sessions |-> <<>>] /\ meta = {}
    /\ client \in [Sessions -> {[file |-> f, offset |-> 0, step |-> "sending"] : f \in Large}]
    /\ wire = [s \in Sessions |-> [o \in 0..(Chunks - 1) |-> 0]]
    /\ tokens = {}
    /\ req = [i \in Ids |-> NoReq]
    /\ staged = [i \in Ids |-> {}] /\ saved = [i \in Ids |-> {}]
    /\ entry = [d \in Content |-> <<>>]
    /\ md = {} /\ rows = {}
    /\ agreed = [i \in Ids |-> {}]
    /\ count = [k \in {"tries", "resends", "faults", "crashes"} |-> 0]

Chunk(s) ==
    \/ SendChunk(s) \/ AskStatus(s) \/ AskComplete(s) \/ Prune(s) \/ CompleteNothing(s)
    \/ \E o \in 0..(Chunks - 1) : ChunkArrives(s, o)

Request(i) ==
    \/ \E t \in Tokens : (\E f \in Forms : Stage(i, f, t)) \/ (\E s \in Sessions : Complete(i, s, t))
    \/ Check(i) \/ RefuseDuplicate(i) \/ RefuseOther(i)
    \/ Register(i) \/ Enqueue(i) \/ NotQueued(i)

Work(i) ==
    \/ \E d \in Content : Copy(i, d) \/ Unlink(i, d)
    \/ Saved(i) \/ Ingesting(i) \/ Prepare(i) \/ Extract(i) \/ Ingested(i) \/ Index(i) \/ Indexed(i)
    \/ \E status \in {"failed", "interrupted"} : Stop(i, status)

Next ==
    \/ \E s \in Sessions : Chunk(s)
    \/ \E i \in Ids : Request(i) \/ Work(i)
    \/ \E f \in Forms : RefuseForm(f)
    \/ \E t \in tokens : Expire(t)
    \/ Crash

Spec == Init /\ [][Next]_vars

-----------------------------------------------------------------------------
(* Properties *)

Requests ==
    [docs : SUBSET Content, found : SUBSET Content, forced : SUBSET Content,
     token : {None} \cup Grants,
     session : Sessions \cup {None}, again : BOOLEAN,
     step : {"free", "staged", "checked", "registered", "queued", "saved", "ingesting", "prepared",
             "extracted", "ingested", "indexed", "ended"}]
Entries == [status : Blocking \cup {"failed", "interrupted"}, job : Ids]

\* Type invariant. A .part file has at most the file's chunks, and an entry is
\* behind at most the ones of the other uploads.
TypeOK ==
    /\ \A s \in Sessions :
         /\ part[s] \in Seq(1..Chunks) /\ Len(part[s]) <= Chunks
         /\ client[s] \in [file : Files, offset : 0..Chunks,
                          step : {"sending", "waiting", "completing", "done"}]
         /\ wire[s] \in [0..(Chunks - 1) -> Nat]
    /\ meta \subseteq Sessions
    /\ tokens \subseteq Grants
    /\ \A i \in Ids :
         /\ req[i] \in Requests
         /\ staged[i] \subseteq req[i].docs \cup Content /\ saved[i] \subseteq Content
         /\ agreed[i] \subseteq Content
    /\ \A d \in Content : entry[d] \in Seq(Entries) /\ Len(entry[d]) <= MaxUploads
    /\ md \subseteq Content /\ rows \subseteq Content
    /\ count \in [{"tries", "resends", "faults", "crashes"} -> Nat]

\* However chunk requests are repeated, overtaken, lost or pruned, a .part file
\* is a beginning of its file, and what an upload registers is a whole file
\* (the offset check and the copy under the append lock; complete itself does
\* not compare sizes).
WholeFiles ==
    /\ \A s \in Sessions : part[s] = [k \in 1..Len(part[s]) |-> k]
    /\ \A i \in Live : \A d \in req[i].docs : d.size = Chunks

\* Until a job has extracted its PDFs each of them is in its staging or in its
\* upload directory, wherever a crash interrupted the move.
FilesKept ==
    \A i \in Live : req[i].step \in {"staged", "checked", "registered", "queued", "saved", "ingesting"}
        => req[i].docs \subseteq staged[i] \cup saved[i]

\* The state is well-formed, and no accepted file is in neither directory.
IntakeSound == TypeOK /\ FilesKept

\* A job removes the old version of those documents only whose replacement its
\* user agreed to, also when the job was made again from the registry.
OnlyAgreed == \A i \in Live : req[i].forced \subseteq agreed[i]

\* The registry is right about every document, across failures, replacements
\* that are undone, and crashes between any two marks: one that is on its way
\* has a job that is bringing it, or a request that is about to queue one (it
\* would otherwise block every later upload of that PDF), an indexed one has
\* rows, and an ingested one has the Markdown that its job resumes with.
RegistryTrue ==
    \A d \in Content :
        /\ StatusOf(d) \in Active => JobOf(d) \in Live
        /\ StatusOf(d) = "indexed" => d \in rows
        /\ StatusOf(d) = "ingested" => d \in md
=============================================================================
