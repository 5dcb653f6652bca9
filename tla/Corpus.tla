------------------------------- MODULE Corpus -------------------------------
(***************************************************************************)
(* Where the documents are: the indexes of the General category and of the *)
(* categories that users make, the membership registry, the edit sidecars, *)
(* the Markdown files, and the operations that move a document among them: *)
(* upload, reprocessing, reindexing, transfer, hiding and deletion.        *)
(*                                                                         *)
(* JobQueue has the queue and its lock, IndexBuild the build of one index; *)
(* here a job is what it does to several indexes. One job at a time holds  *)
(* the index lock; the requests of the web server run beside it. A crash   *)
(* loses the job's progress, and the queue's recovery runs it again from   *)
(* its first step.                                                         *)
(*                                                                         *)
(* A definition under a comment "Mutation:" is no part of the              *)
(* specification: it is the next definition with a slip in it that the     *)
(* properties have to notice.                                              *)
(***************************************************************************)
EXTENDS Naturals

CONSTANTS
    Docs,        \* documents, by the hash of their PDF
    Keys,        \* keys of the categories that users may create
    General,     \* the default category; its members have no membership row
    Nothing,
    Incidents,   \* bound: the coincidences that may happen, see below
    MaxJobs,     \* bound: jobs accepted
    MaxFaults,   \* bound: jobs that fail or are cancelled, builds with a file that fails
    MaxCrashes,  \* bound: crashes
    MaxHides,    \* bound: edits of index records
    MaxDrops     \* bound: deletions of documents and of categories

ASSUME CorpusNames == General \notin Keys /\ Nothing \notin Docs \cup Keys \cup {General}
ASSUME CorpusBounds ==
    /\ MaxJobs \in Nat /\ MaxFaults \in Nat /\ MaxCrashes \in Nat
    /\ MaxHides \in Nat /\ MaxDrops \in Nat
    \* stray: an upload that names another category than its document has, when
    \*        it is accepted or when it is indexed
    \* drop:  a category is deleted while a job that targets it is queued or
    \*        running, or is created again while its directory is being removed
    \* late:  a document is edited or deleted while a job that reads it is
    \*        queued or running, or a job starts while one is being deleted
    /\ Incidents \subseteq {"stray", "drop", "late"}

VARIABLES
    cats,      \* durable: the rows of the table of categories
    member,    \* durable: the category of each document
    tables,    \* durable: the directories that have a table
    listed,    \* durable: the directories whose table has a manifest
    rows,      \* durable: the documents with rows in each directory
    raw,       \* durable: those of them whose rows were made without their edits
    edits,     \* durable: the documents with an entry in each edit sidecar
    md,        \* durable: the documents with Markdown and a source-map entry
    option,    \* durable: the category in the upload options of each known document
    pending,   \* durable: the jobs accepted and not ended
    job,       \* the job that runs
    pc,        \* its next step
    todo,      \* the groups of a transfer or reindex that are left
    group,     \* the directory of the group it works on
    dropping,  \* the category whose directory is about to be removed
    deleting,  \* the document that is being deleted, and how far that is
    settled,   \* ghost: indexed by a job that ended well, not touched since
    hidden,    \* ghost: edited by a user since it was last extracted
    gone,      \* ghost: deleted, and not uploaded again
    torn,      \* ghost: for each document the directories that a transfer which
               \* did not end well had handed its edits over to
    missed,    \* ghost: its file failed where an index had to have its rows
    count      \* the bounded counters

registry == <<cats, member>>
indexes  == <<tables, listed, rows, raw>>
files    == <<edits, md, option>>
work     == <<job, pc, todo, group>>
requests == <<dropping, deleting>>
ghosts   == <<settled, hidden, gone, torn, missed>>
vars == <<registry, indexes, files, pending, work, requests, ghosts, count>>

Dirs == Keys \cup {General}
Registered == cats \cup {General}
Idle == pc = "idle"
NotDeleting == [doc |-> Nothing, step |-> "none"]
NoGroups == [d \in Dirs |-> {}]
Known == {d \in Docs : option[d] # Nothing}

Job(kind, docs, to, forced) == [kind |-> kind, docs |-> docs, to |-> to, forced |-> forced]
Jobs ==
    {j \in [kind : {"reindex", "reindex_source", "transfer", "upload", "prepared", "ingested"},
            docs : SUBSET Docs, to : Dirs, forced : BOOLEAN] :
        /\ j.kind = "reindex" <=> j.docs = {}
        /\ j.kind = "prepared" => j.forced
        /\ j.kind \in {"reindex", "reindex_source", "transfer"} => ~j.forced}
Waiting == pending \cup ({job} \ {Nothing})
Concerned(d) == \E j \in Waiting : d \in j.docs
Allowed(incident, happens) == happens => incident \in Incidents

Tick(counter, bound) == count[counter] < bound /\ count' = [count EXCEPT ![counter] = @ + 1]

-----------------------------------------------------------------------------
(* Requests that queue a job *)

IsUpload(j) == j.kind \in {"upload", "prepared", "ingested"}

\* Bound: no two jobs of a kind for the same documents, and one upload of a
\* document at a time.
Accept(j) ==
    /\ Tick("jobs", MaxJobs)
    /\ \A w \in Waiting :
         /\ w.kind = j.kind => w.docs # j.docs
         /\ IsUpload(w) /\ IsUpload(j) => w.docs \cap j.docs = {}
    /\ Allowed("late", deleting.doc \in j.docs)
    /\ pending' = pending \cup {j}

\* An upload would put a document into another category than its own.
Strays(d, t, forced) == member[d] # t /\ (forced \/ member[d] # General)

\* A new upload, or one that replaces a document (force_duplicate): the
\* registry keeps the options it came with.
Upload(d, t) ==
    LET forced == d \in Known IN
    /\ t \in Registered
    /\ Allowed("stray", Strays(d, t, forced))
    /\ Accept(Job("upload", {d}, t, forced))
    /\ option' = [option EXCEPT ![d] = t]
    /\ gone' = gone \ {d}
    /\ UNCHANGED <<registry, indexes, edits, md, work, requests, settled, hidden, torn, missed>>

\* enqueue_source_reprocess: the category is the one of the registry's options.
Reprocess(d) ==
    /\ d \in Known
    /\ Allowed("stray", member[d] # option[d])
    /\ Accept(Job("upload", {d}, option[d], TRUE))
    /\ UNCHANGED <<registry, indexes, files, work, requests, ghosts>>

\* enqueue_full_reingest: the options are the defaults, so every document is
\* indexed into General, whatever its category.
Reingest ==
    /\ Known # {}
    /\ Allowed("stray", \E d \in Known : member[d] # General)
    /\ Accept(Job("upload", Known, General, TRUE))
    /\ option' = [d \in Docs |-> IF d \in Known THEN General ELSE Nothing]
    /\ UNCHANGED <<registry, indexes, edits, md, work, requests, ghosts>>

Reindex ==
    /\ Accept(Job("reindex", {}, General, FALSE))
    /\ UNCHANGED <<registry, indexes, files, work, requests, ghosts>>

ReindexSource(d) ==
    /\ d \in md
    /\ Accept(Job("reindex_source", {d}, General, FALSE))
    /\ UNCHANGED <<registry, indexes, files, work, requests, ghosts>>

\* No index job is in its indexing phase.
MutationAllowed ==
    \/ Idle
    \/ ~Idle /\ job.kind = "transfer"

Transfer(s, t) ==
    /\ MutationAllowed
    /\ s \subseteq Known /\ t \in Registered
    /\ Accept(Job("transfer", s, t, FALSE))
    /\ UNCHANGED <<registry, indexes, files, work, requests, ghosts>>

-----------------------------------------------------------------------------
(* Jobs *)

End == job' = Nothing /\ pc' = "idle" /\ todo' = NoGroups /\ group' = Nothing
Done == End /\ pending' = pending \ {job}
Go(step) == pc' = step /\ UNCHANGED <<job, todo, group, pending>>

\* The documents of a job by the directory that owns them.
GroupsOf(j) ==
    [d \in Dirs |-> IF j.kind = "transfer" /\ d = j.to THEN {}
                    ELSE {x \in j.docs : member[x] = d}]

\* _job_category_key: an upload whose category is gone goes to General.
TargetOf(j) == IF j.to \in Registered THEN j.to ELSE General

\* The lock-free phase of an upload. A forced one first takes the lock to
\* remove the old version, _prepare_for_forced_duplicates: the edits and the
\* rows, but only those of General; the Markdown and the source-map entry.
Becomes(j, kind) == pending' = (pending \ {j}) \cup {[j EXCEPT !.kind = kind]}

Prepare(j) ==
    /\ Idle /\ j.kind = "upload" /\ j.forced
    /\ edits' = [edits EXCEPT ![General] = @ \ j.docs]
    /\ rows' = [rows EXCEPT ![General] = @ \ j.docs]
    /\ raw' = [raw EXCEPT ![General] = @ \ j.docs]
    /\ md' = md \ j.docs
    /\ settled' = settled \ j.docs
    /\ hidden' = hidden \ j.docs
    /\ Becomes(j, "prepared")
    /\ UNCHANGED <<registry, tables, listed, option, work, requests, gone, torn, missed, count>>

\* The extraction writes Markdown and source-map entry, and the registry notes
\* it: a restart resumes with the indexing phase.
Ingest(j) ==
    /\ j.kind = IF j.forced THEN "prepared" ELSE "upload"
    /\ md' = md \cup j.docs
    /\ settled' = settled \ j.docs
    /\ missed' = missed \ j.docs
    /\ Becomes(j, "ingested")
    /\ UNCHANGED <<registry, indexes, edits, option, work, requests, hidden, gone, torn, count>>

\* It is cancelled, or the extraction fails.
Abandon(j) ==
    /\ j.kind \in {"upload", "prepared"}
    /\ Tick("faults", MaxFaults)
    /\ pending' = pending \ {j}
    /\ UNCHANGED <<registry, indexes, files, work, requests, ghosts>>

\* A job gets the index lock.
Start(j) ==
    /\ Idle /\ j.kind \notin {"upload", "prepared"}
    /\ Allowed("late", deleting.doc # Nothing)
    /\ Allowed("stray", j.kind = "ingested" /\ \E d \in j.docs : Strays(d, TargetOf(j), j.forced))
    /\ job' = j
    /\ todo' = CASE j.kind = "reindex" -> NoGroups
                 [] j.kind = "ingested" -> [NoGroups EXCEPT ![TargetOf(j)] = j.docs]
                 [] OTHER -> GroupsOf(j)
    /\ pc' = IF j.kind = "reindex" THEN "build" ELSE "next"
    /\ group' = Nothing
    /\ UNCHANGED <<registry, indexes, files, pending, requests, ghosts, count>>

\* A build leaves out the files that fail, and goes on.
LeftOut(lost) == IF lost = {} THEN UNCHANGED count ELSE Tick("faults", MaxFaults)

\* A full build of General from all of the Markdown, published with the edits
\* of the live index applied.
Build ==
    /\ pc = "build" /\ md # {}
    /\ \E lost \in SUBSET md :
         /\ rows' = [rows EXCEPT ![General] = md \ lost]
         /\ raw' = [raw EXCEPT ![General] = (md \ lost) \ edits[General]]
         /\ missed' = missed \cup {d \in lost : member[d] = General}
         /\ LeftOut(lost)
    /\ tables' = tables \cup {General} /\ listed' = listed \cup {General}
    /\ Go("prune")
    /\ UNCHANGED <<registry, files, requests, settled, hidden, gone, torn>>

\* _prune_to_membership: the build put every document into General.
Prune ==
    LET drop == {d \in Docs : member[d] # General} IN
    /\ pc = "prune"
    /\ rows' = [rows EXCEPT ![General] = @ \ drop]
    /\ raw' = [raw EXCEPT ![General] = @ \ drop]
    /\ Done
    /\ UNCHANGED <<registry, tables, listed, files, requests, ghosts, count>>

\* Mutation: a transfer takes the rows out before it copies them.
NextGroupRemoves ==
    /\ pc = "next"
    /\ IF todo = NoGroups
       THEN pc' = "member" /\ UNCHANGED <<todo, group, rows, raw>>
       ELSE \E d \in Dirs :
              /\ todo[d] # {}
              /\ group' = d
              /\ pc' = "index" /\ UNCHANGED todo
              /\ rows' = [rows EXCEPT ![d] = IF job.kind = "transfer" THEN @ \ todo[d] ELSE @]
              /\ raw' = [raw EXCEPT ![d] = IF job.kind = "transfer" THEN @ \ todo[d] ELSE @]
    /\ UNCHANGED <<registry, tables, listed, files, pending, job, requests, ghosts, count>>

\* The next group: for a transfer the directory the documents leave, else the
\* one they are indexed into.
NextGroup ==
    /\ pc = "next"
    /\ IF todo = NoGroups
       THEN pc' = "member" /\ UNCHANGED <<todo, group>>
       ELSE \E d \in Dirs :
              /\ todo[d] # {}
              /\ group' = d
              /\ pc' = "index" /\ UNCHANGED todo
    /\ UNCHANGED <<registry, indexes, files, pending, job, requests, ghosts, count>>

Into == IF job.kind = "transfer" THEN job.to ELSE group
From == group
Moving == todo[group]

\* index_markdown_sources on an existing table: the rows of each document are
\* replaced, with the edits of the directory itself; those of a document
\* without Markdown are deleted. The deletion comes before the addition: of a
\* document where it is cut in between, nothing is left.
Replace(part, cut) ==
    /\ rows' = [rows EXCEPT ![Into] = (@ \ (part \cup cut)) \cup (part \cap md)]
    /\ raw' = [raw EXCEPT ![Into] = (@ \ (part \cup cut)) \cup ((part \cap md) \ edits[Into])]

AfterIndex ==
    IF job.kind = "transfer" THEN Go("carry")
    ELSE /\ todo' = [todo EXCEPT ![group] = {}]
         /\ pc' = "next"
         /\ UNCHANGED <<job, group, pending>>

Incremental ==
    /\ pc = "index" /\ Into \in tables /\ Into \in listed
    /\ Replace(Moving, {})
    /\ missed' = IF job.kind = "transfer" THEN missed ELSE missed \ Moving
    /\ AfterIndex
    /\ UNCHANGED <<registry, tables, listed, files, requests, settled, hidden, gone, torn, count>>

\* index_markdown(only_sources), in place: the rows appear before the manifest
\* and, for a transfer, with the edits of the directory they leave. The files
\* that fail are left out, and a transfer does not look whether there are any.
FirstBuild ==
    /\ pc = "index" /\ Into \notin tables /\ Moving \cap md # {}
    /\ tables' = tables \cup {Into}
    /\ \E lost \in SUBSET (Moving \cap md) :
         /\ rows' = [rows EXCEPT ![Into] = (Moving \cap md) \ lost]
         /\ raw' = [raw EXCEPT ![Into] = ((Moving \cap md) \ lost) \ edits[From]]
         /\ missed' = missed \cup lost
         /\ LeftOut(lost)
    /\ Go("manifest")
    /\ UNCHANGED <<registry, listed, files, requests, settled, hidden, gone, torn>>

\* The manifest is written; a transfer copies the whole sidecar along.
WriteManifest ==
    /\ pc = "manifest"
    /\ listed' = listed \cup {Into}
    /\ edits' = IF job.kind = "transfer" /\ edits[From] # {}
                THEN [edits EXCEPT ![Into] = edits[From]] ELSE edits
    /\ AfterIndex
    /\ UNCHANGED <<registry, tables, rows, raw, md, option, requests, ghosts, count>>

\* Mutation: the target's sidecar is overwritten, not merged.
CarryEditsOver ==
    /\ pc = "carry"
    /\ edits' = [edits EXCEPT ![Into] = edits[From] \cap Moving]
    /\ Go("uncarry")
    /\ UNCHANGED <<registry, indexes, md, option, requests, ghosts, count>>

\* move_overrides_for_sources, the write of the target and that of the source.
CarryEdits ==
    /\ pc = "carry"
    /\ edits' = [edits EXCEPT ![Into] = @ \cup (edits[From] \cap Moving)]
    /\ Go("uncarry")
    /\ UNCHANGED <<registry, indexes, md, option, requests, ghosts, count>>

DropCarried ==
    /\ pc = "uncarry"
    /\ edits' = [edits EXCEPT ![From] = @ \ Moving]
    /\ Go("remove")
    /\ UNCHANGED <<registry, indexes, md, option, requests, ghosts, count>>

\* The rows leave the directory they were in.
RemoveRows ==
    /\ pc = "remove"
    /\ rows' = [rows EXCEPT ![From] = @ \ Moving]
    /\ raw' = [raw EXCEPT ![From] = @ \ Moving]
    /\ todo' = [todo EXCEPT ![group] = {}]
    /\ pc' = "next"
    /\ UNCHANGED <<registry, tables, listed, files, pending, job, group, requests, ghosts, count>>

\* The documents that the running transfer has handed over, and of which the
\* registry still has the category they were in.
Handed ==
    IF Idle \/ job.kind # "transfer" THEN {}
    ELSE {d \in job.docs :
            /\ member[d] # job.to
            /\ d \in todo[member[d]] => pc = "remove" /\ group = member[d]}
Tear == torn' = [d \in Docs |-> IF d \in Handed THEN torn[d] \cup {job.to} ELSE torn[d]]

\* The memberships, last of all. Those of an upload to General and of a
\* reindexed source stay as they are; a category that is gone fails the job.
\* A transfer that ends well makes good one to the same directory that did not.
SetMembership ==
    /\ pc = "member"
    /\ member' = CASE job.kind = "transfer" /\ job.to \in Registered ->
                        [d \in Docs |-> IF d \in job.docs THEN job.to ELSE member[d]]
                   [] job.kind = "ingested" /\ TargetOf(job) # General ->
                        [d \in Docs |-> IF d \in job.docs THEN TargetOf(job) ELSE member[d]]
                   [] OTHER -> member
    /\ settled' = IF job.kind = "ingested" THEN settled \cup (job.docs \cap md) ELSE settled
    /\ CASE job.kind = "transfer" /\ job.to \in Registered ->
               torn' = [d \in Docs |-> IF d \in job.docs /\ member[d] # job.to
                                       THEN torn[d] \ {job.to} ELSE torn[d]]
         [] job.kind = "ingested" ->
               torn' = [d \in Docs |-> IF d \in job.docs THEN {} ELSE torn[d]]
         [] OTHER -> Tear
    /\ Done
    /\ UNCHANGED <<cats, indexes, files, requests, hidden, gone, missed, count>>

\* What a step leaves that is cut off: an indexer some of whose rows are replaced.
Cut ==
    \/ UNCHANGED <<rows, raw, missed>>
    \/ pc = "index" /\ Into \in tables \cap listed
       /\ \E part \in SUBSET Moving, d \in Moving :
            /\ Replace(part, {d} \ part)
            /\ missed' = IF member[d] = Into THEN missed \cup ({d} \ part) ELSE missed

\* A failure, of any step, or a cancellation: the job ends with what it has
\* done so far. A first build may fail with its manifest written, if it cannot
\* copy the edits.
Fail ==
    /\ ~Idle
    /\ Tick("faults", MaxFaults)
    /\ Cut
    /\ listed' \in {listed, IF pc = "manifest" THEN listed \cup {Into} ELSE listed}
    /\ Tear
    /\ Done
    /\ UNCHANGED <<registry, tables, files, requests, settled, hidden, gone>>

\* Mutation: a refusal of the indexer is not an error for the transfer.
RefusedIgnored ==
    /\ pc = "index" /\ Into \in tables \ listed
    /\ AfterIndex
    /\ UNCHANGED <<registry, indexes, files, requests, ghosts, count>>

\* Without a readable manifest a table takes no more documents; without
\* Markdown there is nothing to build.
Refused ==
    /\ \/ pc = "index" /\ Into \in tables \ listed
       \/ pc = "index" /\ Into \notin tables /\ Moving \cap md = {}
       \/ pc = "build" /\ md = {}
    /\ Tear
    /\ Done
    /\ UNCHANGED <<registry, indexes, files, requests, settled, hidden, gone, missed, count>>

-----------------------------------------------------------------------------
(* Requests that act at once *)

CreateCategory(k) ==
    /\ k \notin cats
    /\ Allowed("drop", dropping = k)
    /\ cats' = cats \cup {k}
    /\ UNCHANGED <<member, indexes, files, pending, work, requests, ghosts, count>>

\* Only a category without members is deleted: first its row, then its
\* directory with everything in it.
DeleteCategory(k) ==
    /\ MutationAllowed /\ dropping = Nothing
    /\ k \in cats /\ \A d \in Docs : member[d] # k
    /\ Allowed("drop", \E j \in Waiting : j.to = k)
    /\ Tick("drops", MaxDrops)
    /\ cats' = cats \ {k}
    /\ dropping' = k
    /\ UNCHANGED <<member, indexes, files, pending, work, deleting, ghosts>>

RemoveDirectory ==
    /\ dropping # Nothing
    /\ rows' = [rows EXCEPT ![dropping] = {}]
    /\ raw' = [raw EXCEPT ![dropping] = {}]
    /\ edits' = [edits EXCEPT ![dropping] = {}]
    /\ tables' = tables \ {dropping} /\ listed' = listed \ {dropping}
    /\ torn' = [d \in Docs |-> {IF t = dropping THEN Nothing ELSE t : t \in torn[d]}]
    /\ dropping' = Nothing
    /\ UNCHANGED <<registry, md, option, pending, work, deleting, settled, hidden, gone, missed, count>>

\* delete_index_records or update_index_record: the table and the sidecar of
\* the category the user looks at.
Hide(d, k) ==
    /\ MutationAllowed
    /\ k \in Registered \cap tables /\ d \in rows[k]
    /\ Allowed("late", Concerned(d) \/ member[d] # k)
    /\ Tick("hides", MaxHides)
    /\ raw' = [raw EXCEPT ![k] = @ \ {d}]
    /\ edits' = [edits EXCEPT ![k] = @ \cup {d}]
    /\ hidden' = hidden \cup {d}
    /\ UNCHANGED <<registry, tables, listed, rows, md, option, pending, work, requests, settled, gone, torn, missed>>

\* Mutation: only the index of the document's category is searched.
DeleteDocAtHome(d) ==
    /\ MutationAllowed /\ deleting.doc = Nothing
    /\ d \in Known
    /\ Allowed("late", Concerned(d))
    /\ Tick("drops", MaxDrops)
    /\ rows' = [rows EXCEPT ![member[d]] = @ \ {d}]
    /\ raw' = [raw EXCEPT ![member[d]] = @ \ {d}]
    /\ deleting' = [doc |-> d, step |-> "forget"]
    /\ settled' = settled \ {d}
    /\ UNCHANGED <<registry, tables, listed, files, pending, work, dropping, hidden, gone, torn, missed>>

\* delete_pdf_document: the rows in every directory on disk, whether its
\* category is registered or not,
DeleteDoc(d) ==
    /\ MutationAllowed /\ deleting.doc = Nothing
    /\ d \in Known
    /\ Allowed("late", Concerned(d))
    /\ Tick("drops", MaxDrops)
    /\ rows' = [k \in Dirs |-> rows[k] \ {d}]
    /\ raw' = [k \in Dirs |-> raw[k] \ {d}]
    /\ deleting' = [doc |-> d, step |-> "forget"]
    /\ settled' = settled \ {d}
    /\ UNCHANGED <<registry, tables, listed, files, pending, work, dropping, hidden, gone, torn, missed>>

\* then the edits in General and the membership,
Forget ==
    /\ deleting.step = "forget"
    /\ edits' = [edits EXCEPT ![General] = @ \ {deleting.doc}]
    /\ member' = [member EXCEPT ![deleting.doc] = General]
    /\ deleting' = [deleting EXCEPT !.step = "erase"]
    /\ UNCHANGED <<cats, indexes, md, option, pending, work, dropping, ghosts, count>>

\* and at last its files and its registry entry.
Erase ==
    /\ deleting.step = "erase"
    /\ md' = md \ {deleting.doc}
    /\ option' = [option EXCEPT ![deleting.doc] = Nothing]
    /\ hidden' = hidden \ {deleting.doc}
    /\ gone' = gone \cup {deleting.doc}
    /\ deleting' = NotDeleting
    /\ UNCHANGED <<registry, indexes, edits, pending, work, dropping, settled, torn, missed, count>>

\* The server dies: requests and progress are lost, the ledger has the jobs.
Crash ==
    /\ ~Idle \/ dropping # Nothing \/ deleting.doc # Nothing
    /\ Tick("crashes", MaxCrashes)
    /\ Cut
    /\ Tear
    /\ End
    /\ pending' = {[j EXCEPT !.kind = IF @ = "prepared" THEN "upload" ELSE @] : j \in pending}
    /\ dropping' = Nothing /\ deleting' = NotDeleting
    /\ UNCHANGED <<registry, tables, listed, files, settled, hidden, gone>>

-----------------------------------------------------------------------------

Init ==
    /\ cats = {} /\ member = [d \in Docs |-> General]
    /\ tables = {} /\ listed = {}
    /\ rows = NoGroups /\ raw = NoGroups /\ edits = NoGroups
    /\ md = {} /\ option = [d \in Docs |-> Nothing]
    /\ pending = {} /\ job = Nothing /\ pc = "idle" /\ todo = NoGroups /\ group = Nothing
    /\ dropping = Nothing /\ deleting = NotDeleting
    /\ settled = {} /\ hidden = {} /\ gone = {} /\ missed = {}
    /\ torn = [d \in Docs |-> {}]
    /\ count = [c \in {"jobs", "faults", "crashes", "hides", "drops"} |-> 0]

Next ==
    \/ \E d \in Docs :
         \/ \E t \in Dirs : Upload(d, t) \/ Hide(d, t)
         \/ Reprocess(d) \/ ReindexSource(d) \/ DeleteDoc(d)
    \/ Reingest \/ Reindex
    \/ \E s \in (SUBSET Docs) \ {{}}, t \in Dirs : Transfer(s, t)
    \/ \E j \in pending : Prepare(j) \/ Ingest(j) \/ Abandon(j) \/ Start(j)
    \/ Build \/ Prune \/ NextGroup \/ Incremental \/ FirstBuild \/ WriteManifest
    \/ CarryEdits \/ DropCarried \/ RemoveRows \/ SetMembership
    \/ Fail \/ Refused
    \/ \E k \in Keys : CreateCategory(k) \/ DeleteCategory(k)
    \/ RemoveDirectory \/ Forget \/ Erase \/ Crash

Spec == Init /\ [][Next]_vars

-----------------------------------------------------------------------------
(* Properties *)

TypeOK ==
    /\ cats \subseteq Keys /\ member \in [Docs -> Dirs]
    /\ listed \subseteq tables /\ tables \subseteq Dirs
    /\ rows \in [Dirs -> SUBSET Docs] /\ edits \in [Dirs -> SUBSET Docs]
    /\ \A d \in Dirs : raw[d] \subseteq rows[d] /\ (d \notin tables => rows[d] = {})
    /\ md \subseteq Docs /\ option \in [Docs -> Dirs \cup {Nothing}]
    /\ pending \subseteq Jobs /\ (Idle => job = Nothing) /\ (~Idle => job \in pending)
    /\ todo \in [Dirs -> SUBSET Docs] /\ group \in Dirs \cup {Nothing}
    /\ torn \in [Docs -> SUBSET (Dirs \cup {Nothing})]

Found(d) == \E k \in Registered \cap tables : d \in rows[k]

\* enqueue_transfer_sources promises that a document is at worst in both
\* categories, "never in neither": one whose indexing ended well is found by a
\* search of the registered categories, in every state of every job, until it is
\* deleted or extracted again. Two kinds of documents are excepted. Those in
\* missed: a file that failed. Those in torn: a failure, a cancellation or a
\* crash came between the removal of the rows and the write of the memberships,
\* and the transfer has not been repeated; the next reindex takes such a
\* document out of General, or the deletion of its category takes the rows.
NeverInNeither ==
    \A d \in settled \ missed : torn[d] = {} => Found(d)

\* A document's edits are in the sidecar of the category it is a member of, so
\* that the next indexing of it applies them, or in that of the target when the
\* transfer that runs has handed them over; wherever transfers, failures and
\* crashes have taken it. For a document in torn they are in that of the target
\* while the registry names the other category: no indexing applies them.
EditsFollow ==
    \A d \in settled \cap hidden : torn[d] = {} =>
        d \in edits[member[d]] \/ (d \in Handed /\ d \in edits[job.to])

\* The docstring of move_overrides_for_sources: the target of a transfer does
\* not resurrect hidden chunks.
HiddenStaysHidden ==
    \A d \in settled \cap hidden : ~Concerned(d) => d \notin raw[member[d]]

\* A transfer that ends well has put its documents into the target and taken
\* them out of the category they were in, and says so in the registry. That
\* includes those that an earlier one left in torn, unless the registry has them
\* in the target: such a document is skipped, whatever became of its rows. And
\* it excepts the files that failed: the transfer ends well without them.
TransferDelivers ==
    [][(SetMembership /\ job.kind = "transfer" /\ job.to \in Registered) =>
        \A d \in (job.docs \cap settled) \ missed :
            member[d] # job.to \/ torn[d] = {} =>
            /\ d \in rows[job.to] /\ job.to \in listed
            /\ member[d] # job.to => d \notin rows[member[d]]
            /\ member'[d] = job.to]_vars

\* The comment on step 4 of a transfer: "the document was readable throughout
\* the transfer". It is not: a first build goes on without the files that fail,
\* and the transfer then removes their rows where they were.
ReadableThroughout ==
    [][~Idle /\ job.kind = "transfer" =>
        \A d \in settled \cap settled' : Found(d) => Found(d)']_vars

\* What was deleted has no rows, in no directory, registered or left over by a
\* transfer or a deletion of a category that did not end, and no membership
\* that a later upload of the same document would inherit.
DeletedLeavesNothing ==
    \A d \in gone : member[d] = General /\ \A k \in Dirs : d \notin rows[k]

\* The shape of the state, and no trace of what was deleted.
CorpusSound == TypeOK /\ DeletedLeavesNothing
=============================================================================
