---------------------------- MODULE CorpusProofs ----------------------------
(***************************************************************************)
(* Theorems about Corpus, for any documents, categories and bounds.        *)
(*                                                                         *)
(* RInv is about jobs, categories and deletions, PInv about where the rows *)
(* of the documents are, EInv about where their edits are. They hold when  *)
(* no document or category is deleted under a job and no upload names      *)
(* another category than its document has (Incidents = {}), with failures  *)
(* and cancellations at any step, and with crashes.                        *)
(***************************************************************************)
EXTENDS Corpus, TLAPS

-----------------------------------------------------------------------------
(* The invariant.                                                          *)

\* The steps in which a job works on one group, and those in which it has
\* copied the group and still has to take it out of where it was.
Stepping == {"index", "manifest", "carry", "uncarry", "remove"}
Leaving  == {"carry", "uncarry", "remove"}

\* The type invariant without what it takes other parts to keep.
Indexes ==
    /\ cats \subseteq Keys /\ member \in [Docs -> Dirs]
    /\ tables \subseteq Dirs /\ listed \subseteq Dirs
    /\ rows \in [Dirs -> SUBSET Docs] /\ raw \in [Dirs -> SUBSET Docs]
    /\ edits \in [Dirs -> SUBSET Docs]
    /\ \A d \in Dirs : raw[d] \subseteq rows[d] /\ (d \notin tables => rows[d] = {})
Papers ==
    /\ md \subseteq Docs /\ option \in [Docs -> Dirs \cup {Nothing}]
    /\ pending \subseteq Jobs
    /\ dropping \in Keys \cup {Nothing}
    /\ deleting \in [doc : Docs \cup {Nothing}, step : {"none", "forget", "erase"}]
    /\ settled \subseteq Docs /\ hidden \subseteq Docs /\ gone \subseteq Docs
    /\ missed \subseteq Docs /\ torn \in [Docs -> SUBSET (Dirs \cup {Nothing})]
    /\ count \in [{"jobs", "faults", "crashes", "hides", "drops"} -> Nat]
Place ==
    /\ pc \in {"idle", "build", "prune", "next", "member"} \cup Stepping
    /\ todo \in [Dirs -> SUBSET Docs] /\ group \in Dirs \cup {Nothing}
    /\ Idle => job = Nothing
    /\ ~Idle => job \in pending /\ ~(job.kind \in {"upload", "prepared"})
    /\ ~Idle => (pc \in {"build", "prune"} <=> job.kind = "reindex")
    /\ pc \in Stepping => group \in Dirs /\ todo[group] # {}
    /\ pc \in Leaving => job.kind = "transfer"
    /\ pc = "manifest" => Into \in tables
    /\ pc \in Leaving => Into \in listed
    /\ listed \subseteq tables

\* What a job has still to do is its own documents, by the directory they are
\* in; an upload has one target.
Plan ==
    ~Idle =>
    /\ \A k \in Dirs : todo[k] \subseteq job.docs
    /\ job.kind = "transfer" =>
          /\ todo[job.to] = {}
          /\ \A k \in Dirs : \A d \in todo[k] : member[d] = k
    /\ job.kind = "ingested" =>
          /\ \A k \in Dirs : todo[k] = {} \/ (k = job.to /\ todo[k] = job.docs)
          /\ \A d \in job.docs : member[d] \in {job.to, General}
    /\ job.kind = "reindex_source" =>
          \A k \in Dirs : \A d \in todo[k] : member[d] = k

\* Categories that documents are in or are to go to exist.
Categories ==
    /\ \A d \in Docs : member[d] \in Registered
    /\ \A j \in pending : j.to \in Registered
    /\ dropping # Nothing => dropping \notin cats

\* There is nothing of an unknown document but its edits.
OnlyKnown ==
    /\ md \subseteq Known /\ hidden \subseteq Known /\ settled \subseteq md
    /\ \A k \in Dirs : rows[k] \subseteq Known
    /\ \A j \in pending : j.docs \subseteq Known
    /\ gone \cap Known = {} /\ \A d \in gone : member[d] = General

\* A document that is being deleted has left the indexes, and no job is for it.
Leaves ==
    /\ deleting.doc = Nothing <=> deleting.step = "none"
    /\ deleting.doc # Nothing =>
          /\ deleting.doc \in Known \ settled
          /\ \A k \in Dirs : deleting.doc \notin rows[k]
          /\ \A j \in pending : deleting.doc \notin j.docs
          /\ ~Idle => job.kind = "transfer"
    /\ deleting.step = "erase" => member[deleting.doc] = General

\* No two uploads of a document, and no edits of one that was just extracted.
Apart ==
    \A i, j \in pending : IsUpload(i) /\ IsUpload(j) /\ i # j => i.docs \cap j.docs = {}
Fresh ==
    \A j \in pending :
        j.kind \in {"prepared", "ingested"} \/ (j.kind = "upload" /\ ~j.forced) =>
            j.docs \cap hidden = {}

\* Nothing that an upload has extracted counts as indexed.
Unsettled == \A j \in pending : j.kind = "ingested" => j.docs \cap settled = {}

RInv ==
    /\ Indexes /\ Papers /\ Place /\ Plan /\ Categories /\ OnlyKnown /\ Leaves
    /\ Apart /\ Fresh /\ Unsettled

\* The last group of the job is done.
Over == pc \in {"next", "member"} /\ todo = NoGroups

\* The documents that the running transfer has taken out of where they were.
Passed(d) ==
    /\ ~Idle /\ job.kind = "transfer" /\ d \in job.docs
    /\ member[d] # job.to /\ d \notin todo[member[d]]

\* Where a document is.
Home(d) == member[d] \in listed /\ d \in rows[member[d]]
Taken(d) == Passed(d) /\ d \in rows[job.to]
Placed == \A d \in settled \ missed : torn[d] = {} => Home(d) \/ Taken(d)
HomesListed == \A d \in settled : member[d] \in listed

\* The documents that a job copies: all that are settled, or, for an upload,
\* all that have Markdown; but for those whose file failed.
Copies == (IF job.kind = "ingested" THEN md ELSE settled) \ missed
Copied ==
    /\ pc = "manifest" => Into \notin listed
    /\ pc \in Leaving \cup {"manifest"} => \A d \in Moving \cap Copies : d \in rows[Into]
    /\ Over /\ job.kind = "ingested" =>
           job.to \in listed /\ \A d \in job.docs \cap Copies : d \in rows[job.to]
    /\ \A d \in Docs : Passed(d) => job.to \in listed
    /\ \A d \in settled \ missed : Passed(d) => d \in rows[job.to] /\ d \notin rows[member[d]]

\* Memberships are written when the last group is done.
Planned == pc = "member" => todo = NoGroups

PInv == Placed /\ HomesListed /\ Copied /\ Planned

\* Where the edits of a document are: in the directory of its category, in that
\* of the transfer that runs, or in one that an earlier transfer has left them in.
EditsHome(d) == d \in edits[member[d]]
EditsTaken(d) == d \in Handed /\ d \in edits[job.to]
EditsLeft(d) == Nothing \in torn[d] \/ \E t \in torn[d] \cap Dirs : d \in edits[t]
EditsSomewhere ==
    \A d \in settled \cap hidden : EditsHome(d) \/ EditsTaken(d) \/ EditsLeft(d)
TornListed == \A d \in Docs : torn[d] \cap Dirs \subseteq listed
Carried ==
    /\ pc = "uncarry" => edits[From] \cap Moving \subseteq edits[Into]
    /\ \A d \in Handed \cap settled \cap hidden : EditsTaken(d) \/ EditsLeft(d)
EInv == EditsSomewhere /\ TornListed /\ Carried

\* The fields of a job.
LEMMA JobFields ==
    ASSUME NEW j \in Jobs
    PROVE  /\ j.kind \in {"reindex", "reindex_source", "transfer", "upload", "prepared", "ingested"}
           /\ j.docs \subseteq Docs /\ j.to \in Dirs /\ j.forced \in BOOLEAN
           /\ j.kind = "reindex" <=> j.docs = {}
           /\ j.kind = "prepared" => j.forced
           /\ j.kind \in {"reindex", "reindex_source", "transfer"} => ~j.forced
           /\ j = [kind |-> j.kind, docs |-> j.docs, to |-> j.to, forced |-> j.forced]
  BY DEF Jobs

\* A job of another kind.
LEMMA OtherKind ==
    ASSUME NEW j \in Jobs, j.docs # {},
           NEW k \in {"upload", "prepared", "ingested"}, k = "prepared" => j.forced,
           NEW i, i = [j EXCEPT !.kind = k]
    PROVE  /\ i \in Jobs
           /\ i.kind = k /\ i.docs = j.docs /\ i.to = j.to /\ i.forced = j.forced
  BY DEF Jobs

\* No category and no document is Nothing.
LEMMA Distinct ==
    /\ General \in Dirs /\ Keys \subseteq Dirs /\ Nothing \notin Dirs /\ Nothing \notin Docs
    /\ General \notin Keys
  BY CorpusNames DEF Dirs

\* No group is left in NoGroups.
LEMMA NoGroupsType == NoGroups \in [Dirs -> SUBSET Docs] /\ \A k \in Dirs : NoGroups[k] = {}
  BY DEF NoGroups

\* A document is in the group of its category's directory.
LEMMA GroupsType ==
    ASSUME NEW j \in Jobs
    PROVE  /\ GroupsOf(j) \in [Dirs -> SUBSET Docs]
           /\ \A k \in Dirs : GroupsOf(j)[k] = IF j.kind = "transfer" /\ k = j.to THEN {}
                                                ELSE {x \in j.docs : member[x] = k}
  BY JobFields DEF GroupsOf

-----------------------------------------------------------------------------
\* The directory that a job writes to.
LEMMA Writes ==
    ASSUME Papers, Place, pc \in Stepping
    PROVE  /\ Into \in Dirs /\ From \in Dirs /\ Moving \in SUBSET Docs /\ Moving # {}
           /\ job \in Jobs /\ job \in pending /\ ~Idle
  BY JobFields DEF Papers, Place, Into, From, Moving, Stepping, Idle

\* Accepting a job only adds to the queue.
LEMMA AcceptMoves ==
    ASSUME NEW j \in Jobs, Accept(j), Papers
    PROVE  /\ pending' = pending \cup {j} /\ pending' \subseteq Jobs
           /\ count' \in [{"jobs", "faults", "crashes", "hides", "drops"} -> Nat]
  BY DEF Accept, Tick, Papers

\* A counter that advances.
LEMMA Ticks ==
    ASSUME Papers, NEW c \in {"jobs", "faults", "crashes", "hides", "drops"}, NEW b, Tick(c, b)
    PROVE  count' \in [{"jobs", "faults", "crashes", "hides", "drops"} -> Nat]
  BY DEF Tick, Papers

\* The requests that queue a job, and what they queue.
Queues(j) ==
    /\ j \in Jobs /\ Accept(j)
    /\ j.kind \in {"upload", "reindex", "reindex_source", "transfer"}
    /\ UNCHANGED <<registry, indexes, edits, md, work, requests, settled, hidden, torn, missed>>
\* What each of these requests queues.
LEMMA UploadQueues ==
    ASSUME Papers, Indexes, NEW d \in Docs, NEW t \in Dirs, Upload(d, t)
    PROVE  /\ Queues(Job("upload", {d}, t, d \in Known))
           /\ option' = [option EXCEPT ![d] = t] /\ gone' = gone \ {d}
           /\ t \in Registered
<1>1. /\ Job("upload", {d}, t, d \in Known) \in Jobs
      /\ Job("upload", {d}, t, d \in Known).kind \in {"upload", "reindex", "reindex_source", "transfer"}
  BY Distinct DEF Job, Jobs
<1>2. Accept(Job("upload", {d}, t, d \in Known))
  BY DEF Upload
<1>3. QED
  BY <1>1, <1>2, Zenon DEF Upload, Queues, Known
\* A document that is extracted again keeps the category of its options.
LEMMA ReprocessQueues ==
    ASSUME Papers, Indexes, NEW d \in Docs, Reprocess(d)
    PROVE  /\ Queues(Job("upload", {d}, option[d], TRUE))
           /\ UNCHANGED <<option, gone>> /\ d \in Known
<1>0. d \in Known /\ option[d] \in Dirs
  BY DEF Reprocess, Known, Papers
<1>1. /\ Job("upload", {d}, option[d], TRUE) \in Jobs
      /\ Job("upload", {d}, option[d], TRUE).kind \in {"upload", "reindex", "reindex_source", "transfer"}
  BY <1>0, Distinct DEF Job, Jobs
<1>2. Accept(Job("upload", {d}, option[d], TRUE))
  BY DEF Reprocess
<1>3. QED
  BY <1>1, <1>2, <1>0, Zenon DEF Reprocess, Queues, files, ghosts
\* The extraction of everything again is to General.
LEMMA ReingestQueues ==
    ASSUME Papers, Indexes, Reingest
    PROVE  /\ Queues(Job("upload", Known, General, TRUE))
           /\ option' = [d \in Docs |-> IF d \in Known THEN General ELSE Nothing]
           /\ UNCHANGED gone
<1>0. Known \in SUBSET Docs /\ Known # {}
  BY DEF Reingest, Known
<1>1. /\ Job("upload", Known, General, TRUE) \in Jobs
      /\ Job("upload", Known, General, TRUE).kind \in {"upload", "reindex", "reindex_source", "transfer"}
  BY <1>0, Distinct DEF Job, Jobs
<1>2. Accept(Job("upload", Known, General, TRUE))
  BY DEF Reingest
<1>3. QED
  BY <1>1, <1>2, Zenon DEF Reingest, Queues, ghosts
\* A reindex names no document.
LEMMA ReindexQueues ==
    ASSUME Papers, Indexes, Reindex
    PROVE  Queues(Job("reindex", {}, General, FALSE)) /\ UNCHANGED <<option, gone>>
<1>1. /\ Job("reindex", {}, General, FALSE) \in Jobs
      /\ Job("reindex", {}, General, FALSE).kind \in
             {"upload", "reindex", "reindex_source", "transfer"}
  BY Distinct DEF Job, Jobs
<1>2. Accept(Job("reindex", {}, General, FALSE))
  BY DEF Reindex
<1>3. QED
  BY <1>1, <1>2, Zenon DEF Reindex, Queues, files, ghosts
\* A source that is indexed again has Markdown.
LEMMA ReindexSourceQueues ==
    ASSUME Papers, Indexes, NEW d \in Docs, ReindexSource(d)
    PROVE  /\ Queues(Job("reindex_source", {d}, General, FALSE))
           /\ UNCHANGED <<option, gone>> /\ d \in md
<1>1. /\ Job("reindex_source", {d}, General, FALSE) \in Jobs
      /\ Job("reindex_source", {d}, General, FALSE).kind \in
             {"upload", "reindex", "reindex_source", "transfer"}
  BY Distinct DEF Job, Jobs
<1>2. Accept(Job("reindex_source", {d}, General, FALSE))
  BY DEF ReindexSource
<1>3. QED
  BY <1>1, <1>2, Zenon DEF ReindexSource, Queues, files, ghosts
\* A transfer is of known documents, to a category that exists.
LEMMA TransferQueues ==
    ASSUME Papers, Indexes, NEW s \in (SUBSET Docs) \ {{}}, NEW t \in Dirs, Transfer(s, t)
    PROVE  /\ Queues(Job("transfer", s, t, FALSE))
           /\ UNCHANGED <<option, gone>> /\ s \subseteq Known /\ t \in Registered
<1>0. s \in SUBSET Docs /\ s # {}
  OBVIOUS
<1>1. /\ Job("transfer", s, t, FALSE) \in Jobs
      /\ Job("transfer", s, t, FALSE).kind \in
             {"upload", "reindex", "reindex_source", "transfer"}
  BY <1>0, Distinct DEF Job, Jobs
<1>2. Accept(Job("transfer", s, t, FALSE))
  BY DEF Transfer
<1>3. QED
  BY <1>1, <1>2, Zenon DEF Transfer, Queues, files, ghosts

-----------------------------------------------------------------------------
(* The type invariant.                                                     *)

\* A request that only queues a job.
LEMMA QueuesMoves ==
    ASSUME Papers, NEW j, Queues(j)
    PROVE  /\ UNCHANGED <<cats, member, tables, listed, rows, raw, edits, md, job, pc, todo, group>>
           /\ UNCHANGED <<dropping, deleting, settled, hidden, torn, missed>>
           /\ j \in Jobs /\ pending' = pending \cup {j} /\ pending' \subseteq Jobs
           /\ count' \in [{"jobs", "faults", "crashes", "hides", "drops"} -> Nat]
           /\ j.kind \in {"upload", "reindex", "reindex_source", "transfer"}
<1>1. j \in Jobs /\ Accept(j)
  BY DEF Queues
<1>2. QED
  BY <1>1, AcceptMoves DEF Queues, registry, indexes, work, requests

\* The requests that queue a job.
Requests ==
    \/ \E d \in Docs, t \in Dirs : Upload(d, t)
    \/ \E d \in Docs : Reprocess(d) \/ ReindexSource(d)
    \/ Reingest \/ Reindex
    \/ \E s \in (SUBSET Docs) \ {{}}, t \in Dirs : Transfer(s, t)
\* Such a request queues one job, and forgets nothing.
LEMMA RequestMoves ==
    ASSUME Papers, Indexes, Requests
    PROVE  /\ \E j : Queues(j)
           /\ option' \in [Docs -> Dirs \cup {Nothing}] /\ gone' \subseteq gone
<1>0. option \in [Docs -> Dirs \cup {Nothing}] /\ General \in Dirs
  BY Distinct DEF Papers
<1>1. CASE \E d \in Docs, t \in Dirs : Upload(d, t)
  BY <1>0, <1>1, UploadQueues
<1>2. CASE \E d \in Docs : Reprocess(d)
  BY <1>0, <1>2, ReprocessQueues
<1>3. CASE \E d \in Docs : ReindexSource(d)
  BY <1>0, <1>3, ReindexSourceQueues
<1>4. CASE Reingest
  BY <1>0, <1>4, ReingestQueues
<1>5. CASE Reindex
  BY <1>0, <1>5, ReindexQueues
<1>6. CASE \E s \in (SUBSET Docs) \ {{}}, t \in Dirs : Transfer(s, t)
  BY <1>0, <1>6, TransferQueues
<1> QED
  BY <1>1, <1>2, <1>3, <1>4, <1>5, <1>6 DEF Requests

\* What a job becomes.
LEMMA BecomesMoves ==
    ASSUME Papers, NEW j \in pending, j.kind \in {"upload", "prepared"},
           NEW k \in {"prepared", "ingested"}, k = "prepared" => j.forced, Becomes(j, k)
    PROVE  \E i \in Jobs :
               /\ pending' = (pending \ {j}) \cup {i}
               /\ i.kind = k /\ i.docs = j.docs /\ i.to = j.to /\ i.forced = j.forced
<1>1. j \in Jobs /\ j.docs # {}
  BY JobFields DEF Papers
<1> DEFINE i == [j EXCEPT !.kind = k]
<1>2. i \in Jobs /\ i.kind = k /\ i.docs = j.docs /\ i.to = j.to /\ i.forced = j.forced
  BY <1>1, OtherKind
<1>3. pending' = (pending \ {j}) \cup {i}
  BY DEF Becomes
<1> QED
  BY <1>2, <1>3

\* A crash turns prepared jobs into uploads, and leaves the others.
Recovered(j) == [j EXCEPT !.kind = IF @ = "prepared" THEN "upload" ELSE @]
\* The fields of a job that is recovered.
LEMMA RecoveredJobs ==
    ASSUME NEW j \in Jobs
    PROVE  /\ Recovered(j) \in Jobs
           /\ Recovered(j).kind = (IF j.kind = "prepared" THEN "upload" ELSE j.kind)
           /\ Recovered(j).docs = j.docs /\ Recovered(j).to = j.to /\ Recovered(j).forced = j.forced
           /\ j.kind # "prepared" => Recovered(j) = j
  BY JobFields DEF Jobs, Recovered
\* What a crash leaves of the queue and of the job.
LEMMA CrashMoves ==
    ASSUME Papers, Crash
    PROVE  /\ pending' = {Recovered(j) : j \in pending} /\ pending' \subseteq Jobs
           /\ job' = Nothing /\ pc' = "idle" /\ todo' = NoGroups /\ group' = Nothing
           /\ count' \in [{"jobs", "faults", "crashes", "hides", "drops"} -> Nat]
<1>1. Tick("crashes", MaxCrashes)
  BY DEF Crash
<1>2. count' \in [{"jobs", "faults", "crashes", "hides", "drops"} -> Nat]
  BY <1>1, Ticks
<1>3. pending' = {Recovered(j) : j \in pending}
  BY DEF Crash, Recovered
<1>4. pending' \subseteq Jobs
  BY <1>3, RecoveredJobs DEF Papers
<1> QED
  BY <1>2, <1>3, <1>4 DEF Crash, End

\* The step that replaces the rows of some documents, or is cut off on the way.
LEMMA ReplaceMoves ==
    ASSUME Indexes, Papers, Into \in Dirs, NEW part \in SUBSET Docs, NEW cut \in SUBSET Docs,
           Replace(part, cut)
    PROVE  /\ rows' \in [Dirs -> SUBSET Docs] /\ raw' \in [Dirs -> SUBSET Docs]
           /\ \A k \in Dirs : raw'[k] \subseteq rows'[k]
           /\ \A k \in Dirs : k # Into => rows'[k] = rows[k]
           /\ rows'[Into] = (rows[Into] \ (part \cup cut)) \cup (part \cap md)
  BY DEF Indexes, Papers, Replace

\* What a failure or a crash leaves of the rows: those of the documents that a
\* job works on may be lost in the directory it writes to.
LEMMA CutMoves ==
    ASSUME Indexes, Papers, Place, Cut
    PROVE  /\ rows' \in [Dirs -> SUBSET Docs] /\ raw' \in [Dirs -> SUBSET Docs]
           /\ \A k \in Dirs : raw'[k] \subseteq rows'[k] /\ (k \notin tables => rows'[k] = {})
           /\ missed' \subseteq Docs /\ missed \subseteq missed'
           /\ \A d \in md : d \in rows[member[d]] => d \in rows'[member[d]] \/ d \in missed'
           /\ \/ rows' = rows
              \/ /\ pc \in Stepping /\ Moving \in SUBSET Docs
                 /\ \A k \in Dirs : rows'[k] \subseteq rows[k] \cup (Moving \cap md)
<1>1. CASE UNCHANGED <<rows, raw, missed>>
  BY <1>1 DEF Indexes, Papers
<1>2. ASSUME pc = "index", Into \in tables, NEW part \in SUBSET Moving, NEW d \in Moving,
             Replace(part, {d} \ part),
             missed' = IF member[d] = Into THEN missed \cup ({d} \ part) ELSE missed
      PROVE  /\ rows' \in [Dirs -> SUBSET Docs] /\ raw' \in [Dirs -> SUBSET Docs]
             /\ \A k \in Dirs : raw'[k] \subseteq rows'[k] /\ (k \notin tables => rows'[k] = {})
             /\ missed' \subseteq Docs /\ missed \subseteq missed'
             /\ \A x \in md : x \in rows[member[x]] => x \in rows'[member[x]] \/ x \in missed'
             /\ pc \in Stepping /\ Moving \in SUBSET Docs
             /\ \A k \in Dirs : rows'[k] \subseteq rows[k] \cup (Moving \cap md)
  <2>1. Into \in Dirs /\ Moving \in SUBSET Docs /\ pc \in Stepping
    BY <1>2, Writes DEF Stepping
  <2>2. part \in SUBSET Docs /\ {d} \ part \in SUBSET Docs /\ d \in Docs
    BY <1>2, <2>1
  <2>3. /\ rows' \in [Dirs -> SUBSET Docs] /\ raw' \in [Dirs -> SUBSET Docs]
        /\ \A k \in Dirs : raw'[k] \subseteq rows'[k]
        /\ \A k \in Dirs : k # Into => rows'[k] = rows[k]
        /\ rows'[Into] = (rows[Into] \ (part \cup ({d} \ part))) \cup (part \cap md)
    BY <1>2, <2>1, <2>2, ReplaceMoves
  <2>4. \A k \in Dirs : k \notin tables => rows'[k] = {}
    BY <1>2, <2>3 DEF Indexes
  <2>5. missed' \subseteq Docs /\ missed \subseteq missed'
    BY <1>2, <2>2 DEF Papers
  <2>6. \A k \in Dirs : rows'[k] \subseteq rows[k] \cup (Moving \cap md)
    BY <1>2, <2>1, <2>3
  <2>7. ASSUME NEW x \in md, x \in rows[member[x]], x \notin rows'[member[x]]
        PROVE  x \in missed'
    <3>1. member[x] \in Dirs
      BY <2>7 DEF Indexes, Papers
    <3>2. member[x] = Into /\ x = d /\ x \notin part
      BY <2>3, <2>7, <3>1
    <3> QED
      BY <1>2, <3>2
  <2> QED
    BY <2>1, <2>3, <2>4, <2>5, <2>6, <2>7
<1> QED
  BY <1>1, <1>2 DEF Cut

\* The documents that are handed over.
LEMMA HandedIs ==
    ASSUME NEW d
    PROVE  d \in Handed <=>
              /\ ~Idle /\ job.kind = "transfer" /\ d \in job.docs /\ member[d] # job.to
              /\ d \in todo[member[d]] => pc = "remove" /\ group = member[d]
  BY DEF Handed
\* What a transfer leaves behind that does not end well.
LEMMA TearMoves ==
    ASSUME Papers, Place, Tear
    PROVE  /\ torn' \in [Docs -> SUBSET (Dirs \cup {Nothing})]
           /\ \A d \in Docs : torn'[d] = IF d \in Handed THEN torn[d] \cup {job.to} ELSE torn[d]
<1>1. ASSUME NEW d \in Handed PROVE job.to \in Dirs
  <2>1. job \in Jobs
    BY <1>1, HandedIs DEF Place, Papers
  <2> QED
    BY <2>1, JobFields
<1> QED
  BY <1>1 DEF Tear, Papers

\* Documents leave one directory.
LEMMA Leave ==
    ASSUME Indexes, NEW k \in Dirs, NEW part,
           rows' = [rows EXCEPT ![k] = @ \ part], raw' = [raw EXCEPT ![k] = @ \ part]
    PROVE  /\ rows' \in [Dirs -> SUBSET Docs] /\ raw' \in [Dirs -> SUBSET Docs]
           /\ \A l \in Dirs : raw'[l] \subseteq rows'[l] /\ rows'[l] \subseteq rows[l]
           /\ \A l \in Dirs : l # k => rows'[l] = rows[l]
           /\ rows'[k] = rows[k] \ part
  BY DEF Indexes

\* The type invariant of the indexes.
LEMMA NextIndexes ==
    ASSUME RInv, [Next]_vars
    PROVE  Indexes'
<1>0. Indexes /\ Papers /\ Place
  BY DEF RInv
<1>1. CASE Requests
  BY <1>0, <1>1, RequestMoves, QueuesMoves DEF Indexes
<1>2. CASE \E d \in Docs, t \in Dirs : Hide(d, t)
  BY <1>0, <1>2 DEF Hide, Indexes, registry
<1>3. CASE \E d \in Docs : DeleteDoc(d)
  BY <1>0, <1>3 DEF DeleteDoc, Indexes, registry, files
<1>4. CASE \E j \in pending : Prepare(j)
  <2> PICK j \in pending : Prepare(j)
    BY <1>4
  <2>1. /\ rows' = [rows EXCEPT ![General] = @ \ j.docs]
        /\ raw' = [raw EXCEPT ![General] = @ \ j.docs]
        /\ edits' = [edits EXCEPT ![General] = @ \ j.docs]
        /\ UNCHANGED <<cats, member, tables, listed>>
    BY DEF Prepare, registry
  <2>2. General \in Dirs
    BY Distinct
  <2> QED
    BY <1>0, <2>1, <2>2, Leave DEF Indexes
<1>5. CASE Build
  BY <1>0, <1>5, Distinct DEF Build, Indexes, Papers, registry, files
<1>6. CASE Prune
  <2>1. General \in Dirs
    BY Distinct
  <2> QED
    BY <1>0, <1>6, <2>1, Leave DEF Prune, Indexes, registry, files
<1>7. CASE Incremental
  <2>1. pc \in Stepping /\ Into \in tables /\ Replace(Moving, {}) /\ UNCHANGED <<registry, tables, listed, files>>
    BY <1>7 DEF Incremental, Stepping
  <2>2. Into \in Dirs /\ Moving \in SUBSET Docs /\ {} \in SUBSET Docs
    BY <1>0, <2>1, Writes
  <2> QED
    BY <1>0, <2>1, <2>2, ReplaceMoves DEF Indexes, registry, files
<1>8. CASE FirstBuild
  <2>1. Into \in Dirs /\ Moving \in SUBSET Docs
    BY <1>0, <1>8, Writes DEF FirstBuild, Stepping
  <2> QED
    BY <1>0, <1>8, <2>1 DEF FirstBuild, Indexes, Papers, registry, files
<1>9. CASE WriteManifest
  <2>1. Into \in Dirs /\ From \in Dirs
    BY <1>0, <1>9, Writes DEF WriteManifest, Stepping
  <2>2. edits' \in [Dirs -> SUBSET Docs]
    BY <1>0, <1>9, <2>1 DEF WriteManifest, Indexes
  <2> QED
    BY <1>0, <1>9, <2>1, <2>2 DEF WriteManifest, Indexes, registry
<1>10. CASE CarryEdits \/ DropCarried
  <2>1. Into \in Dirs /\ From \in Dirs /\ Moving \in SUBSET Docs
    BY <1>0, <1>10, Writes DEF CarryEdits, DropCarried, Stepping
  <2> QED
    BY <1>0, <1>10, <2>1 DEF CarryEdits, DropCarried, Indexes, registry, indexes
<1>11. CASE RemoveRows
  <2>1. From \in Dirs
    BY <1>0, <1>11, Writes DEF RemoveRows, Stepping
  <2> QED
    BY <1>0, <1>11, <2>1, Leave DEF RemoveRows, Indexes, registry, files
<1>12. CASE SetMembership
  <2>1. job \in Jobs
    BY <1>0, <1>12 DEF SetMembership, Place, Papers, Idle
  <2>2. job.to \in Dirs /\ TargetOf(job) \in Dirs
    BY <2>1, JobFields, Distinct DEF TargetOf
  <2>3. member' \in [Docs -> Dirs]
    BY <1>0, <1>12, <2>2 DEF SetMembership, Indexes
  <2> QED
    BY <1>0, <1>12, <2>3 DEF SetMembership, Indexes, indexes, files
<1>13. CASE Fail \/ Crash
  <2>1. /\ UNCHANGED <<registry, tables, files>> /\ Cut
        /\ listed' \in {listed, IF pc = "manifest" THEN listed \cup {Into} ELSE listed}
    BY <1>13 DEF Fail, Crash
  <2>2. pc = "manifest" => Into \in Dirs
    BY <1>0, Writes DEF Stepping
  <2> QED
    BY <1>0, <2>1, <2>2, CutMoves DEF Indexes, registry, files
<1>14. CASE \E k \in Keys : CreateCategory(k) \/ DeleteCategory(k)
  BY <1>0, <1>14 DEF CreateCategory, DeleteCategory, Indexes, indexes, files
<1>15. CASE RemoveDirectory
  <2>1. dropping \in Dirs
    BY <1>0, <1>15, Distinct DEF RemoveDirectory, Papers
  <2> QED
    BY <1>0, <1>15, <2>1 DEF RemoveDirectory, Indexes, registry
<1>16. CASE Forget
  BY <1>0, <1>16, Distinct DEF Forget, Indexes, Papers, indexes
<1>17. CASE \E j \in pending : Ingest(j) \/ Abandon(j) \/ Start(j)
  BY <1>0, <1>17 DEF Ingest, Abandon, Start, Indexes, registry, indexes, files
<1>18. CASE NextGroup \/ Refused \/ Erase \/ UNCHANGED vars
  BY <1>0, <1>18 DEF NextGroup, Refused, Erase, Indexes, registry, indexes, files, vars
<1> QED
  BY <1>1, <1>2, <1>3, <1>4, <1>5, <1>6, <1>7, <1>8, <1>9, <1>10, <1>11, <1>12, <1>13,
     <1>14, <1>15, <1>16, <1>17, <1>18 DEF Next, Requests

\* The steps of a job that end it, and those that do not.
Ends  == Prune \/ SetMembership \/ Fail \/ Refused
Works == Build \/ NextGroup \/ Incremental \/ FirstBuild \/ WriteManifest
            \/ CarryEdits \/ DropCarried \/ RemoveRows

\* What a step of the job leaves alone.
LEMMA WorkMoves ==
    ASSUME Works, Papers
    PROVE  /\ UNCHANGED <<registry, md, option, pending, job, requests, settled, hidden, gone, torn>>
           /\ ~Idle /\ pc' # "idle"
           /\ count' \in [{"jobs", "faults", "crashes", "hides", "drops"} -> Nat]
<1>1. CASE Build \/ FirstBuild
  <2>1. UNCHANGED count \/ Tick("faults", MaxFaults)
    BY <1>1 DEF Build, FirstBuild, LeftOut
  <2>2. count' \in [{"jobs", "faults", "crashes", "hides", "drops"} -> Nat]
    BY <2>1, Ticks DEF Papers
  <2> QED
    BY <1>1, <2>2 DEF Build, FirstBuild, Go, files, Idle
<1>2. CASE ~(Build \/ FirstBuild)
  BY <1>2 DEF Works, NextGroup, Incremental, WriteManifest, CarryEdits, DropCarried,
         RemoveRows, AfterIndex, Go, files, ghosts, Idle, Papers
<1> QED
  BY <1>1, <1>2
\* A job that ends leaves the queue.
LEMMA EndMoves ==
    ASSUME Ends, Papers
    PROVE  /\ UNCHANGED <<cats, tables, edits, md, option, requests, hidden, gone>>
           /\ listed' = listed \/ (pc = "manifest" /\ listed' = listed \cup {Into})
           /\ ~Idle /\ Done /\ count' \in [{"jobs", "faults", "crashes", "hides", "drops"} -> Nat]
<1>1. CASE Fail
  <2>1. Tick("faults", MaxFaults)
    BY <1>1 DEF Fail
  <2>2. count' \in [{"jobs", "faults", "crashes", "hides", "drops"} -> Nat]
    BY <2>1, Ticks
  <2> QED
    BY <1>1, <2>2 DEF Fail, files, registry, Idle
<1>2. CASE Prune \/ SetMembership \/ Refused
  BY <1>2 DEF Prune, SetMembership, Refused, registry, indexes, files, ghosts, Idle, Papers
<1> QED
  BY <1>1, <1>2 DEF Ends

\* The type invariant of the rest.
LEMMA NextPapers ==
    ASSUME RInv, [Next]_vars
    PROVE  Papers'
<1>0. Indexes /\ Papers /\ Place
  BY DEF RInv
<1>1. CASE Requests
  <2>1. PICK j : Queues(j)
    BY <1>0, <1>1, RequestMoves
  <2>2. option' \in [Docs -> Dirs \cup {Nothing}] /\ gone' \subseteq gone
    BY <1>0, <1>1, RequestMoves
  <2> QED
    BY <1>0, <2>1, <2>2, QueuesMoves DEF Papers
<1>2. CASE \E d \in Docs, t \in Dirs : Hide(d, t)
  <2> PICK d \in Docs, t \in Dirs : Hide(d, t)
    BY <1>2
  <2>1. Tick("hides", MaxHides) /\ hidden' = hidden \cup {d}
    BY DEF Hide
  <2>2. count' \in [{"jobs", "faults", "crashes", "hides", "drops"} -> Nat]
    BY <1>0, <2>1, Ticks
  <2> QED
    BY <1>0, <2>1, <2>2 DEF Hide, Papers, requests
<1>3. CASE \E d \in Docs : DeleteDoc(d)
  <2> PICK d \in Docs : DeleteDoc(d)
    BY <1>3
  <2>1. Tick("drops", MaxDrops)
    BY DEF DeleteDoc
  <2>2. count' \in [{"jobs", "faults", "crashes", "hides", "drops"} -> Nat]
    BY <1>0, <2>1, Ticks
  <2> QED
    BY <1>0, <2>2 DEF DeleteDoc, Papers, files
<1>4. CASE \E j \in pending : Prepare(j) \/ Ingest(j)
  <2> PICK j \in pending : Prepare(j) \/ Ingest(j)
    BY <1>4
  <2>1. j \in Jobs /\ j.docs \subseteq Docs
    BY <1>0, JobFields DEF Papers
  <2>2. PICK k \in {"prepared", "ingested"} :
            j.kind \in {"upload", "prepared"} /\ (k = "prepared" => j.forced) /\ Becomes(j, k)
    BY DEF Prepare, Ingest
  <2>3. pending' \subseteq Jobs
    BY <1>0, <2>2, BecomesMoves DEF Papers
  <2> QED
    BY <1>0, <2>1, <2>3 DEF Prepare, Ingest, Papers, requests
<1>5. CASE \E j \in pending : Abandon(j)
  <2>1. Tick("faults", MaxFaults)
    BY <1>5 DEF Abandon
  <2>2. count' \in [{"jobs", "faults", "crashes", "hides", "drops"} -> Nat]
    BY <1>0, <2>1, Ticks
  <2> QED
    BY <1>0, <1>5, <2>2 DEF Abandon, Papers, files, requests, ghosts
<1>6. CASE \E j \in pending : Start(j)
  BY <1>0, <1>6 DEF Start, Papers, files, requests, ghosts
<1>7. CASE Works
  <2>1. missed' \subseteq Docs
    BY <1>0, <1>7 DEF Works, Build, NextGroup, Incremental, FirstBuild, WriteManifest, CarryEdits,
                      DropCarried, RemoveRows, Papers, ghosts
  <2> QED
    BY <1>0, <1>7, <2>1, WorkMoves DEF Papers, requests
<1>8. CASE Ends
  <2>1. settled' \subseteq Docs
    BY <1>0, <1>8 DEF Ends, Prune, SetMembership, Fail, Refused, Papers, ghosts
  <2>2. missed' \subseteq Docs
    BY <1>0, <1>8, CutMoves DEF Ends, Prune, SetMembership, Fail, Refused, Papers, ghosts
  <2>3. torn' \in [Docs -> SUBSET (Dirs \cup {Nothing})]
    <3>1. CASE Prune
      BY <1>0, <3>1 DEF Prune, Papers, ghosts
    <3>2. CASE Fail \/ Refused
      BY <1>0, <3>2, TearMoves DEF Fail, Refused
    <3>3. CASE SetMembership
      <4>1. CASE Tear
        BY <1>0, <4>1, TearMoves
      <4>2. CASE ~Tear
        BY <1>0, <3>3, <4>2 DEF SetMembership, Papers
      <4> QED
        BY <4>1, <4>2
    <3> QED
      BY <1>8, <3>1, <3>2, <3>3 DEF Ends
  <2> QED
    BY <1>0, <1>8, <2>1, <2>2, <2>3, EndMoves DEF Papers, Done, requests
<1>9. CASE \E k \in Keys : CreateCategory(k)
  BY <1>0, <1>9 DEF CreateCategory, Papers, files, requests, ghosts
<1>10. CASE \E k \in Keys : DeleteCategory(k)
  <2> PICK k \in Keys : DeleteCategory(k)
    BY <1>10
  <2>1. Tick("drops", MaxDrops)
    BY DEF DeleteCategory
  <2>2. count' \in [{"jobs", "faults", "crashes", "hides", "drops"} -> Nat]
    BY <1>0, <2>1, Ticks
  <2> QED
    BY <1>0, <2>2 DEF DeleteCategory, Papers, files, ghosts
<1>11. CASE RemoveDirectory
  <2>1. torn' \in [Docs -> SUBSET (Dirs \cup {Nothing})]
    BY <1>0, <1>11 DEF RemoveDirectory, Papers
  <2> QED
    BY <1>0, <1>11, <2>1 DEF RemoveDirectory, Papers
<1>12. CASE Forget
  BY <1>0, <1>12 DEF Forget, Papers, ghosts
<1>13. CASE Erase
  <2>1. deleting.doc \in Docs
    BY <1>0, <1>13 DEF Erase, Papers, RInv, Leaves
  <2> QED
    BY <1>0, <1>13, <2>1, Distinct DEF Erase, Papers, NotDeleting
<1>14. CASE Crash
  <2>1. pending' \subseteq Jobs /\ count' \in [{"jobs", "faults", "crashes", "hides", "drops"} -> Nat]
    BY <1>0, <1>14, CrashMoves
  <2>2. missed' \subseteq Docs /\ torn' \in [Docs -> SUBSET (Dirs \cup {Nothing})]
    BY <1>0, <1>14, CutMoves, TearMoves DEF Crash
  <2> QED
    BY <1>0, <1>14, <2>1, <2>2 DEF Crash, Papers, NotDeleting, files
<1>15. CASE UNCHANGED vars
  BY <1>0, <1>15 DEF vars, Papers, files, requests, ghosts
<1> QED
  BY <1>1, <1>2, <1>3, <1>4, <1>5, <1>6, <1>7, <1>8, <1>9, <1>10, <1>11, <1>12, <1>13,
     <1>14, <1>15 DEF Next, Requests, Works, Ends

\* A job writes to a directory whose category exists.
LEMMA WritesRegistered ==
    ASSUME RInv, pc \in Stepping
    PROVE  Into \in Registered
<1>0. Indexes /\ Papers /\ Place /\ Plan /\ Categories
  BY DEF RInv
<1>1. /\ job \in Jobs /\ job \in pending /\ ~Idle /\ group \in Dirs
      /\ todo[group] \in SUBSET Docs /\ todo[group] # {}
  BY <1>0, Writes DEF From, Moving
<1>2. job.kind \in {"reindex_source", "transfer", "ingested"}
  BY <1>0, <1>1, JobFields DEF Place, Stepping
<1>3. CASE job.kind = "transfer"
  BY <1>0, <1>1, <1>3 DEF Categories, Into
<1>4. CASE job.kind = "ingested"
  BY <1>0, <1>1, <1>4 DEF Categories, Plan, Into
<1>5. CASE job.kind = "reindex_source"
  <2>1. PICK d \in Docs : d \in todo[group]
    BY <1>1
  <2>2. member[d] = group
    BY <1>0, <1>1, <1>5, <2>1 DEF Plan
  <2> QED
    BY <1>0, <1>5, <2>1, <2>2 DEF Categories, Into
<1> QED
  BY <1>2, <1>3, <1>4, <1>5

\* Where the job is.
LEMMA NextPlace ==
    ASSUME Incidents = {}, RInv, [Next]_vars
    PROVE  Place'
<1>0. Indexes /\ Papers /\ Place /\ Plan /\ Categories
  BY DEF RInv
<1>g. NoGroups \in [Dirs -> SUBSET Docs]
  BY NoGroupsType
<1>1. CASE Requests
  <2>1. PICK j : Queues(j)
    BY <1>0, <1>1, RequestMoves
  <2> QED
    BY <1>0, <2>1, QueuesMoves DEF Place, Into, Idle
<1>2. CASE \E d \in Docs, t \in Dirs : Hide(d, t)
  BY <1>0, <1>2 DEF Hide, Place, Into, Idle, work
<1>3. CASE \E d \in Docs : DeleteDoc(d)
  BY <1>0, <1>3 DEF DeleteDoc, Place, Into, Idle, work
<1>4. CASE \E j \in pending : Prepare(j) \/ Ingest(j) \/ Abandon(j)
  BY <1>0, <1>4 DEF Prepare, Ingest, Abandon, Becomes, Place, Into, Idle, work, indexes
<1>6. CASE \E j \in pending : Start(j)
  <2> PICK j \in pending : Start(j)
    BY <1>6
  <2>1. j \in Jobs
    BY <1>0 DEF Papers
  <2>2. todo' \in [Dirs -> SUBSET Docs]
    BY <2>1, <1>g, GroupsType, JobFields, Distinct DEF Start, TargetOf
  <2> QED
    BY <1>0, <2>1, <2>2 DEF Start, Place, Stepping, Leaving, Idle, indexes
<1>7. CASE Build
  BY <1>0, <1>7 DEF Build, Go, Place, Stepping, Leaving, Idle
<1>8. CASE NextGroup
  BY <1>0, <1>8 DEF NextGroup, Place, Stepping, Leaving, Idle, indexes
<1>9. CASE Incremental
  <2>1. Into \in Dirs /\ group \in Dirs
    BY <1>0, <1>9, Writes DEF Incremental, Stepping, From
  <2> QED
    BY <1>0, <1>9, <2>1 DEF Incremental, AfterIndex, Go, Place, Stepping, Leaving, Idle, Into
<1>10. CASE FirstBuild
  BY <1>0, <1>10 DEF FirstBuild, Go, Place, Stepping, Leaving, Idle, Into
<1>11. CASE WriteManifest
  <2>1. Into \in Dirs /\ group \in Dirs
    BY <1>0, <1>11, Writes DEF WriteManifest, Stepping, From
  <2> QED
    BY <1>0, <1>11, <2>1 DEF WriteManifest, AfterIndex, Go, Place, Stepping, Leaving, Idle, Into
<1>12. CASE CarryEdits \/ DropCarried
  BY <1>0, <1>12 DEF CarryEdits, DropCarried, Go, Place, Stepping, Leaving, Idle, Into, indexes
<1>13. CASE RemoveRows
  BY <1>0, <1>13 DEF RemoveRows, Place, Stepping, Leaving, Idle, Into
<1>14. CASE Ends
  <2>1. listed' \subseteq tables
    BY <1>0, <1>14, EndMoves DEF Place
  <2> QED
    BY <1>0, <1>14, <1>g, <2>1, EndMoves DEF Done, End, Place, Stepping, Leaving, Idle
<1>15. CASE \E k \in Keys : CreateCategory(k) \/ DeleteCategory(k)
  BY <1>0, <1>15 DEF CreateCategory, DeleteCategory, Place, Into, Idle, work, indexes
<1>16. CASE RemoveDirectory
  <2>1. pc \in Leaving \cup {"manifest"} => Into # dropping
    <3>1. dropping \notin Registered
      BY <1>0, <1>16, Distinct DEF Categories, Registered, Papers, RemoveDirectory
    <3> QED
      BY <3>1, WritesRegistered DEF Stepping, Leaving
  <2> QED
    BY <1>0, <1>16, <2>1 DEF RemoveDirectory, Place, Stepping, Leaving, Into, Idle, work
<1>17. CASE Forget \/ Erase
  BY <1>0, <1>17 DEF Forget, Erase, Place, Into, Idle, work, indexes
<1>18. CASE Crash
  BY <1>0, <1>g, <1>18, CrashMoves DEF Crash, Place, Stepping, Leaving, Idle, indexes
<1>19. CASE UNCHANGED vars
  BY <1>0, <1>19 DEF vars, Place, Into, Idle, work, indexes
<1> QED
  BY <1>1, <1>2, <1>3, <1>4, <1>6, <1>7, <1>8, <1>9, <1>10, <1>11, <1>12, <1>13,
     <1>14, <1>15, <1>16, <1>17, <1>18, <1>19 DEF Next, Requests, Ends

-----------------------------------------------------------------------------
(* Categories, and what is known of a document.                            *)

\* What a request queues.
LEMMA RequestJobs ==
    ASSUME Incidents = {}, RInv, Requests
    PROVE  /\ Known \subseteq Known' /\ gone' \subseteq gone /\ gone' \cap Known' = {}
           /\ \E j : /\ Queues(j) /\ j.to \in Registered /\ j.docs \subseteq Known'
                     /\ j.kind = "upload" /\ ~j.forced => j.docs \cap Known = {}
<1>0. Indexes /\ Papers /\ Categories /\ OnlyKnown
  BY DEF RInv
<1>g. General \in Registered /\ General # Nothing /\ Registered \subseteq Dirs /\ Nothing \notin Dirs
  BY <1>0, Distinct DEF Registered, Indexes
<1>1. CASE \E d \in Docs, t \in Dirs : Upload(d, t)
  <2> PICK d \in Docs, t \in Dirs : Upload(d, t)
    BY <1>1
  <2> DEFINE j == Job("upload", {d}, t, d \in Known)
  <2>1. /\ Queues(j) /\ option' = [option EXCEPT ![d] = t] /\ gone' = gone \ {d} /\ t \in Registered
    BY <1>0, UploadQueues
  <2>2. Known' = Known \cup {d}
    BY <1>0, <1>g, <2>1 DEF Known, Papers
  <2>3. j.to = t /\ j.docs = {d} /\ (~j.forced => d \notin Known)
    BY DEF Job
  <2> HIDE DEF j
  <2> QED
    BY <1>0, <2>1, <2>2, <2>3 DEF OnlyKnown
<1>2. CASE \E d \in Docs : Reprocess(d)
  <2> PICK d \in Docs : Reprocess(d)
    BY <1>2
  <2> DEFINE j == Job("upload", {d}, option[d], TRUE)
  <2>1. Queues(j) /\ UNCHANGED <<option, gone>> /\ d \in Known
    BY <1>0, ReprocessQueues
  <2>2. j.to = option[d] /\ j.docs = {d} /\ j.forced
    BY DEF Job
  <2>3. option[d] \in Registered
    BY <1>0 DEF Reprocess, Allowed, Categories
  <2> HIDE DEF j
  <2> QED
    BY <1>0, <2>1, <2>2, <2>3 DEF OnlyKnown, Known
<1>3. CASE \E d \in Docs : ReindexSource(d)
  <2> PICK d \in Docs : ReindexSource(d)
    BY <1>3
  <2> DEFINE j == Job("reindex_source", {d}, General, FALSE)
  <2>1. Queues(j) /\ UNCHANGED <<option, gone>> /\ d \in md
    BY <1>0, ReindexSourceQueues
  <2>2. j.to = General /\ j.docs = {d} /\ j.kind = "reindex_source"
    BY DEF Job
  <2> HIDE DEF j
  <2> QED
    BY <1>0, <1>g, <2>1, <2>2 DEF OnlyKnown, Known
<1>4. CASE Reingest
  <2> DEFINE j == Job("upload", Known, General, TRUE)
  <2>1. /\ Queues(j) /\ option' = [d \in Docs |-> IF d \in Known THEN General ELSE Nothing]
        /\ UNCHANGED gone
    BY <1>0, <1>4, ReingestQueues
  <2>2. Known' = Known
    BY <1>g, <2>1 DEF Known
  <2>3. j.to = General /\ j.docs = Known /\ j.forced
    BY DEF Job
  <2> HIDE DEF j
  <2> QED
    BY <1>0, <1>g, <2>1, <2>2, <2>3 DEF OnlyKnown
<1>5. CASE Reindex
  <2> DEFINE j == Job("reindex", {}, General, FALSE)
  <2>1. Queues(j) /\ UNCHANGED <<option, gone>>
    BY <1>0, <1>5, ReindexQueues
  <2>2. j.to = General /\ j.docs = {} /\ j.kind = "reindex"
    BY DEF Job
  <2> HIDE DEF j
  <2> QED
    BY <1>0, <1>g, <2>1, <2>2 DEF OnlyKnown, Known
<1>6. CASE \E s \in (SUBSET Docs) \ {{}}, t \in Dirs : Transfer(s, t)
  <2> PICK s \in (SUBSET Docs) \ {{}}, t \in Dirs : Transfer(s, t)
    BY <1>6
  <2> DEFINE j == Job("transfer", s, t, FALSE)
  <2>1. Queues(j) /\ UNCHANGED <<option, gone>> /\ s \subseteq Known /\ t \in Registered
    BY <1>0, TransferQueues
  <2>2. j.to = t /\ j.docs = s /\ j.kind = "transfer"
    BY DEF Job
  <2> HIDE DEF j
  <2> QED
    BY <1>0, <2>1, <2>2 DEF OnlyKnown, Known
<1> QED
  BY <1>1, <1>2, <1>3, <1>4, <1>5, <1>6 DEF Requests

\* The plan of the job.
LEMMA NextPlan ==
    ASSUME Incidents = {}, RInv, [Next]_vars
    PROVE  Plan'
<1>0. Indexes /\ Papers /\ Place /\ Plan /\ Categories /\ Leaves
  BY DEF RInv
<1>1. CASE UNCHANGED <<job, pc, todo, member>>
  BY <1>0, <1>1 DEF Plan, Idle
<1>2. CASE Requests
  <2>1. PICK j : Queues(j)
    BY <1>0, <1>2, RequestMoves
  <2> QED
    BY <1>0, <1>1, <2>1, QueuesMoves
<1>3. CASE \E j \in pending : Start(j)
  <2> PICK j \in pending : Start(j)
    BY <1>3
  <2>1. j \in Jobs /\ j.to \in Registered
    BY <1>0 DEF Papers, Categories
  <2>2. job' = j /\ member' = member /\ TargetOf(j) = j.to /\ j.to \in Dirs /\ j.docs \subseteq Docs
    BY <2>1, JobFields DEF Start, registry, TargetOf
  <2>3. CASE j.kind = "transfer"
    <3>1. todo' = GroupsOf(j)
      BY <2>3 DEF Start
    <3>3. /\ GroupsOf(j)[j.to] = {}
          /\ \A k \in Dirs : \A x \in GroupsOf(j)[k] : x \in j.docs /\ member[x] = k
      BY <2>2, <2>3 DEF GroupsOf
    <3>4. /\ todo'[j.to] = {}
          /\ \A k \in Dirs : todo'[k] \subseteq j.docs /\ \A d \in todo'[k] : member[d] = k
      BY <2>2, <3>1, <3>3
    <3> QED
      BY <2>2, <2>3, <3>4 DEF Plan
  <2>4. CASE j.kind = "ingested"
    <3>1. todo' = [NoGroups EXCEPT ![j.to] = j.docs]
      BY <2>2, <2>4 DEF Start
    <3>2. \A d \in j.docs : ~Strays(d, j.to, j.forced)
      BY <2>2, <2>4 DEF Start, Allowed
    <3>3. \A d \in j.docs : member[d] \in {j.to, General}
      BY <3>2 DEF Strays
    <3> QED
      BY <2>2, <2>4, <3>1, <3>3 DEF Plan, NoGroups
  <2>5. CASE j.kind = "reindex_source"
    <3>1. todo' = GroupsOf(j)
      BY <2>5 DEF Start
    <3>2. \A k \in Dirs : GroupsOf(j)[k] = {x \in j.docs : member[x] = k}
      BY <2>5 DEF GroupsOf
    <3> QED
      BY <2>1, <2>2, <2>5, <3>1, <3>2 DEF Plan
  <2>6. CASE j.kind = "reindex"
    BY <2>2, <2>6 DEF Start, Plan, NoGroups
  <2> QED
    BY <2>1, <2>3, <2>4, <2>5, <2>6, JobFields DEF Start
<1>4. CASE Works
  <2>1. UNCHANGED <<job, member>> /\ ~Idle
    BY <1>0, <1>4, WorkMoves DEF registry
  <2>2. todo' = todo \/ todo' = [todo EXCEPT ![group] = {}]
    BY <1>4 DEF Works, Build, NextGroup, Incremental, FirstBuild, WriteManifest, CarryEdits,
                DropCarried, RemoveRows, AfterIndex, Go
  <2>3. CASE todo' = todo
    BY <1>0, <2>1, <2>3 DEF Plan
  <2>4. CASE todo' = [todo EXCEPT ![group] = {}]
    <3>1. \A k \in Dirs : todo'[k] = {} \/ todo'[k] = todo[k]
      BY <1>0, <2>4 DEF Place
    <3>2. job \in Jobs /\ job.to \in Dirs
      BY <1>0, <2>1, JobFields DEF Place, Papers
    <3> QED
      BY <1>0, <2>1, <3>1, <3>2 DEF Plan
  <2> QED
    BY <2>2, <2>3, <2>4
<1>5. CASE Ends
  BY <1>5, EndMoves, <1>0 DEF Done, End, Plan, Idle
<1>6. CASE Forget
  <2>1. /\ UNCHANGED <<job, pc, todo>> /\ deleting.doc # Nothing
        /\ member' = [member EXCEPT ![deleting.doc] = General]
    BY <1>0, <1>6 DEF Forget, work, Leaves
  <2>2. ~Idle => job \in pending /\ deleting.doc \notin job.docs
    BY <1>0, <2>1 DEF Leaves, Place
  <2>3. ~Idle => \A d \in job.docs : d \in Docs /\ member'[d] = member[d]
    BY <1>0, <2>1, <2>2, JobFields DEF Indexes, Papers
  <2> QED
    BY <1>0, <2>1, <2>3 DEF Plan, Idle
<1>7. CASE Crash
  BY <1>7 DEF Crash, End, Plan, Idle
<1>8. CASE \/ \E d \in Docs : DeleteDoc(d) \/ \E t \in Dirs : Hide(d, t)
           \/ \E j \in pending : Prepare(j) \/ Ingest(j) \/ Abandon(j)
           \/ \E k \in Keys : CreateCategory(k) \/ DeleteCategory(k)
           \/ RemoveDirectory \/ Erase \/ UNCHANGED vars
  BY <1>1, <1>8 DEF DeleteDoc, Hide, Prepare, Ingest, Abandon, CreateCategory, DeleteCategory,
                    RemoveDirectory, Erase, vars, work, registry
<1> QED
  BY <1>2, <1>3, <1>4, <1>5, <1>6, <1>7, <1>8 DEF Next, Requests, Works, Ends

\* The categories that documents are in, or are to go to, exist.
LEMMA NextCategories ==
    ASSUME Incidents = {}, RInv, [Next]_vars
    PROVE  Categories'
<1>0. Indexes /\ Papers /\ Place /\ Plan /\ Categories
  BY DEF RInv
<1>g. General \in Registered /\ General \in Dirs
  BY Distinct DEF Registered
<1>1. CASE /\ UNCHANGED <<cats, dropping>>
           /\ \A d \in Docs : member'[d] = member[d] \/ member'[d] \in Registered
           /\ \A j \in pending' : \E i \in pending : j.to = i.to
  BY <1>0, <1>1 DEF Categories, Registered
<1>2. CASE Requests
  <2>1. PICK j : Queues(j) /\ j.to \in Registered
    BY <1>2, RequestJobs
  <2> QED
    BY <1>0, <2>1, QueuesMoves DEF Categories, Registered
<1>3. CASE \E j \in pending : Prepare(j) \/ Ingest(j)
  <2> PICK j \in pending : Prepare(j) \/ Ingest(j)
    BY <1>3
  <2>1. PICK k \in {"prepared", "ingested"} :
            j.kind \in {"upload", "prepared"} /\ (k = "prepared" => j.forced) /\ Becomes(j, k)
    BY DEF Prepare, Ingest
  <2>2. \A l \in pending' : \E i \in pending : l.to = i.to
    BY <1>0, <2>1, BecomesMoves
  <2> QED
    BY <1>1, <2>2 DEF Prepare, Ingest, registry, requests
<1>4. CASE SetMembership
  <2>1. job \in pending /\ job.to \in Registered /\ TargetOf(job) \in Registered
    BY <1>0, <1>4, <1>g DEF SetMembership, Place, Idle, Categories, TargetOf
  <2>2. \A d \in Docs : member'[d] = member[d] \/ member'[d] \in Registered
    BY <1>4, <2>1 DEF SetMembership
  <2> QED
    BY <1>1, <1>4, <2>2 DEF SetMembership, Done, requests
<1>5. CASE Prune \/ Fail \/ Refused
  BY <1>1, <1>5 DEF Prune, Fail, Refused, Done, requests, registry
<1>6. CASE Works
  BY <1>0, <1>1, <1>6, WorkMoves DEF registry, requests
<1>7. CASE \E k \in Keys : CreateCategory(k)
  BY <1>0, <1>7 DEF CreateCategory, Allowed, Categories, Registered, requests
<1>8. CASE \E k \in Keys : DeleteCategory(k)
  BY <1>0, <1>8, Distinct DEF DeleteCategory, Allowed, Waiting, Categories, Registered
<1>9. CASE RemoveDirectory
  BY <1>0, <1>9 DEF RemoveDirectory, Categories, Registered, registry
<1>10. CASE Forget
  BY <1>0, <1>1, <1>10, <1>g DEF Forget, Indexes
<1>11. CASE Crash
  <2>1. pending' = {Recovered(j) : j \in pending}
    BY <1>0, <1>11, CrashMoves
  <2>2. \A j \in pending : Recovered(j).to = j.to
    BY <1>0, RecoveredJobs DEF Papers
  <2> QED
    BY <1>0, <1>11, <2>1, <2>2 DEF Crash, Categories, Registered, registry
<1>12. CASE \/ \E d \in Docs : DeleteDoc(d) \/ \E t \in Dirs : Hide(d, t)
            \/ \E j \in pending : Abandon(j) \/ Start(j)
            \/ Erase \/ UNCHANGED vars
  BY <1>1, <1>12 DEF DeleteDoc, Hide, Abandon, Start, Erase, vars, requests, registry
<1> QED
  BY <1>2, <1>3, <1>4, <1>5, <1>6, <1>7, <1>8, <1>9, <1>10, <1>11, <1>12 DEF Next, Requests, Works

\* A job adds to an index what has Markdown, and a full build aside its own
\* documents.
LEMMA JobRows ==
    ASSUME RInv, Works \/ Ends
    PROVE  /\ \A k \in Dirs : rows'[k] \subseteq rows[k] \cup md
           /\ job.kind # "reindex" => \A k \in Dirs : rows'[k] \subseteq rows[k] \cup job.docs
<1>0. Indexes /\ Papers /\ Place /\ Plan
  BY DEF RInv
<1>w. pc \in Stepping => /\ Into \in Dirs /\ From \in Dirs /\ Moving \in SUBSET Docs
                         /\ Moving \subseteq job.docs
  BY <1>0, Writes DEF Plan, From, Moving
<1>1. CASE Build
  BY <1>0, <1>1, Distinct DEF Build, Indexes, Place, Idle
<1>2. CASE Prune
  BY <1>0, <1>2, Distinct, Leave DEF Prune
<1>3. CASE Incremental
  <2>1. pc \in Stepping /\ Replace(Moving, {}) /\ {} \in SUBSET Docs
    BY <1>3 DEF Incremental, Stepping
  <2> QED
    BY <1>0, <1>w, <2>1, ReplaceMoves
<1>4. CASE FirstBuild
  BY <1>0, <1>w, <1>4 DEF FirstBuild, Stepping, Indexes
<1>5. CASE RemoveRows
  BY <1>0, <1>w, <1>5, Leave DEF RemoveRows, Stepping
<1>6. CASE Fail
  BY <1>0, <1>w, <1>6, CutMoves DEF Fail
<1>7. CASE UNCHANGED rows
  BY <1>7
<1> QED
  BY <1>1, <1>2, <1>3, <1>4, <1>5, <1>6, <1>7
  DEF Works, Ends, NextGroup, WriteManifest, CarryEdits, DropCarried, SetMembership, Refused, indexes

\* There is nothing of a document that is unknown.
LEMMA NextOnlyKnown ==
    ASSUME Incidents = {}, RInv, [Next]_vars
    PROVE  OnlyKnown'
<1>0. Indexes /\ Papers /\ Place /\ Plan /\ OnlyKnown /\ Leaves
  BY DEF RInv
<1>1. CASE Requests
  <2>1. PICK j : Queues(j) /\ j.docs \subseteq Known'
    BY <1>1, RequestJobs
  <2>2. Known \subseteq Known' /\ gone' \subseteq gone /\ gone' \cap Known' = {}
    BY <1>1, RequestJobs
  <2>3. /\ UNCHANGED <<member, rows, md, settled, hidden>>
        /\ pending' = pending \cup {j}
    BY <1>0, <2>1, QueuesMoves
  <2> QED
    BY <1>0, <2>1, <2>2, <2>3 DEF OnlyKnown
<1>2. CASE \E d \in Docs, t \in Dirs : Hide(d, t)
  BY <1>0, <1>2 DEF Hide, OnlyKnown, Known, registry
<1>3. CASE \E d \in Docs : DeleteDoc(d)
  BY <1>0, <1>3 DEF DeleteDoc, OnlyKnown, Known, registry, files
<1>4. CASE \E j \in pending : Prepare(j) \/ Ingest(j)
  <2> PICK j \in pending : Prepare(j) \/ Ingest(j)
    BY <1>4
  <2>1. PICK k \in {"prepared", "ingested"} :
            j.kind \in {"upload", "prepared"} /\ (k = "prepared" => j.forced) /\ Becomes(j, k)
    BY DEF Prepare, Ingest
  <2>2. \A l \in pending' : \E i \in pending : l.docs = i.docs
    BY <1>0, <2>1, BecomesMoves
  <2>3. \A x \in Dirs : rows'[x] \subseteq rows[x]
    BY <1>0, Distinct DEF Prepare, Ingest, indexes, Indexes
  <2>4. /\ UNCHANGED <<option, gone, member>> /\ hidden' \subseteq hidden
        /\ md' \subseteq md \cup j.docs /\ settled' \subseteq settled /\ settled' \subseteq md'
    BY <1>0 DEF Prepare, Ingest, registry, OnlyKnown
  <2> QED
    BY <1>0, <2>2, <2>3, <2>4 DEF OnlyKnown, Known
<1>5. CASE \E j \in pending : Abandon(j) \/ Start(j)
  BY <1>0, <1>5 DEF Abandon, Start, OnlyKnown, Known, registry, indexes, files, ghosts
<1>6. CASE Works
  <2>1. UNCHANGED <<member, md, option, pending, settled, hidden, gone>>
    BY <1>0, <1>6, WorkMoves DEF registry
  <2>2. \A k \in Dirs : rows'[k] \subseteq rows[k] \cup md
    BY <1>6, JobRows
  <2> QED
    BY <1>0, <2>1, <2>2 DEF OnlyKnown, Known
<1>7. CASE Ends
  <2>1. UNCHANGED <<md, option, hidden, gone>> /\ pending' \subseteq pending /\ ~Idle
    BY <1>0, <1>7, EndMoves DEF Done
  <2>2. \A k \in Dirs : rows'[k] \subseteq rows[k] \cup md
    BY <1>7, JobRows
  <2>3. settled' \subseteq md'
    BY <1>0, <1>7, <2>1 DEF Ends, Prune, SetMembership, Fail, Refused, OnlyKnown, ghosts
  <2>4. \A d \in gone : d \notin job.docs
    BY <1>0, <2>1 DEF OnlyKnown, Place
  <2>5. \A d \in gone : member'[d] = member[d]
    BY <1>0, <1>7, <2>4 DEF Ends, Prune, SetMembership, Fail, Refused, registry, Papers
  <2> QED
    BY <1>0, <2>1, <2>2, <2>3, <2>5 DEF OnlyKnown, Known
<1>8. CASE \E k \in Keys : CreateCategory(k) \/ DeleteCategory(k)
  BY <1>0, <1>8 DEF CreateCategory, DeleteCategory, OnlyKnown, Known, indexes, files, ghosts
<1>9. CASE RemoveDirectory
  <2>1. \A k \in Dirs : rows'[k] \subseteq rows[k]
    BY <1>0, <1>9 DEF RemoveDirectory, Indexes
  <2> QED
    BY <1>0, <1>9, <2>1 DEF RemoveDirectory, OnlyKnown, Known, registry
<1>10. CASE Forget
  BY <1>0, <1>10 DEF Forget, OnlyKnown, Known, Leaves, Indexes, Papers, indexes, ghosts
<1>11. CASE Erase
  <2> DEFINE d == deleting.doc
  <2>1. d \in Known \ settled /\ d \in Docs /\ member[d] = General
    BY <1>0, <1>11 DEF Erase, Leaves, Known
  <2>2. Known' = Known \ {d}
    BY <1>0, <1>11, <2>1, Distinct DEF Erase, Known, Papers
  <2>3. /\ \A k \in Dirs : d \notin rows[k]
        /\ \A j \in pending : d \notin j.docs
    BY <1>0, <1>11, <2>1, Distinct DEF Leaves
  <2>4. /\ md' = md \ {d} /\ hidden' = hidden \ {d} /\ gone' = gone \cup {d}
        /\ UNCHANGED <<settled, rows, pending, member>>
    BY <1>11 DEF Erase, registry, indexes
  <2> HIDE DEF d
  <2> QED
    BY <1>0, <2>1, <2>2, <2>3, <2>4 DEF OnlyKnown
<1>12. CASE Crash
  <2>1. pending' = {Recovered(j) : j \in pending}
    BY <1>0, <1>12, CrashMoves
  <2>2. \A j \in pending : Recovered(j).docs = j.docs
    BY <1>0, RecoveredJobs DEF Papers
  <2>3. \A k \in Dirs : rows'[k] \subseteq rows[k] \cup md
    BY <1>0, <1>12, CutMoves DEF Crash
  <2> QED
    BY <1>0, <1>12, <2>1, <2>2, <2>3 DEF Crash, OnlyKnown, Known, registry, files
<1>13. CASE UNCHANGED vars
  BY <1>0, <1>13 DEF vars, OnlyKnown, Known, registry, indexes, files, ghosts
<1> QED
  BY <1>1, <1>2, <1>3, <1>4, <1>5, <1>6, <1>7, <1>8, <1>9, <1>10, <1>11, <1>12, <1>13
  DEF Next, Requests, Works, Ends

\* A document that is being deleted.
LEMMA NextLeaves ==
    ASSUME Incidents = {}, RInv, [Next]_vars
    PROVE  Leaves'
<1>0. Indexes /\ Papers /\ Place /\ Plan /\ OnlyKnown /\ Leaves
  BY DEF RInv
<1>1. CASE Requests
  <2>1. PICK j : Queues(j)
    BY <1>0, <1>1, RequestMoves
  <2>2. Known \subseteq Known'
    BY <1>1, RequestJobs
  <2>3. deleting.doc \notin j.docs
    BY <2>1 DEF Queues, Accept, Allowed
  <2>4. /\ UNCHANGED <<member, rows, job, pc, deleting, settled>> /\ pending' = pending \cup {j}
    BY <1>0, <2>1, QueuesMoves
  <2> QED
    BY <1>0, <2>2, <2>3, <2>4 DEF Leaves, Idle
<1>2. CASE \E d \in Docs, t \in Dirs : Hide(d, t)
  BY <1>0, <1>2 DEF Hide, Leaves, Known, Idle, registry, requests, work
<1>3. CASE \E d \in Docs : DeleteDoc(d)
  BY <1>0, <1>3, Distinct DEF DeleteDoc, Leaves, Known, Idle, registry, work, files, MutationAllowed,
     Allowed, Concerned, Waiting, Indexes, Papers
<1>4. CASE \E j \in pending : Prepare(j) \/ Ingest(j)
  <2> PICK j \in pending : Prepare(j) \/ Ingest(j)
    BY <1>4
  <2>1. PICK k \in {"prepared", "ingested"} :
            j.kind \in {"upload", "prepared"} /\ (k = "prepared" => j.forced) /\ Becomes(j, k)
    BY DEF Prepare, Ingest
  <2>2. \A l \in pending' : \E i \in pending : l.docs = i.docs
    BY <1>0, <2>1, BecomesMoves
  <2>3. \A x \in Dirs : rows'[x] \subseteq rows[x]
    BY <1>0, Distinct DEF Prepare, Ingest, indexes, Indexes
  <2>4. UNCHANGED <<option, member, deleting, job, pc>> /\ settled' \subseteq settled
    BY DEF Prepare, Ingest, registry, requests, work
  <2> QED
    BY <1>0, <2>2, <2>3, <2>4 DEF Leaves, Known, Idle
<1>5. CASE \E j \in pending : Abandon(j)
  BY <1>0, <1>5 DEF Abandon, Leaves, Known, Idle, registry, indexes, files, requests, work, ghosts
<1>6. CASE \E j \in pending : Start(j)
  BY <1>0, <1>6 DEF Start, Allowed, Leaves, requests
<1>7. CASE Works \/ Ends
  <2>1. /\ UNCHANGED <<option, deleting>> /\ pending' \subseteq pending /\ ~Idle
        /\ pc' = "idle" \/ job' = job
    BY <1>0, <1>7, WorkMoves, EndMoves DEF Done, End, requests
  <2>2. CASE deleting.doc = Nothing
    BY <1>0, <2>1, <2>2 DEF Leaves
  <2>3. CASE deleting.doc # Nothing
    <3>1. job.kind = "transfer" /\ deleting.doc \notin job.docs
      BY <1>0, <2>1, <2>3 DEF Leaves, Place
    <3>2. \A k \in Dirs : deleting.doc \notin rows'[k]
      BY <1>0, <1>7, <2>3, <3>1, JobRows DEF Leaves
    <3>3. settled' = settled
      BY <1>7, <3>1 DEF Works, Build, NextGroup, Incremental, FirstBuild, WriteManifest, CarryEdits,
         DropCarried, RemoveRows, Ends, Prune, SetMembership, Fail, Refused, ghosts
    <3>4. member'[deleting.doc] = member[deleting.doc]
      <4>1. deleting.doc \in Docs
        BY <1>0, <2>3 DEF Papers
      <4>2. CASE SetMembership
        BY <3>1, <4>1, <4>2 DEF SetMembership
      <4>3. CASE Works
        BY <1>0, <4>3, WorkMoves DEF registry
      <4> QED
        BY <1>7, <4>2, <4>3 DEF Ends, Prune, Fail, Refused, registry
    <3> QED
      BY <1>0, <2>1, <2>3, <3>1, <3>2, <3>3, <3>4 DEF Leaves, Known, Idle
  <2> QED
    BY <2>2, <2>3
<1>8. CASE \E k \in Keys : CreateCategory(k) \/ DeleteCategory(k)
  BY <1>0, <1>8 DEF CreateCategory, DeleteCategory, Leaves, Known, Idle, indexes, files, ghosts,
     requests, work
<1>9. CASE RemoveDirectory
  <2>1. \A k \in Dirs : rows'[k] \subseteq rows[k]
    BY <1>0, <1>9 DEF RemoveDirectory, Indexes
  <2> QED
    BY <1>0, <1>9, <2>1 DEF RemoveDirectory, Leaves, Known, Idle, registry, work
<1>10. CASE Forget
  <2>1. deleting.doc \in Docs /\ deleting.doc # Nothing
    BY <1>0, <1>10 DEF Forget, Leaves, Known
  <2>2. /\ UNCHANGED <<option, settled, rows, pending, job, pc>>
        /\ deleting'.doc = deleting.doc /\ deleting'.step = "erase"
        /\ member'[deleting.doc] = General
    BY <1>0, <1>10, <2>1 DEF Forget, Indexes, Papers, indexes, ghosts, work
  <2> QED
    BY <1>0, <2>1, <2>2 DEF Leaves, Known, Idle
<1>11. CASE Erase \/ Crash
  BY <1>11, Distinct DEF Erase, Crash, Leaves, NotDeleting
<1>12. CASE UNCHANGED vars
  BY <1>0, <1>12 DEF vars, Leaves, Known, Idle, registry, indexes, files, requests, work, ghosts
<1> QED
  BY <1>1, <1>2, <1>3, <1>4, <1>5, <1>6, <1>7, <1>8, <1>9, <1>10, <1>11, <1>12
  DEF Next, Requests, Works, Ends

\* No document has two uploads.
LEMMA NextApart ==
    ASSUME RInv, [Next]_vars
    PROVE  Apart'
<1>0. Papers /\ Place /\ Apart
  BY DEF RInv
<1>i. Indexes
  BY DEF RInv
<1>1. CASE Requests
  <2>1. PICK j : Queues(j)
    BY <1>0, <1>i, <1>1, RequestMoves
  <2>2. \A w \in pending : IsUpload(w) /\ IsUpload(j) => w.docs \cap j.docs = {}
    BY <2>1 DEF Queues, Accept, Waiting
  <2>3. pending' = pending \cup {j}
    BY <1>0, <2>1, QueuesMoves
  <2> QED
    BY <1>0, <2>2, <2>3 DEF Apart, IsUpload
<1>2. CASE \E j \in pending : Prepare(j) \/ Ingest(j)
  <2> PICK j \in pending : Prepare(j) \/ Ingest(j)
    BY <1>2
  <2>1. PICK k \in {"prepared", "ingested"} :
            j.kind \in {"upload", "prepared"} /\ (k = "prepared" => j.forced) /\ Becomes(j, k)
    BY DEF Prepare, Ingest
  <2>2. PICK i \in Jobs : pending' = (pending \ {j}) \cup {i} /\ i.docs = j.docs
    BY <1>0, <2>1, BecomesMoves
  <2> QED
    BY <1>0, <2>1, <2>2 DEF Apart, IsUpload
<1>3. CASE pending' \subseteq pending
  BY <1>0, <1>3 DEF Apart, IsUpload
<1>4. CASE Crash
  <2>1. pending' = {Recovered(j) : j \in pending}
    BY <1>0, <1>4, CrashMoves
  <2>2. \A j \in pending : /\ Recovered(j).docs = j.docs
                           /\ Recovered(j).kind = IF j.kind = "prepared" THEN "upload" ELSE j.kind
    BY <1>0, RecoveredJobs DEF Papers
  <2> QED
    BY <1>0, <2>1, <2>2 DEF Apart, IsUpload
<1>5. CASE Works
  BY <1>0, <1>3, <1>5, WorkMoves
<1>6. CASE Ends
  BY <1>0, <1>3, <1>6, EndMoves DEF Done
<1> QED
  BY <1>1, <1>2, <1>3, <1>4, <1>5, <1>6
  DEF Next, Requests, Works, Ends, Hide, DeleteDoc, Abandon, Start, CreateCategory, DeleteCategory,
      RemoveDirectory, Forget, Erase, vars

\* No upload indexes a document that was edited after it was extracted.
LEMMA NextFresh ==
    ASSUME Incidents = {}, RInv, [Next]_vars
    PROVE  Fresh'
<1>0. Indexes /\ Papers /\ Place /\ OnlyKnown /\ Fresh
  BY DEF RInv
<1>1. CASE Requests
  <2>1. PICK j : Queues(j) /\ (j.kind = "upload" /\ ~j.forced => j.docs \cap Known = {})
    BY <1>1, RequestJobs
  <2>2. pending' = pending \cup {j} /\ hidden' = hidden /\ ~(j.kind \in {"prepared", "ingested"})
    BY <1>0, <2>1, QueuesMoves
  <2> QED
    BY <1>0, <2>1, <2>2 DEF Fresh, OnlyKnown
<1>2. CASE \E d \in Docs, t \in Dirs : Hide(d, t)
  <2> PICK d \in Docs, t \in Dirs : Hide(d, t)
    BY <1>2
  <2>1. \A j \in pending : d \notin j.docs
    BY DEF Hide, Allowed, Concerned, Waiting
  <2> QED
    BY <1>0, <2>1 DEF Hide, Fresh
<1>3. CASE \E j \in pending : Prepare(j) \/ Ingest(j)
  <2> PICK j \in pending : Prepare(j) \/ Ingest(j)
    BY <1>3
  <2>1. PICK k \in {"prepared", "ingested"} :
            j.kind \in {"upload", "prepared"} /\ (k = "prepared" => j.forced) /\ Becomes(j, k)
    BY DEF Prepare, Ingest
  <2>2. PICK i \in Jobs : pending' = (pending \ {j}) \cup {i} /\ i.docs = j.docs
    BY <1>0, <2>1, BecomesMoves
  <2>3. hidden' \subseteq hidden /\ j.docs \cap hidden' = {}
    BY <1>0 DEF Prepare, Ingest, Fresh
  <2> QED
    BY <1>0, <2>2, <2>3 DEF Fresh
<1>4. CASE pending' \subseteq pending /\ hidden' \subseteq hidden
  BY <1>0, <1>4 DEF Fresh
<1>5. CASE Crash
  <2>1. pending' = {Recovered(j) : j \in pending}
    BY <1>0, <1>5, CrashMoves
  <2>2. \A j \in pending : /\ Recovered(j).docs = j.docs /\ Recovered(j).forced = j.forced
                           /\ Recovered(j).kind = IF j.kind = "prepared" THEN "upload" ELSE j.kind
    BY <1>0, RecoveredJobs DEF Papers
  <2> QED
    BY <1>0, <1>5, <2>1, <2>2 DEF Fresh, Crash
<1>6. CASE Works
  BY <1>0, <1>4, <1>6, WorkMoves
<1>7. CASE Ends
  BY <1>0, <1>4, <1>7, EndMoves DEF Done
<1> QED
  BY <1>1, <1>2, <1>3, <1>4, <1>5, <1>6, <1>7
  DEF Next, Requests, Works, Ends, DeleteDoc, Abandon, Start, CreateCategory, DeleteCategory,
      RemoveDirectory, Forget, Erase, vars, ghosts

\* What is extracted is not settled before it is indexed.
LEMMA NextUnsettled ==
    ASSUME RInv, [Next]_vars
    PROVE  Unsettled'
<1>0. Indexes /\ Papers /\ Place /\ Apart /\ Unsettled
  BY DEF RInv
<1>1. CASE Requests
  <2>1. PICK j : Queues(j)
    BY <1>0, <1>1, RequestMoves
  <2>2. pending' = pending \cup {j} /\ settled' = settled /\ j.kind # "ingested"
    BY <1>0, <2>1, QueuesMoves
  <2> QED
    BY <1>0, <2>2 DEF Unsettled
<1>2. CASE \E j \in pending : Prepare(j) \/ Ingest(j)
  <2> PICK j \in pending : Prepare(j) \/ Ingest(j)
    BY <1>2
  <2>1. PICK k \in {"prepared", "ingested"} :
            j.kind \in {"upload", "prepared"} /\ (k = "prepared" => j.forced) /\ Becomes(j, k)
    BY DEF Prepare, Ingest
  <2>2. PICK i \in Jobs : pending' = (pending \ {j}) \cup {i} /\ i.docs = j.docs
    BY <1>0, <2>1, BecomesMoves
  <2>3. settled' = settled \ j.docs
    BY DEF Prepare, Ingest
  <2> QED
    BY <1>0, <2>2, <2>3 DEF Unsettled
<1>3. CASE pending' \subseteq pending /\ settled' \subseteq settled
  BY <1>0, <1>3 DEF Unsettled
<1>4. CASE Crash
  <2>1. pending' = {Recovered(j) : j \in pending} /\ settled' = settled
    BY <1>0, <1>4, CrashMoves DEF Crash
  <2>2. \A j \in pending : /\ Recovered(j).docs = j.docs
                           /\ Recovered(j).kind = IF j.kind = "prepared" THEN "upload" ELSE j.kind
    BY <1>0, RecoveredJobs DEF Papers
  <2> QED
    BY <1>0, <2>1, <2>2 DEF Unsettled
<1>5. CASE Works
  BY <1>0, <1>3, <1>5, WorkMoves
<1>6. CASE Ends
  <2>1. pending' = pending \ {job} /\ job \in pending
    BY <1>0, <1>6, EndMoves DEF Done, Place
  <2>2. settled' = settled \/ (job.kind = "ingested" /\ settled' \subseteq settled \cup job.docs)
    BY <1>6 DEF Ends, Prune, SetMembership, Fail, Refused, ghosts
  <2> QED
    BY <1>0, <2>1, <2>2 DEF Unsettled, Apart, IsUpload
<1> QED
  BY <1>1, <1>2, <1>3, <1>4, <1>5, <1>6
  DEF Next, Requests, Works, Ends, Hide, DeleteDoc, Abandon, Start, CreateCategory, DeleteCategory,
      RemoveDirectory, Forget, Erase, vars, ghosts

\* The first state.
LEMMA InitSound == Init => RInv
<1> SUFFICES ASSUME Init PROVE RInv
  OBVIOUS
<1>0. General \in Dirs /\ NoGroups \in [Dirs -> SUBSET Docs] /\ \A k \in Dirs : NoGroups[k] = {}
  BY Distinct, NoGroupsType
<1>1. Indexes
  BY <1>0 DEF Init, Indexes
<1>2. Papers
  BY <1>0 DEF Init, Papers, NotDeleting
<1>3. Place /\ Plan
  BY <1>0 DEF Init, Place, Plan, Idle, Stepping, Leaving
<1>4. Categories
  BY <1>0 DEF Init, Categories, Registered
<1>5. OnlyKnown /\ Leaves
  BY <1>0 DEF Init, OnlyKnown, Known, Leaves, NotDeleting
<1>6. Apart /\ Fresh /\ Unsettled
  BY DEF Init, Apart, Fresh, Unsettled
<1> QED
  BY <1>1, <1>2, <1>3, <1>4, <1>5, <1>6 DEF RInv

\* The invariant, when none of the coincidences happens.
LEMMA NextSound ==
    ASSUME Incidents = {}
    PROVE  RInv /\ [Next]_vars => RInv'
  BY NextIndexes, NextPapers, NextPlace, NextPlan, NextCategories, NextOnlyKnown, NextLeaves,
     NextApart, NextFresh, NextUnsettled DEF RInv

\* The shape of the state, what jobs, categories and documents are like, for
\* any number of documents, jobs, failures and crashes.
THEOREM Invariance ==
    ASSUME Incidents = {}
    PROVE  Spec => []RInv
<1>1. Init => RInv
  BY InitSound
<1>2. RInv /\ [Next]_vars => RInv'
  BY NextSound
<1> QED
  BY <1>1, <1>2, PTL DEF Spec

\* The state is well-formed, and what was deleted has left no row and no
\* membership (delete_pdf_document).
THEOREM DeletionFinal ==
    ASSUME Incidents = {}
    PROVE  Spec => []CorpusSound
<1>1. RInv => CorpusSound
  <2> SUFFICES ASSUME RInv PROVE CorpusSound
    OBVIOUS
  <2>1. TypeOK
    BY DEF RInv, Indexes, Papers, Place, TypeOK, Idle
  <2>2. DeletedLeavesNothing
    BY DEF RInv, OnlyKnown, DeletedLeavesNothing
  <2> QED
    BY <2>1, <2>2 DEF CorpusSound
<1> QED
  BY <1>1, Invariance, PTL

-----------------------------------------------------------------------------
(* Where documents are.                                                    *)

\* The steps beside the job: those of requests, of other uploads and of the
\* deletions.
Beside ==
    \/ Requests
    \/ \E d \in Docs : DeleteDoc(d) \/ \E t \in Dirs : Hide(d, t)
    \/ \E j \in pending : Prepare(j) \/ Ingest(j) \/ Abandon(j)
    \/ \E k \in Keys : CreateCategory(k) \/ DeleteCategory(k)
    \/ RemoveDirectory \/ Forget \/ Erase \/ UNCHANGED vars

\* What such a step does to the documents of the job and to those that are settled.
Calm ==
    /\ UNCHANGED <<job, pc, todo, group>>
    /\ listed' \subseteq listed /\ \A k \in Registered : k \in listed => k \in listed'
    /\ settled' \subseteq settled
    /\ \A d \in settled' : /\ member'[d] = member[d]
                           /\ d \in missed <=> d \in missed'
                           /\ torn[d] = {} <=> torn'[d] = {}
    /\ \A k \in Dirs : rows'[k] \subseteq rows[k]
    /\ \A d \in settled' : \A k \in Registered : d \in rows[k] => d \in rows'[k]
    /\ ~Idle => \A d \in job.docs : member'[d] = member[d]
    /\ ~Idle /\ job.kind = "ingested" =>
           \A d \in job.docs : /\ d \in md' => d \in md
                               /\ d \in missed <=> d \in missed'
                               /\ \A k \in Registered : d \in rows[k] => d \in rows'[k]
\* Every step beside the job is calm.
LEMMA BesideMoves ==
    ASSUME RInv, Beside
    PROVE  Calm
<1>0. Indexes /\ Papers /\ Place /\ Categories /\ Leaves /\ Apart
  BY DEF RInv
<1>r. Registered \subseteq Dirs
  BY <1>0, Distinct DEF Registered, Indexes
<1>1. CASE Requests
  <2>1. PICK j : Queues(j)
    BY <1>0, <1>1, RequestMoves
  <2> QED
    BY <1>0, <2>1, QueuesMoves DEF Calm
<1>2. CASE \E d \in Docs, t \in Dirs : Hide(d, t)
  BY <1>0, <1>2 DEF Hide, Calm, registry, work
<1>3. CASE \E d \in Docs : DeleteDoc(d)
  <2> PICK d \in Docs : DeleteDoc(d)
    BY <1>3
  <2>1. rows' = [k \in Dirs |-> rows[k] \ {d}] /\ settled' = settled \ {d}
    BY DEF DeleteDoc
  <2>2. ~Idle => job.kind = "transfer"
    BY DEF DeleteDoc, MutationAllowed
  <2> QED
    BY <1>0, <1>r, <2>1, <2>2 DEF DeleteDoc, Calm, registry, work, files
<1>4. CASE \E j \in pending : Prepare(j)
  <2> PICK j \in pending : Prepare(j)
    BY <1>4
  <2>1. /\ rows' = [rows EXCEPT ![General] = @ \ j.docs] /\ settled' = settled \ j.docs
        /\ UNCHANGED <<member, listed, job, pc, todo, group, torn, missed>> /\ Idle
    BY DEF Prepare, registry, work
  <2>2. \A k \in Dirs : rows'[k] = rows[k] \/ rows'[k] = rows[k] \ j.docs
    BY <1>0, <2>1, Distinct DEF Indexes
  <2> QED
    BY <1>r, <2>1, <2>2 DEF Calm
<1>5. CASE \E j \in pending : Ingest(j)
  <2> PICK j \in pending : Ingest(j)
    BY <1>5
  <2>1. j.kind \in {"upload", "prepared"}
    BY DEF Ingest
  <2>2. /\ md' = md \cup j.docs /\ settled' = settled \ j.docs /\ missed' = missed \ j.docs
        /\ UNCHANGED <<member, listed, rows, torn, job, pc, todo, group>>
    BY DEF Ingest, registry, indexes, work
  <2>3. ~Idle /\ job.kind = "ingested" => job.docs \cap j.docs = {}
    BY <1>0, <2>1 DEF Place, Apart, IsUpload
  <2> QED
    BY <2>2, <2>3 DEF Calm
<1>6. CASE \E j \in pending : Abandon(j)
  BY <1>6 DEF Abandon, Calm, registry, indexes, files, work, ghosts
<1>7. CASE \E k \in Keys : CreateCategory(k) \/ DeleteCategory(k)
  BY <1>7 DEF CreateCategory, DeleteCategory, Calm, indexes, files, work, ghosts
<1>9. CASE RemoveDirectory
  <2>1. dropping \notin Registered
    BY <1>0, <1>9, Distinct DEF Categories, Registered, Papers, RemoveDirectory
  <2>2. \A k \in Dirs : rows'[k] \subseteq rows[k]
    BY <1>0, <1>9 DEF RemoveDirectory, Indexes
  <2>3. \A k \in Registered : rows'[k] = rows[k]
    BY <1>0, <1>r, <1>9, <2>1 DEF RemoveDirectory, Indexes
  <2>4. ASSUME NEW d \in settled PROVE torn[d] = {} <=> torn'[d] = {}
    <3>1. d \in Docs
      BY <1>0 DEF Papers
    <3>2. torn'[d] = {IF t = dropping THEN Nothing ELSE t : t \in torn[d]}
      BY <1>9, <3>1 DEF RemoveDirectory
    <3> QED
      BY <3>2
  <2> QED
    BY <1>9, <2>1, <2>2, <2>3, <2>4 DEF RemoveDirectory, Calm, registry, work
<1>10. CASE Forget
  <2>1. /\ deleting.doc # Nothing
        /\ UNCHANGED <<settled, torn, missed, rows, listed, md, job, pc, todo, group>>
    BY <1>0, <1>10 DEF Forget, work, indexes, ghosts, Leaves
  <2>2. member' = [member EXCEPT ![deleting.doc] = General]
    BY <1>10 DEF Forget
  <2>3. deleting.doc \notin settled /\ \A j \in pending : deleting.doc \notin j.docs
    BY <1>0, <2>1 DEF Leaves
  <2>4. ~Idle => deleting.doc \notin job.docs /\ job.docs \subseteq Docs
    BY <1>0, <2>3, JobFields DEF Place, Papers
  <2>5. settled \subseteq Docs /\ member \in [Docs -> Dirs]
    BY <1>0 DEF Papers, Indexes
  <2> QED
    BY <2>1, <2>2, <2>3, <2>4, <2>5 DEF Calm
<1>11. CASE Erase
  BY <1>11 DEF Erase, Calm, registry, indexes, work
<1>12. CASE UNCHANGED vars
  BY <1>12 DEF vars, Calm, registry, indexes, files, work, ghosts
<1> QED
  BY <1>1, <1>2, <1>3, <1>4, <1>5, <1>6, <1>7, <1>9, <1>10, <1>11, <1>12 DEF Beside

\* They leave the settled documents where they are.
LEMMA BesidePlaced ==
    ASSUME RInv, PInv, Calm
    PROVE  PInv'
<1>0. Indexes /\ Papers /\ Place /\ Plan /\ Categories
  BY DEF RInv
<1>p. Placed /\ HomesListed /\ Copied /\ Planned
  BY DEF PInv
<1>r. Registered \subseteq Dirs /\ settled \subseteq Docs
  BY <1>0, Distinct DEF Registered, Indexes, Papers
<1>j. ~Idle => job \in pending /\ job.to \in Registered
  BY <1>0 DEF Place, Categories
<1>m. \A d \in settled' : d \in settled /\ member'[d] = member[d] /\ member[d] \in Registered
  BY <1>0, <1>r DEF Calm, Categories
<1>o. (Over <=> Over') /\ (Over => ~Idle) /\ (Idle <=> Idle')
  BY DEF Calm, Over, Idle
<1>q. ASSUME NEW d PROVE Passed(d)' <=> Passed(d)
  BY <1>o DEF Passed, Calm
<1>1. HomesListed'
  BY <1>p, <1>m DEF HomesListed, Calm
<1>2. Placed'
  <2> SUFFICES ASSUME NEW d \in settled' \ missed', torn'[d] = {} PROVE Home(d)' \/ Taken(d)'
    BY DEF Placed
  <2>1. Home(d) \/ Taken(d)
    BY <1>p, <1>m DEF Placed, Calm
  <2>2. CASE Home(d)
    BY <1>m, <2>2 DEF Home, Calm
  <2>3. CASE Taken(d)
    <3>1. Passed(d)' /\ ~Idle
      BY <1>q, <2>3 DEF Taken, Passed
    <3> QED
      BY <1>j, <2>3, <3>1 DEF Taken, Calm
  <2> QED
    BY <2>1, <2>2, <2>3
<1>3. Copied'
  <2>1. pc' = "manifest" => Into' \notin listed'
    BY <1>p DEF Copied, Calm, Into
  <2>2. pc \in Leaving \cup {"manifest"} =>
            /\ Into \in Registered /\ Moving \subseteq job.docs /\ ~Idle
    BY <1>0, WritesRegistered, Writes DEF Leaving, Stepping, Plan, Moving, From
  <2>3. Into' = Into /\ Moving' = Moving
    BY DEF Into, Moving, Calm
  <2>4. ASSUME pc' \in Leaving \cup {"manifest"}, NEW d \in Moving' \cap Copies'
        PROVE  d \in rows'[Into]
    <3>1. pc \in Leaving \cup {"manifest"} /\ d \in Moving /\ job' = job
      BY <2>3, <2>4 DEF Calm
    <3>2. CASE job.kind = "ingested"
      BY <1>p, <2>2, <2>4, <3>1, <3>2 DEF Copies, Copied, Calm
    <3>3. CASE job.kind # "ingested"
      BY <1>p, <2>2, <2>4, <3>1, <3>3 DEF Copies, Copied, Calm
    <3> QED
      BY <3>2, <3>3
  <2>5. Over' /\ job'.kind = "ingested" => job'.to \in listed'
    BY <1>p, <1>o, <1>j DEF Copied, Calm
  <2>6. ASSUME Over', job'.kind = "ingested", NEW d \in job'.docs \cap Copies'
        PROVE  d \in rows'[job'.to]
    <3>1. Over /\ ~Idle /\ job' = job /\ job.to \in Registered
      BY <1>o, <1>j, <2>6 DEF Calm
    <3>2. d \in md /\ d \notin missed
      BY <2>6, <3>1 DEF Copies, Calm
    <3> QED
      BY <1>p, <2>6, <3>1, <3>2 DEF Copied, Copies, Calm
  <2>7. ASSUME NEW d \in Docs, Passed(d)' PROVE job'.to \in listed'
    <3>1. Passed(d) /\ ~Idle
      BY <1>q, <2>7 DEF Passed
    <3> QED
      BY <1>p, <1>j, <3>1 DEF Copied, Calm
  <2>8. ASSUME NEW d \in settled' \ missed', Passed(d)'
        PROVE  d \in rows'[job'.to] /\ d \notin rows'[member'[d]]
    <3>1. Passed(d) /\ ~Idle
      BY <1>q, <2>8 DEF Passed
    <3>2. d \in rows[job.to] /\ d \notin rows[member[d]]
      BY <1>p, <2>8, <3>1 DEF Copied, Calm
    <3> QED
      BY <1>j, <1>m, <1>r, <2>8, <3>1, <3>2 DEF Calm
  <2> QED
    BY <2>1, <2>3, <2>4, <2>5, <2>6, <2>7, <2>8 DEF Copied
<1>4. Planned'
  BY <1>p DEF Planned, Calm
<1> QED
  BY <1>1, <1>2, <1>3, <1>4 DEF PInv

\* A job that starts has handed no document over.
LEMMA StartMoves ==
    ASSUME RInv, NEW j \in pending, Start(j)
    PROVE  /\ Idle /\ job' = j /\ pc' \in {"build", "next"} /\ j \in Jobs
           /\ UNCHANGED <<member, listed, rows, edits, md, pending, settled, hidden, torn, missed>>
           /\ \A d \in Docs : ~Passed(d)' /\ d \notin Handed'
           /\ j.kind = "ingested" => ~Over'
<1>0. Indexes /\ Papers /\ Categories
  BY DEF RInv
<1>1. /\ j \in Jobs /\ j.to \in Dirs /\ j.docs \subseteq Docs /\ TargetOf(j) = j.to
      /\ j.kind = "ingested" => j.docs # {}
  BY <1>0, JobFields DEF Papers, Categories, TargetOf
<1>2. /\ Idle /\ job' = j /\ pc' \in {"build", "next"}
      /\ UNCHANGED <<member, listed, rows, edits, md, pending, settled, hidden, torn, missed>>
  BY DEF Start, registry, indexes, files, ghosts
<1>3. ASSUME j.kind = "transfer", NEW d \in j.docs, member[d] # j.to PROVE d \in todo'[member[d]]
  <2>1. todo' = GroupsOf(j)
    BY <1>3 DEF Start
  <2>2. d \in Docs /\ member[d] \in Dirs
    BY <1>0, <1>1, <1>3 DEF Indexes
  <2>3. todo'[member[d]] = {x \in j.docs : member[x] = member[d]}
    BY <1>1, <1>3, <2>1, <2>2 DEF GroupsOf
  <2> QED
    BY <1>3, <2>3
<1>4. ASSUME NEW d \in Docs PROVE ~Passed(d)' /\ d \notin Handed'
  <2>1. ~Passed(d)'
    BY <1>2, <1>3 DEF Passed
  <2>2. d \notin Handed'
    BY <1>2, <1>3 DEF Handed
  <2> QED
    BY <2>1, <2>2
<1>5. ASSUME j.kind = "ingested" PROVE ~Over'
  <2>1. todo' = [NoGroups EXCEPT ![j.to] = j.docs]
    BY <1>1, <1>5 DEF Start
  <2> QED
    BY <1>1, <1>5, <2>1, NoGroupsType DEF Over
<1> QED
  BY <1>1, <1>2, <1>4, <1>5
\* Nothing moves when a job starts.
LEMMA StartPlaced ==
    ASSUME RInv, PInv, \E j \in pending : Start(j)
    PROVE  PInv'
<1> PICK j \in pending : Start(j)
  OBVIOUS
<1>0. Papers /\ Placed /\ HomesListed
  BY DEF RInv, PInv
<1>1. /\ Idle /\ job' = j /\ pc' \in {"build", "next"}
      /\ UNCHANGED <<member, listed, rows, settled, torn, missed>>
      /\ \A d \in Docs : ~Passed(d)'
      /\ j.kind = "ingested" => ~Over'
  BY StartMoves
<1>2. HomesListed'
  BY <1>0, <1>1 DEF HomesListed
<1>3. Placed'
  BY <1>0, <1>1 DEF Placed, Home, Taken, Passed
<1>4. Copied'
  BY <1>0, <1>1 DEF Copied, Leaving, Papers
<1> QED
  BY <1>1, <1>2, <1>3, <1>4 DEF PInv, Planned

\* The documents that a transfer has taken out of where they were are handed over.
LEMMA PassedHanded ==
    ASSUME NEW d, Passed(d)
    PROVE  d \in Handed
  BY DEF Passed, Handed

\* A job that is cut off: what it has taken out of where it was is in torn.
LEMMA CutPlaced ==
    ASSUME RInv, PInv, Cut, Tear, UNCHANGED <<member, settled>>, listed \subseteq listed',
           pc' = "idle"
    PROVE  PInv'
<1>0. Indexes /\ Papers /\ Place /\ OnlyKnown
  BY DEF RInv
<1>p. Placed /\ HomesListed
  BY DEF PInv
<1>s. settled \subseteq Docs /\ settled \subseteq md
  BY <1>0 DEF Papers, OnlyKnown
<1>1. HomesListed'
  BY <1>p DEF HomesListed
<1>2. ASSUME NEW d \in settled \ missed', torn'[d] = {} PROVE Home(d)'
  <2>1. d \notin Handed /\ torn[d] = {}
    BY <1>0, <1>s, <1>2, TearMoves
  <2>2. d \notin missed
    BY <1>0, <1>2, CutMoves
  <2>3. Home(d)
    BY <1>p, <1>2, <2>1, <2>2, PassedHanded DEF Placed, Taken
  <2>4. d \in rows'[member[d]]
    BY <1>0, <1>s, <1>2, <2>3, CutMoves DEF Home
  <2> QED
    BY <2>3, <2>4 DEF Home
<1>3. Placed'
  BY <1>2 DEF Placed
<1>4. Copied' /\ Planned'
  BY DEF Copied, Planned, Passed, Over, Leaving, Idle
<1> QED
  BY <1>1, <1>3, <1>4 DEF PInv

\* The end of a job: what is left of the invariant is where documents are.
LEMMA EndPlaced ==
    ASSUME RInv, PInv, Ends
    PROVE  PInv'
<1>0. Indexes /\ Papers /\ Place /\ Plan /\ Categories /\ OnlyKnown
  BY DEF RInv
<1>p. Placed /\ HomesListed /\ Copied /\ Planned
  BY DEF PInv
<1>e. pc' = "idle" /\ ~Idle /\ listed \subseteq listed'
  BY <1>0, EndMoves DEF Done, End
<1>j. job \in pending /\ job \in Jobs /\ job.to \in Registered /\ job.to \in Dirs /\ job.docs \subseteq Docs
  BY <1>0, <1>e, JobFields DEF Place, Papers, Categories
<1>s. settled \subseteq Docs /\ settled \subseteq md
  BY <1>0 DEF Papers, OnlyKnown
<1>1. Copied' /\ Planned'
  BY <1>e DEF Copied, Planned, Passed, Over, Leaving, Idle
<1>2. CASE Prune
  <2>1. /\ UNCHANGED <<member, settled, torn, missed>>
        /\ rows' = [rows EXCEPT ![General] = @ \ {x \in Docs : member[x] # General}]
        /\ job.kind = "reindex"
    BY <1>0, <1>2, <1>e DEF Prune, registry, ghosts, Place
  <2>2. HomesListed'
    BY <1>p, <1>e, <2>1 DEF HomesListed
  <2>3. ASSUME NEW d \in settled \ missed, torn[d] = {} PROVE Home(d)'
    <3>1. Home(d)
      BY <1>p, <2>1, <2>3 DEF Placed, Taken, Passed
    <3> QED
      BY <1>0, <1>e, <2>1, <3>1, Distinct DEF Home, Indexes
  <2> QED
    BY <1>1, <2>1, <2>2, <2>3 DEF PInv, Placed
<1>3. CASE Fail
  BY <1>3, <1>e, CutPlaced DEF Fail, registry
<1>4. CASE Refused
  BY <1>4, <1>e, CutPlaced DEF Refused, Cut, registry, indexes
<1>5. CASE SetMembership
  <2>g. TargetOf(job) = job.to
    BY <1>j DEF TargetOf
  <2>0. /\ pc = "member" /\ UNCHANGED <<rows, listed, missed>>
        /\ member' = CASE job.kind = "transfer" ->
                            [d \in Docs |-> IF d \in job.docs THEN job.to ELSE member[d]]
                       [] job.kind = "ingested" /\ job.to # General ->
                            [d \in Docs |-> IF d \in job.docs THEN job.to ELSE member[d]]
                       [] OTHER -> member
        /\ settled' = IF job.kind = "ingested" THEN settled \cup (job.docs \cap md) ELSE settled
    BY <1>5, <1>j, <2>g DEF SetMembership, indexes
  <2>o. Over /\ todo = NoGroups
    BY <1>p, <2>0 DEF Over, Planned
  <2>1. CASE job.kind = "transfer"
    <3>1. \A d \in settled : member'[d] = IF d \in job.docs THEN job.to ELSE member[d]
      BY <1>s, <2>0, <2>1
    <3>2. ASSUME NEW d \in settled, d \in job.docs, member[d] # job.to PROVE Passed(d)
      <4>1. member[d] \in Dirs
        BY <1>0, <1>s, <3>2 DEF Indexes
      <4> QED
        BY <1>e, <2>o, <2>1, <3>2, <4>1, NoGroupsType DEF Passed
    <3>3. HomesListed'
      BY <1>p, <1>s, <2>0, <2>1, <3>1, <3>2 DEF HomesListed, Copied
    <3>4. ASSUME NEW d \in settled \ missed, torn'[d] = {} PROVE Home(d)'
      <4>1. CASE d \in job.docs /\ member[d] # job.to
        BY <1>p, <1>s, <2>0, <3>1, <3>2, <3>4, <4>1 DEF Home, Copied
      <4>2. CASE ~(d \in job.docs /\ member[d] # job.to)
        <5>1. torn' = [x \in Docs |-> IF x \in job.docs /\ member[x] # job.to
                                       THEN torn[x] \ {job.to} ELSE torn[x]]
          BY <1>5, <1>j, <2>1 DEF SetMembership
        <5>2. member'[d] = member[d] /\ torn[d] = {} /\ ~Taken(d)
          BY <1>s, <3>1, <3>4, <4>2, <5>1 DEF Taken, Passed
        <5> QED
          BY <1>p, <2>0, <3>4, <5>2 DEF Placed, Home
      <4> QED
        BY <4>1, <4>2
    <3> QED
      BY <1>1, <2>0, <2>1, <3>3, <3>4 DEF PInv, Placed
  <2>2. CASE job.kind = "ingested"
    <3>1. \A d \in Docs : member'[d] = IF d \in job.docs /\ job.to # General THEN job.to ELSE member[d]
      BY <1>0, <2>0, <2>2 DEF Indexes
    <3>2. \A d \in job.docs : member'[d] = job.to
      BY <1>0, <1>e, <1>j, <2>2, <3>1 DEF Plan
    <3>3. \A d \in settled' : d \in job.docs \cap md \/ (d \in settled /\ d \notin job.docs)
      BY <1>s, <2>0, <2>2
    <3>4. HomesListed'
      BY <1>p, <1>s, <2>0, <2>o, <2>2, <3>1, <3>2, <3>3 DEF HomesListed, Copied
    <3>5. torn' = [d \in Docs |-> IF d \in job.docs THEN {} ELSE torn[d]]
      BY <1>5, <2>2 DEF SetMembership
    <3>6. ASSUME NEW d \in settled' \ missed, torn'[d] = {} PROVE Home(d)'
      <4>1. CASE d \in job.docs
        <5>1. d \in job.docs \cap Copies
          BY <2>2, <3>3, <3>6, <4>1 DEF Copies
        <5> QED
          BY <1>p, <2>0, <2>o, <2>2, <3>2, <4>1, <5>1 DEF Home, Copied
      <4>2. CASE d \notin job.docs
        <5>1. member'[d] = member[d] /\ torn[d] = {} /\ ~Taken(d) /\ d \in settled
          BY <1>s, <2>2, <3>1, <3>3, <3>5, <3>6, <4>2 DEF Taken, Passed
        <5> QED
          BY <1>p, <2>0, <3>6, <5>1 DEF Placed, Home
      <4> QED
        BY <4>1, <4>2
    <3> QED
      BY <1>1, <2>0, <3>4, <3>6 DEF PInv, Placed
  <2>3. CASE job.kind \notin {"transfer", "ingested"}
    <3>1. Tear /\ UNCHANGED <<member, settled>>
      BY <1>5, <2>0, <2>3 DEF SetMembership
    <3> QED
      BY <1>5, <1>e, <3>1, CutPlaced DEF Cut, SetMembership, indexes
  <2> QED
    BY <2>1, <2>2, <2>3
<1> QED
  BY <1>2, <1>3, <1>4, <1>5 DEF Ends

\* What a step of the job does to the settled documents: it leaves their rows
\* in the directory of their category, or takes them out when they are in the
\* target.
LEMMA WorkHomes ==
    ASSUME RInv, PInv, Works
    PROVE  /\ UNCHANGED <<member, md, settled, torn, pending, job>> /\ listed \subseteq listed'
           /\ ~Idle /\ pc' # "idle"
           /\ \A d \in settled \ missed' : Home(d) => Home(d)' \/ (RemoveRows /\ d \in Moving)
           /\ \A d \in settled \ missed' :
                  d \in missed => Home(d)' /\ job.kind # "transfer" /\ Incremental
<1>0. Indexes /\ Papers /\ Place /\ Plan /\ Categories /\ OnlyKnown
  BY DEF RInv
<1>p. Placed /\ HomesListed /\ Copied /\ Planned
  BY DEF PInv
<1>u. UNCHANGED <<member, md, settled, torn, pending, job>> /\ ~Idle /\ pc' # "idle"
  BY <1>0, WorkMoves DEF registry
<1>l. listed \subseteq listed'
  BY DEF Works, Build, NextGroup, Incremental, FirstBuild, WriteManifest, CarryEdits, DropCarried,
         RemoveRows, indexes
<1>s. settled \subseteq Docs /\ settled \subseteq md /\ \A d \in settled : member[d] \in Dirs
  BY <1>0 DEF Papers, OnlyKnown, Indexes
<1>h. ASSUME NEW d \in settled, d \in rows[member[d]] => d \in rows'[member[d]]
      PROVE  Home(d) => Home(d)'
  BY <1>u, <1>l, <1>h DEF Home
<1>1. CASE Build
  <2>1. /\ missed \subseteq missed'
        /\ \A d \in settled \ missed' : d \in rows[member[d]] => d \in rows'[member[d]]
    BY <1>0, <1>s, <1>1 DEF Build, Indexes
  <2> QED
    BY <1>u, <1>l, <1>h, <2>1
<1>2. CASE Incremental
  <2>1. Into \in Dirs /\ Moving \in SUBSET Docs /\ {} \in SUBSET Docs /\ Replace(Moving, {})
    BY <1>0, <1>2, Writes DEF Incremental, Stepping
  <2>2. rows'[Into] = (rows[Into] \ Moving) \cup (Moving \cap md)
        /\ \A k \in Dirs : k # Into => rows'[k] = rows[k]
    BY <1>0, <2>1, ReplaceMoves
  <2>3. \A d \in settled : d \in rows[member[d]] => d \in rows'[member[d]]
    BY <1>s, <2>1, <2>2
  <2>4. ASSUME NEW d \in settled, d \in missed, d \notin missed'
        PROVE  Home(d)' /\ job.kind # "transfer"
    <3>1. job.kind # "transfer" /\ d \in Moving
      BY <1>2, <2>4 DEF Incremental
    <3>2. member[d] \in listed
      BY <1>p, <2>4 DEF HomesListed
    <3>3. member[d] = Into
      <4>1. /\ job \in pending /\ job \in Jobs /\ Into = group /\ d \in todo[group]
            /\ d \in job.docs /\ group \in Dirs /\ pc \in Stepping
        BY <1>0, <1>2, <3>1 DEF Place, Plan, Papers, Idle, Incremental, Stepping, Into, Moving
      <4>2. job.kind # "ingested"
        BY <2>4, <4>1 DEF RInv, Unsettled
      <4>3. job.kind = "reindex_source"
        BY <1>0, <1>u, <3>1, <4>1, <4>2, JobFields DEF Place
      <4> QED
        BY <1>0, <1>u, <4>1, <4>3 DEF Plan
    <3> QED
      BY <1>u, <1>l, <1>s, <2>2, <2>4, <3>1, <3>2, <3>3 DEF Home
  <2> QED
    BY <1>u, <1>l, <1>h, <1>2, <2>3, <2>4
<1>3. CASE FirstBuild
  <2>1. \A d \in settled : member[d] # Into
    BY <1>0, <1>p, <1>3 DEF FirstBuild, HomesListed, Place
  <2>2. /\ missed \subseteq missed'
        /\ \A d \in settled : d \in rows[member[d]] => d \in rows'[member[d]]
    BY <1>0, <1>s, <1>3, <2>1 DEF FirstBuild, Indexes
  <2> QED
    BY <1>u, <1>l, <1>h, <2>2
<1>4. CASE RemoveRows
  <2>1. /\ missed = missed'
        /\ \A d \in settled : d \in rows[member[d]] => d \in rows'[member[d]] \/ d \in Moving
    BY <1>0, <1>s, <1>4 DEF RemoveRows, Indexes, ghosts
  <2> QED
    BY <1>u, <1>l, <1>h, <1>4, <2>1
<1>5. CASE UNCHANGED <<rows, missed>>
  BY <1>u, <1>l, <1>h, <1>5
<1> QED
  BY <1>1, <1>2, <1>3, <1>4, <1>5
  DEF Works, NextGroup, WriteManifest, CarryEdits, DropCarried, indexes, ghosts

\* Rows are taken out of the directory that the documents leave.
LEMMA RemoveMoves ==
    ASSUME RInv, PInv, RemoveRows
    PROVE  /\ job.kind = "transfer" /\ ~Idle /\ From # job.to /\ Into = job.to /\ job.to \in listed
           /\ pc' = "next" /\ pc = "remove" /\ group \in Dirs /\ From = group /\ Moving = todo[group]
           /\ todo' = [todo EXCEPT ![group] = {}] /\ job.to \in Dirs /\ job.docs \subseteq Docs
           /\ UNCHANGED <<job, group, listed, member, settled, torn, missed, pending>>
           /\ \A d \in Moving : d \in job.docs /\ member[d] = From
           /\ \A d \in (Moving \cap settled) \ missed : d \in rows[job.to]
           /\ rows'[From] = rows[From] \ Moving /\ \A k \in Dirs : k # From => rows'[k] = rows[k]
<1>0. Indexes /\ Papers /\ Place /\ Plan /\ Planned /\ Copied
  BY DEF RInv, PInv
<1>1. /\ pc = "remove" /\ job.kind = "transfer" /\ ~Idle /\ Into = job.to /\ job.to \in listed
      /\ pc' = "next" /\ todo' = [todo EXCEPT ![group] = {}]
      /\ UNCHANGED <<job, group, listed, member, settled, torn, missed, pending>>
  BY <1>0 DEF RemoveRows, Place, Leaving, Idle, Into, registry, ghosts
<1>2. /\ group \in Dirs /\ From = group /\ Moving = todo[group] /\ Moving # {}
      /\ job.to \in Dirs /\ job.docs \subseteq Docs
  BY <1>0, <1>1, JobFields DEF Place, Papers, Stepping, From, Moving
<1>3. group # job.to /\ \A d \in Moving : d \in job.docs /\ member[d] = group
  BY <1>0, <1>1, <1>2 DEF Plan
<1>4. \A d \in (Moving \cap settled) \ missed : d \in rows[job.to]
  BY <1>0, <1>1 DEF Copied, Copies, Leaving
<1>5. rows'[From] = rows[From] \ Moving /\ \A k \in Dirs : k # From => rows'[k] = rows[k]
  BY <1>0, <1>2, <1>3 DEF RemoveRows, Indexes
<1> QED
  BY <1>1, <1>2, <1>3, <1>4, <1>5

\* The documents that a transfer has taken out of where they were, after a step.
LEMMA WorkPassed ==
    ASSUME RInv, PInv, Works, NEW d \in Docs
    PROVE  /\ Passed(d)' <=> Passed(d) \/ (RemoveRows /\ d \in Moving)
           /\ Passed(d) => /\ ~Build /\ ~FirstBuild /\ ~WriteManifest
                           /\ job.to \in Dirs /\ member[d] \in Dirs
                           /\ d \in rows[job.to] => d \in rows'[job.to]
                           /\ d \notin rows[member[d]] => d \notin rows'[member[d]]
<1>0. Indexes /\ Papers /\ Place /\ Plan /\ Copied
  BY DEF RInv, PInv
<1>u. UNCHANGED <<member, job>> /\ ~Idle /\ ~Idle' /\ job \in Jobs /\ job.to \in Dirs
  BY <1>0, WorkMoves, JobFields DEF registry, Idle, Place, Papers
<1>m. member[d] \in Dirs
  BY <1>0 DEF Indexes
<1>1. ASSUME job.kind # "transfer" PROVE ~Passed(d) /\ ~Passed(d)' /\ ~RemoveRows
  BY <1>0, <1>u, <1>1 DEF Passed, RemoveRows, Place, Leaving
<1>2. ASSUME job.kind = "transfer", ~RemoveRows PROVE todo' = todo
  BY <1>2 DEF Works, Build, NextGroup, Incremental, FirstBuild, WriteManifest, CarryEdits,
              DropCarried, AfterIndex, Go
<1>3. ASSUME RemoveRows PROVE Passed(d)' <=> Passed(d) \/ d \in Moving
  <2>1. /\ todo' = [todo EXCEPT ![group] = {}] /\ group \in Dirs /\ Moving = todo[group]
        /\ From = group /\ From # job.to /\ job.kind = "transfer"
        /\ \A x \in Moving : x \in job.docs /\ member[x] = From
    BY <1>3, RemoveMoves
  <2>2. todo'[member[d]] = IF member[d] = group THEN {} ELSE todo[member[d]]
    BY <1>0, <1>m, <2>1 DEF Place
  <2> QED
    BY <1>u, <2>1, <2>2 DEF Passed
<1>4. Passed(d)' <=> Passed(d) \/ (RemoveRows /\ d \in Moving)
  BY <1>u, <1>1, <1>2, <1>3 DEF Passed
<1>5. ASSUME Passed(d)
      PROVE  /\ ~Build /\ ~FirstBuild /\ ~WriteManifest
             /\ d \in rows[job.to] => d \in rows'[job.to]
             /\ d \notin rows[member[d]] => d \notin rows'[member[d]]
  <2>1. /\ job.kind = "transfer" /\ job.to \in listed /\ job.to \in tables /\ Into = job.to
        /\ member[d] # job.to /\ d \notin todo[member[d]]
    BY <1>0, <1>5 DEF Passed, Copied, Place, Into
  <2>2. ~Build /\ ~FirstBuild /\ ~WriteManifest
    BY <1>0, <1>u, <2>1 DEF Build, FirstBuild, WriteManifest, Place, Copied
  <2>3. CASE Incremental
    <3>1. group \in Dirs /\ Moving = todo[group] /\ Moving \in SUBSET Docs /\ {} \in SUBSET Docs
          /\ Replace(Moving, {}) /\ Into \in Dirs
      BY <1>0, <1>u, <2>1, <2>3, Writes DEF Incremental, Stepping, Place, Moving
    <3>2. d \notin Moving
      BY <1>0, <1>u, <2>1, <3>1 DEF Plan
    <3>3. /\ rows'[Into] = (rows[Into] \ (Moving \cup {})) \cup (Moving \cap md)
          /\ \A k \in Dirs : k # Into => rows'[k] = rows[k]
      <4>1. Moving \in SUBSET Docs /\ {} \in SUBSET Docs /\ Replace(Moving, {}) /\ Into \in Dirs
        BY <3>1
      <4> QED
        BY <1>0, <4>1, ReplaceMoves
    <3> QED
      BY <1>m, <2>1, <2>2, <3>2, <3>3
  <2>4. CASE RemoveRows
    <3>1. /\ rows'[From] = rows[From] \ Moving /\ \A k \in Dirs : k # From => rows'[k] = rows[k]
          /\ From # job.to
      BY <2>4, RemoveMoves
    <3> QED
      BY <1>u, <1>m, <2>2, <3>1
  <2>5. CASE UNCHANGED rows
    BY <2>2, <2>5
  <2> QED
    BY <2>2, <2>3, <2>4, <2>5 DEF Works, NextGroup, CarryEdits, DropCarried, indexes
<1> QED
  BY <1>u, <1>m, <1>4, <1>5

\* The steps of a job leave a copy of each settled document where it is looked for.
LEMMA WorkPlaced ==
    ASSUME RInv, PInv, Works
    PROVE  Placed' /\ HomesListed'
<1>0. Indexes /\ Papers /\ Placed /\ HomesListed
  BY DEF RInv, PInv
<1>w. /\ UNCHANGED <<member, md, settled, torn, pending, job>> /\ listed \subseteq listed'
      /\ \A d \in settled \ missed' : Home(d) => Home(d)' \/ (RemoveRows /\ d \in Moving)
      /\ \A d \in settled \ missed' :
             d \in missed => Home(d)' /\ job.kind # "transfer" /\ Incremental
  BY WorkHomes
<1>1. HomesListed'
  BY <1>0, <1>w DEF HomesListed
<1>2. ASSUME NEW d \in settled \ missed', torn[d] = {} PROVE Home(d)' \/ Taken(d)'
  <2>0. d \in Docs
    BY <1>0 DEF Papers
  <2>1. CASE d \in missed
    BY <1>w, <1>2, <2>1
  <2>2. CASE RemoveRows /\ d \in Moving
    <3>1. d \in rows[job.to] /\ From # job.to /\ job.to \in Dirs /\ rows'[job.to] = rows[job.to]
      BY <1>2, <2>2, RemoveMoves
    <3>2. Passed(d)'
      BY <2>0, <2>2, WorkPassed
    <3> QED
      BY <1>w, <3>1, <3>2 DEF Taken
  <2>3. CASE Taken(d)
    BY <1>w, <2>0, <2>3, WorkPassed DEF Taken
  <2>4. CASE Home(d) /\ ~(RemoveRows /\ d \in Moving)
    BY <1>w, <1>2, <2>4
  <2> QED
    BY <1>0, <1>2, <2>1, <2>2, <2>3, <2>4 DEF Placed
<1>3. Placed'
  BY <1>w, <1>2 DEF Placed
<1> QED
  BY <1>1, <1>3

\* What a job has copied.
LEMMA WorkCopied ==
    ASSUME RInv, PInv, Works
    PROVE  Copied' /\ Planned'
<1>0. Indexes /\ Papers /\ Place /\ Plan /\ Categories /\ OnlyKnown
  BY DEF RInv
<1>p. Placed /\ HomesListed /\ Copied /\ Planned
  BY DEF PInv
<1>w. /\ UNCHANGED <<member, md, settled, torn, pending, job>> /\ listed \subseteq listed'
      /\ ~Idle /\ pc' # "idle"
      /\ \A d \in settled \ missed' :
             d \in missed => Home(d)' /\ job.kind # "transfer" /\ Incremental
  BY WorkHomes
<1>s. settled \subseteq md /\ settled \subseteq Docs
  BY <1>0 DEF OnlyKnown, Papers
<1>c. Copies' \subseteq md
  BY <1>w, <1>s DEF Copies
<1>x. ASSUME ~Incremental PROVE Copies' \subseteq Copies
  <2>1. missed \subseteq missed'
    BY <1>x DEF Works, Build, NextGroup, FirstBuild, WriteManifest, CarryEdits, DropCarried,
                RemoveRows, ghosts
  <2> QED
    BY <1>w, <2>1 DEF Copies
<1>n. Planned'
  BY <1>p, <1>w DEF Works, Build, NextGroup, Incremental, FirstBuild, WriteManifest, CarryEdits,
                    DropCarried, RemoveRows, AfterIndex, Go, Planned
<1>t. ASSUME NEW d \in Docs, Passed(d)' PROVE job'.to \in listed'
  <2>1. Passed(d) \/ RemoveRows
    BY <1>t, WorkPassed
  <2>2. job.to \in listed
    BY <1>p, <2>1, RemoveMoves DEF Copied
  <2> QED
    BY <1>w, <2>2
<1>r. ASSUME NEW d \in settled' \ missed', Passed(d)'
      PROVE  d \in rows'[job'.to] /\ d \notin rows'[member'[d]]
  <2>0. d \in settled /\ d \in Docs /\ d \notin missed
    <3>1. d \in settled /\ d \in Docs /\ job.kind = "transfer"
      BY <1>r, <1>w, <1>s DEF Passed
    <3> QED
      BY <1>r, <1>w, <3>1
  <2>1. CASE Passed(d)
    BY <1>p, <1>w, <2>0, <2>1, WorkPassed DEF Copied
  <2>2. CASE RemoveRows /\ d \in Moving
    <3>1. /\ d \in rows[job.to] /\ From # job.to /\ job.to \in Dirs /\ rows'[job.to] = rows[job.to]
          /\ member[d] = From /\ rows'[From] = rows[From] \ Moving
      BY <2>0, <2>2, RemoveMoves
    <3> QED
      BY <1>w, <2>2, <3>1
  <2> QED
    BY <1>r, <2>0, <2>1, <2>2, WorkPassed
\* It is left to show what the steps copy.
<1>y. SUFFICES /\ pc' = "manifest" => Into' \notin listed'
               /\ pc' \in Leaving \cup {"manifest"} =>
                      \A d \in Moving' \cap Copies' : d \in rows'[Into']
               /\ Over' /\ job'.kind = "ingested" =>
                      job'.to \in listed' /\ \A d \in job'.docs \cap Copies' : d \in rows'[job'.to]
  BY <1>n, <1>t, <1>r DEF Copied
<1>1. CASE Build
  BY <1>0, <1>1, <1>w DEF Build, Go, Over, Leaving, Place
<1>2. CASE NextGroup
  <2>1. /\ Copies' \subseteq Copies /\ UNCHANGED <<rows, listed>> /\ pc' \in {"member", "index"}
        /\ pc = "next" /\ (Over' => Over)
    BY <1>2, <1>x DEF NextGroup, Incremental, Over, indexes
  <2> QED
    BY <1>p, <1>w, <2>1 DEF Copied, Leaving
<1>a. ASSUME AfterIndex, pc \in {"index", "manifest"}, Into \in listed',
             \A d \in Moving \cap Copies' : d \in rows'[Into]
      PROVE  /\ pc' = "manifest" => Into' \notin listed'
             /\ pc' \in Leaving \cup {"manifest"} =>
                    \A d \in Moving' \cap Copies' : d \in rows'[Into']
             /\ Over' /\ job'.kind = "ingested" =>
                    job'.to \in listed' /\ \A d \in job'.docs \cap Copies' : d \in rows'[job'.to]
  <2>1. group \in Dirs /\ Moving = todo[group] /\ Moving # {} /\ UNCHANGED <<job, group>>
    BY <1>0, <1>a DEF Place, Stepping, Moving, AfterIndex, Go
  <2>2. CASE job.kind = "transfer"
    <3>1. pc' = "carry" /\ UNCHANGED <<job, todo, group>>
      BY <1>a, <2>2 DEF AfterIndex, Go
    <3>2. Into' = Into /\ Moving' = Moving
      BY <3>1 DEF Into, Moving
    <3> QED
      BY <1>a, <2>2, <3>1, <3>2 DEF Over
  <2>3. CASE job.kind # "transfer"
    <3>1. pc' = "next"
      BY <1>a, <2>3 DEF AfterIndex
    <3>2. job.kind = "ingested" => Into = job.to /\ Moving = job.docs
      BY <1>0, <1>w, <2>1 DEF Plan, Into
    <3> QED
      BY <1>a, <1>w, <3>1, <3>2 DEF Leaving
  <2> QED
    BY <2>2, <2>3
<1>3. CASE Incremental
  <2>1. /\ Into \in Dirs /\ Moving \in SUBSET Docs /\ Replace(Moving, {}) /\ {} \in SUBSET Docs
        /\ Into \in listed' /\ pc = "index" /\ AfterIndex
    BY <1>0, <1>3, Writes DEF Incremental, Stepping
  <2>2. \A d \in Moving \cap md : d \in rows'[Into]
    BY <1>0, <2>1, ReplaceMoves
  <2> QED
    BY <1>a, <1>c, <2>1, <2>2
<1>4. CASE WriteManifest
  <2>1. Into \in listed' /\ pc = "manifest" /\ AfterIndex /\ rows' = rows /\ Copies' \subseteq Copies
    BY <1>4, <1>x DEF WriteManifest, Incremental
  <2>2. \A d \in Moving \cap Copies : d \in rows'[Into]
    BY <1>p, <2>1 DEF Copied
  <2> QED
    BY <1>a, <2>1, <2>2
<1>5. CASE FirstBuild
  <2>1. Into \in Dirs /\ Into \notin listed /\ pc' = "manifest" /\ UNCHANGED <<job, todo, group, listed>>
    BY <1>0, <1>5, Writes DEF FirstBuild, Go, Stepping, Place
  <2>2. Into' = Into /\ Moving' = Moving
    BY <2>1 DEF Into, Moving
  <2>3. PICK lost \in SUBSET (Moving \cap md) :
            rows' = [rows EXCEPT ![Into] = (Moving \cap md) \ lost] /\ missed' = missed \cup lost
    BY <1>5 DEF FirstBuild
  <2>4. rows'[Into] = (Moving \cap md) \ lost
    BY <1>0, <2>1, <2>3 DEF Indexes
  <2>5. Copies' \cap lost = {}
    BY <2>3 DEF Copies
  <2> QED
    BY <1>c, <2>1, <2>2, <2>4, <2>5 DEF Over
<1>6. CASE CarryEdits \/ DropCarried
  <2>1. /\ Into' = Into /\ Moving' = Moving /\ UNCHANGED <<rows, job, todo, group>>
        /\ Copies' \subseteq Copies
    BY <1>6, <1>x DEF CarryEdits, DropCarried, Incremental, Go, Into, Moving, indexes
  <2>2. pc \in {"carry", "uncarry"} /\ pc' \in {"uncarry", "remove"}
    BY <1>6 DEF CarryEdits, DropCarried, Go
  <2> QED
    BY <1>p, <2>1, <2>2 DEF Copied, Over, Leaving
<1>7. CASE RemoveRows
  <2>1. pc' = "next" /\ job'.kind = "transfer"
    BY <1>7, <1>w, RemoveMoves
  <2> QED
    BY <2>1 DEF Leaving
<1> QED
  BY <1>1, <1>2, <1>3, <1>4, <1>5, <1>6, <1>7 DEF Works

\* The invariant about rows is inductive.
LEMMA NextPlaced ==
    ASSUME RInv, PInv, [Next]_vars
    PROVE  PInv'
<1>1. CASE Beside
  BY <1>1, BesideMoves, BesidePlaced
<1>2. CASE \E j \in pending : Start(j)
  BY <1>2, StartPlaced
<1>3. CASE Works
  BY <1>3, WorkPlaced, WorkCopied DEF PInv
<1>4. CASE Ends
  BY <1>4, EndPlaced
<1>5. CASE Crash
  BY <1>5, CutPlaced DEF Crash, End, registry
<1> QED
  BY <1>1, <1>2, <1>3, <1>4, <1>5 DEF Next, Beside, Requests, Works, Ends

\* Where the documents are, for any number of documents, jobs, failures and
\* crashes: enqueue_transfer_sources promises it of every step.
THEOREM PlaceInvariance ==
    ASSUME Incidents = {}
    PROVE  Spec => []PInv
<1>0. Spec => []RInv
  BY Invariance
<1>1. Init => PInv
  BY DEF Init, PInv, Placed, HomesListed, Copied, Planned, Passed, Over, Leaving, Idle
<1>2. RInv /\ PInv /\ [Next]_vars => PInv'
  BY NextPlaced
<1> QED
  BY <1>0, <1>1, <1>2, PTL DEF Spec

\* A document whose indexing ended well stays searchable: "never in neither"
\* (enqueue_transfer_sources), but for a file that failed and a transfer that
\* ended between the removal of the rows and the memberships.
THEOREM NeverLost ==
    ASSUME Incidents = {}
    PROVE  Spec => []NeverInNeither
<1>0. Spec => []RInv
  BY Invariance
<1>1. RInv /\ PInv => NeverInNeither
  <2> SUFFICES ASSUME RInv, PInv, NEW d \in settled \ missed, torn[d] = {} PROVE Found(d)
    BY DEF NeverInNeither
  <2>0. Papers /\ Place /\ Categories /\ Placed /\ Copied
    BY DEF RInv, PInv
  <2>1. d \in Docs
    BY <2>0 DEF Papers
  <2>2. CASE Home(d)
    BY <2>0, <2>1, <2>2 DEF Home, Place, Categories, Found
  <2>3. CASE Taken(d)
    <3>1. job.to \in listed /\ d \in rows[job.to] /\ job.to \in Registered
      BY <2>0, <2>1, <2>3 DEF Taken, Passed, Copied, Place, Categories
    <3> QED
      BY <2>0, <3>1 DEF Found, Place
  <2> QED
    BY <2>0, <2>2, <2>3 DEF Placed
<1> QED
  BY <1>1, <1>0, PlaceInvariance, PTL

\* A transfer that ends well has moved its documents, whatever transfers of them
\* failed before (_run_transfer_sources).
THEOREM Delivered ==
    ASSUME Incidents = {}
    PROVE  Spec => TransferDelivers
<1>0. Spec => []RInv
  BY Invariance
<1>1. ASSUME RInv, PInv, SetMembership, job.kind = "transfer", job.to \in Registered,
             NEW d \in (job.docs \cap settled) \ missed, member[d] # job.to \/ torn[d] = {}
      PROVE  /\ d \in rows[job.to] /\ job.to \in listed
             /\ member[d] # job.to => d \notin rows[member[d]]
             /\ member'[d] = job.to
  <2>0. Indexes /\ Papers /\ Place /\ Placed /\ Copied /\ Planned
    BY <1>1 DEF RInv, PInv
  <2>1. d \in Docs /\ member[d] \in Dirs /\ todo = NoGroups /\ ~Idle
    BY <1>1, <2>0 DEF Papers, Indexes, SetMembership, Planned, Idle
  <2>2. member'[d] = job.to
    BY <1>1, <2>1 DEF SetMembership
  <2>3. CASE member[d] # job.to
    <3>1. Passed(d)
      BY <1>1, <2>1, <2>3, NoGroupsType DEF Passed
    <3> QED
      BY <1>1, <2>0, <2>1, <2>2, <3>1 DEF Copied
  <2>4. CASE member[d] = job.to
    BY <1>1, <2>0, <2>2, <2>4 DEF Placed, Home, Taken, Passed
  <2> QED
    BY <2>3, <2>4
<1>2. RInv /\ PInv /\ [Next]_vars =>
        [(SetMembership /\ job.kind = "transfer" /\ job.to \in Registered) =>
            \A d \in (job.docs \cap settled) \ missed :
                member[d] # job.to \/ torn[d] = {} =>
                /\ d \in rows[job.to] /\ job.to \in listed
                /\ member[d] # job.to => d \notin rows[member[d]]
                /\ member'[d] = job.to]_vars
  BY <1>1
<1> QED
  BY <1>2, <1>0, PlaceInvariance, PTL DEF Spec, TransferDelivers

-----------------------------------------------------------------------------
(* Where the edits are.                                                    *)

\* What a step beside the job does to the edits: those of settled documents
\* stay, an edited document is not the job's, and the job's documents keep
\* their edits.
CalmEdits ==
    /\ Calm
    /\ \A d \in settled' \cap hidden' :
           d \in hidden \/ (d \in edits'[member'[d]] /\ (~Idle => d \notin job.docs))
    /\ \A d \in settled' : \A k \in Registered : d \in edits[k] => d \in edits'[k]
    /\ \A d \in settled' : EditsLeft(d) => EditsLeft(d)'
    /\ ~Idle => \A d \in job.docs : \A k \in Registered : d \in edits[k] => d \in edits'[k]
    /\ ~Idle => \A d \in job.docs : \A k \in Dirs : d \in edits'[k] => d \in edits[k]
    /\ TornListed => TornListed'
\* Every step beside the job leaves these edits.
LEMMA BesideEdits ==
    ASSUME Incidents = {}, RInv, Beside
    PROVE  CalmEdits
<1>0. Indexes /\ Papers /\ Place /\ Categories /\ Leaves /\ Calm
  BY BesideMoves DEF RInv
<1>r. Registered \subseteq Dirs
  BY <1>0, Distinct DEF Registered, Indexes
<1>h. ASSUME UNCHANGED <<torn, listed>>,
             \A d \in settled' : \A k \in Dirs : d \in edits[k] => d \in edits'[k]
      PROVE  /\ \A d \in settled' : EditsLeft(d) => EditsLeft(d)'
             /\ \A d \in settled' : \A k \in Registered : d \in edits[k] => d \in edits'[k]
             /\ TornListed => TornListed'
  BY <1>r, <1>h DEF EditsLeft, TornListed
<1>1. CASE Requests
  <2>1. PICK j : Queues(j)
    BY <1>0, <1>1, RequestMoves
  <2>2. UNCHANGED <<edits, hidden, torn, listed>>
    BY <1>0, <2>1, QueuesMoves
  <2> QED
    BY <1>0, <1>h, <2>2 DEF CalmEdits
<1>2. CASE \E d \in Docs, t \in Dirs : Hide(d, t)
  <2> PICK d \in Docs, t \in Dirs : Hide(d, t)
    BY <1>2
  <2>1. /\ member[d] = t /\ ~Concerned(d) /\ UNCHANGED <<member, torn, listed>>
        /\ edits' = [edits EXCEPT ![t] = @ \cup {d}] /\ hidden' = hidden \cup {d}
    BY DEF Hide, Allowed, registry
  <2>2. ~Idle => d \notin job.docs
    BY <1>0, <2>1 DEF Concerned, Waiting, Place
  <2>3. \A k \in Dirs : edits'[k] = IF k = t THEN edits[k] \cup {d} ELSE edits[k]
    BY <1>0, <2>1 DEF Indexes
  <2>4. \A k \in Dirs : \A x : x \in edits[k] => x \in edits'[k]
    BY <2>3
  <2> QED
    BY <1>0, <1>r, <1>h, <2>1, <2>2, <2>3, <2>4 DEF CalmEdits
<1>3. CASE \E j \in pending : Prepare(j)
  <2> PICK j \in pending : Prepare(j)
    BY <1>3
  <2>1. /\ edits' = [edits EXCEPT ![General] = @ \ j.docs] /\ settled' = settled \ j.docs
        /\ hidden' \subseteq hidden /\ Idle /\ UNCHANGED <<torn, listed>>
    BY DEF Prepare
  <2>2. \A k \in Dirs : edits'[k] = edits[k] \/ edits'[k] = edits[k] \ j.docs
    BY <1>0, <2>1, Distinct DEF Indexes
  <2> QED
    BY <1>0, <1>h, <2>1, <2>2 DEF CalmEdits
<1>4. CASE RemoveDirectory
  <2>1. dropping \notin Registered /\ dropping \in Dirs
    BY <1>0, <1>4, Distinct DEF Categories, Registered, Papers, RemoveDirectory
  <2>2. \A k \in Dirs : edits'[k] = IF k = dropping THEN {} ELSE edits[k]
    BY <1>0, <1>4, <2>1 DEF RemoveDirectory, Indexes
  <2>3. settled \subseteq Docs /\ settled' = settled /\ hidden' = hidden /\ listed' = listed \ {dropping}
    BY <1>0, <1>4 DEF RemoveDirectory, Papers
  <2>4. ASSUME NEW d \in Docs
        PROVE  /\ \A t \in torn[d] : t # dropping => t \in torn'[d]
               /\ dropping \in torn[d] \/ Nothing \in torn[d] => Nothing \in torn'[d]
               /\ \A t \in torn'[d] \cap Dirs : t \in torn[d] /\ t # dropping
    <3>1. torn'[d] = {IF t = dropping THEN Nothing ELSE t : t \in torn[d]}
      BY <1>4, <2>4 DEF RemoveDirectory
    <3>2. Nothing # dropping /\ Nothing \notin Dirs
      BY <1>4, Distinct DEF RemoveDirectory
    <3> QED
      BY <3>1, <3>2
  <2>5. ASSUME NEW d \in settled, EditsLeft(d) PROVE EditsLeft(d)'
    <3>1. d \in Docs
      BY <2>3
    <3>2. CASE Nothing \in torn[d]
      BY <2>4, <3>1, <3>2 DEF EditsLeft
    <3>3. ASSUME NEW t \in torn[d] \cap Dirs, d \in edits[t] PROVE EditsLeft(d)'
      BY <2>2, <2>4, <3>1, <3>3 DEF EditsLeft
    <3> QED
      BY <2>5, <3>2, <3>3 DEF EditsLeft
  <2>6. TornListed => TornListed'
    BY <2>3, <2>4 DEF TornListed
  <2> QED
    BY <1>0, <1>r, <2>1, <2>2, <2>3, <2>5, <2>6 DEF CalmEdits
<1>5. CASE Forget
  <2>1. deleting.doc # Nothing /\ UNCHANGED <<settled, hidden, job, torn, listed>>
    BY <1>0, <1>5 DEF Forget, Leaves, ghosts, work, indexes
  <2>2. deleting.doc \notin settled /\ \A j \in pending : deleting.doc \notin j.docs
    BY <1>0, <2>1 DEF Leaves
  <2>3. ~Idle => deleting.doc \notin job.docs
    BY <1>0, <2>2 DEF Place
  <2>4. \A k \in Dirs : edits'[k] = edits[k] \/ edits'[k] = edits[k] \ {deleting.doc}
    BY <1>0, <1>5, Distinct DEF Forget, Indexes
  <2> QED
    BY <1>0, <1>r, <1>h, <2>1, <2>2, <2>3, <2>4 DEF CalmEdits
<1>6. CASE UNCHANGED <<edits, torn, listed>> /\ hidden' \subseteq hidden
  BY <1>0, <1>h, <1>6 DEF CalmEdits
<1> QED
  BY <1>1, <1>2, <1>3, <1>4, <1>5, <1>6
  DEF Beside, DeleteDoc, Ingest, Abandon, CreateCategory, DeleteCategory, Erase, vars, files, ghosts,
      indexes

\* The invariant about edits, in steps beside the job.
LEMMA BesideCarried ==
    ASSUME RInv, EInv, CalmEdits
    PROVE  EInv'
<1>0. Indexes /\ Papers /\ Place /\ Plan /\ Categories
  BY DEF RInv
<1>p. EditsSomewhere /\ TornListed /\ Carried /\ Calm
  BY DEF EInv, CalmEdits
<1>r. Registered \subseteq Dirs /\ settled \subseteq Docs
  BY <1>0, Distinct DEF Registered, Indexes, Papers
<1>j. ~Idle => job \in pending /\ job.to \in Registered
  BY <1>0 DEF Place, Categories
<1>m. \A d \in settled' : d \in settled /\ member'[d] = member[d] /\ member[d] \in Registered
  BY <1>0, <1>p, <1>r DEF Calm, Categories
<1>o. UNCHANGED <<job, pc, Into, From, Moving, Idle>>
  BY <1>p DEF Calm, Idle, Into, From, Moving
<1>q. Handed' = Handed
  BY <1>p, <1>o DEF Calm, Handed
<1>1. ASSUME NEW d \in settled' PROVE EditsTaken(d) => EditsTaken(d)'
  <2> SUFFICES ASSUME EditsTaken(d) PROVE EditsTaken(d)'
    OBVIOUS
  <2>1. d \in Handed /\ d \in edits[job.to] /\ ~Idle
    BY HandedIs DEF EditsTaken
  <2> QED
    BY <1>j, <1>o, <1>q, <1>1, <2>1 DEF EditsTaken, CalmEdits
<1>3. EditsSomewhere'
  <2> SUFFICES ASSUME NEW d \in settled' \cap hidden'
               PROVE  EditsHome(d)' \/ EditsTaken(d)' \/ EditsLeft(d)'
    BY DEF EditsSomewhere
  <2>1. CASE d \notin hidden
    BY <2>1 DEF CalmEdits, EditsHome
  <2>2. CASE d \in hidden
    <3>1. EditsHome(d) \/ EditsTaken(d) \/ EditsLeft(d)
      BY <1>p, <1>m, <2>2 DEF EditsSomewhere
    <3>2. EditsHome(d) => EditsHome(d)'
      BY <1>m DEF EditsHome, CalmEdits
    <3> QED
      BY <1>1, <3>1, <3>2 DEF CalmEdits
  <2> QED
    BY <2>1, <2>2
<1>4. pc' = "uncarry" => (edits[From] \cap Moving)' \subseteq edits'[Into']
  <2> SUFFICES ASSUME pc' = "uncarry" PROVE edits'[From] \cap Moving \subseteq edits'[Into]
    BY <1>o
  <2>1. /\ pc = "uncarry" /\ Into \in Registered /\ From \in Dirs /\ ~Idle
        /\ Moving \subseteq job.docs
    BY <1>0, <1>o, WritesRegistered, Writes DEF Leaving, Stepping, Plan, Moving, From
  <2>2. edits[From] \cap Moving \subseteq edits[Into]
    BY <1>p, <2>1 DEF Carried
  <2> QED
    BY <2>1, <2>2 DEF CalmEdits
<1>5. ASSUME NEW d \in Handed' \cap settled' \cap hidden'
      PROVE  EditsTaken(d)' \/ EditsLeft(d)'
  <2>1. d \in Handed /\ d \in settled /\ ~Idle /\ d \in job.docs
    BY <1>m, <1>q, <1>5, HandedIs
  <2>2. d \in hidden
    BY <1>5, <2>1 DEF CalmEdits
  <2> QED
    BY <1>p, <1>1, <1>5, <2>1, <2>2 DEF Carried, CalmEdits
<1>6. TornListed'
  BY <1>p DEF CalmEdits
<1> QED
  BY <1>3, <1>4, <1>5, <1>6 DEF EInv, Carried

\* A job that starts has carried no edits.
LEMMA StartCarried ==
    ASSUME RInv, EInv, \E j \in pending : Start(j)
    PROVE  EInv'
<1> PICK j \in pending : Start(j)
  OBVIOUS
<1>0. Papers /\ EditsSomewhere /\ TornListed
  BY DEF RInv, EInv
<1>1. /\ Idle /\ pc' \in {"build", "next"}
      /\ UNCHANGED <<member, listed, edits, settled, hidden, torn>>
      /\ \A d \in Docs : d \notin Handed'
  BY StartMoves
<1>2. \A d : ~EditsTaken(d)
  BY <1>1, HandedIs DEF EditsTaken
<1>3. EditsSomewhere'
  BY <1>0, <1>1, <1>2 DEF EditsSomewhere, EditsHome, EditsLeft
<1>4. Carried'
  BY <1>0, <1>1 DEF Carried, Papers
<1>5. TornListed'
  BY <1>0, <1>1 DEF TornListed
<1> QED
  BY <1>3, <1>4, <1>5 DEF EInv

\* What is handed over is handed over to a directory with an index.
LEMMA HandedListed ==
    ASSUME RInv, PInv, NEW d \in Handed
    PROVE  d \in Docs /\ job.to \in listed /\ job.to \in Dirs
<1>0. Papers /\ Place /\ Copied
  BY DEF RInv, PInv
<1>1. /\ ~Idle /\ job.kind = "transfer" /\ d \in job.docs /\ member[d] # job.to
      /\ d \in todo[member[d]] => pc = "remove" /\ group = member[d]
  BY HandedIs
<1>2. d \in Docs /\ job.to \in Dirs
  BY <1>0, <1>1, JobFields DEF Place, Papers
<1>3. CASE pc = "remove"
  BY <1>0, <1>1, <1>2, <1>3 DEF Place, Leaving, Into
<1>4. CASE d \notin todo[member[d]]
  BY <1>0, <1>1, <1>2, <1>4 DEF Passed, Copied
<1> QED
  BY <1>1, <1>2, <1>3, <1>4

\* A transfer that is cut off has left the edits where torn says.
LEMMA CutCarried ==
    ASSUME RInv, PInv, EInv, Tear, UNCHANGED <<member, edits, settled, hidden>>,
           listed \subseteq listed', pc' = "idle"
    PROVE  EInv'
<1>0. Papers /\ Place /\ EditsSomewhere /\ TornListed
  BY DEF RInv, EInv
<1>1. \A d \in Docs : torn'[d] = IF d \in Handed THEN torn[d] \cup {job.to} ELSE torn[d]
  BY <1>0, TearMoves
<1>2. EditsSomewhere'
  <2> SUFFICES ASSUME NEW d \in settled \cap hidden PROVE EditsHome(d)' \/ EditsLeft(d)'
    BY DEF EditsSomewhere
  <2>0. d \in Docs
    BY <1>0 DEF Papers
  <2>1. CASE EditsHome(d)
    BY <2>1 DEF EditsHome
  <2>2. CASE EditsTaken(d)
    <3>1. d \in Handed /\ d \in edits[job.to] /\ job.to \in Dirs
      BY <2>2, HandedListed DEF EditsTaken
    <3> QED
      BY <1>1, <2>0, <3>1 DEF EditsLeft
  <2>3. CASE EditsLeft(d)
    BY <1>1, <2>0, <2>3 DEF EditsLeft
  <2> QED
    BY <1>0, <2>1, <2>2, <2>3 DEF EditsSomewhere
<1>3. TornListed'
  BY <1>0, <1>1, HandedListed DEF TornListed
<1>4. Handed' = {} /\ pc' # "uncarry"
  BY DEF Handed, Idle
<1> QED
  BY <1>2, <1>3, <1>4 DEF EInv, Carried

\* The membership that a transfer sets is the directory of the edits.
LEMMA EndCarried ==
    ASSUME RInv, PInv, EInv, Ends
    PROVE  EInv'
<1>0. Indexes /\ Papers /\ Place /\ Plan /\ Categories /\ OnlyKnown /\ Fresh
  BY DEF RInv
<1>p. EditsSomewhere /\ TornListed /\ Carried /\ Planned
  BY DEF EInv, PInv
<1>e. pc' = "idle" /\ listed \subseteq listed' /\ ~Idle /\ edits' = edits /\ hidden' = hidden
  BY <1>0, EndMoves DEF Done, End
<1>j. job \in pending /\ job \in Jobs /\ job.to \in Registered /\ job.to \in Dirs /\ job.docs \subseteq Docs
  BY <1>0, <1>e, JobFields DEF Place, Papers, Categories
<1>s. settled \subseteq Docs
  BY <1>0 DEF Papers
<1>1. Carried'
  <2>1. Handed' = {} /\ pc' # "uncarry"
    BY <1>e DEF Handed, Idle
  <2> QED
    BY <2>1 DEF Carried
<1>2. CASE Fail
  BY <1>2, <1>e, CutCarried DEF Fail, registry
<1>3. CASE Refused
  BY <1>3, <1>e, CutCarried DEF Refused, registry
<1>4. CASE Prune
  <2>1. /\ UNCHANGED <<member, settled, torn, listed>> /\ job.kind = "reindex"
    BY <1>0, <1>4, <1>e DEF Prune, registry, ghosts, Place
  <2>2. \A d : ~EditsTaken(d)
    BY <2>1, HandedIs DEF EditsTaken
  <2>3. EditsSomewhere' /\ TornListed'
    BY <1>p, <1>e, <2>1, <2>2 DEF EditsSomewhere, EditsHome, EditsLeft, TornListed
  <2> QED
    BY <1>1, <2>3 DEF EInv
<1>5. CASE SetMembership
  <2>g. TargetOf(job) = job.to
    BY <1>j DEF TargetOf
  <2>0. /\ member' = CASE job.kind = "transfer" ->
                            [x \in Docs |-> IF x \in job.docs THEN job.to ELSE member[x]]
                       [] job.kind = "ingested" /\ job.to # General ->
                            [x \in Docs |-> IF x \in job.docs THEN job.to ELSE member[x]]
                       [] OTHER -> member
        /\ settled' = IF job.kind = "ingested" THEN settled \cup (job.docs \cap md) ELSE settled
        /\ pc = "member" /\ listed' = listed
    BY <1>5, <1>j, <2>g DEF SetMembership, indexes
  <2>1. CASE job.kind = "transfer"
    <3>0. torn' = [x \in Docs |-> IF x \in job.docs /\ member[x] # job.to
                                   THEN torn[x] \ {job.to} ELSE torn[x]]
      BY <1>5, <1>j, <2>1 DEF SetMembership
    <3>1. ASSUME NEW d \in settled \cap hidden PROVE EditsHome(d)' \/ EditsLeft(d)'
      <4>0. d \in Docs /\ member[d] \in Dirs
        BY <1>0, <1>s DEF Indexes
      <4>1. CASE d \in job.docs /\ member[d] # job.to
        <5>1. member'[d] = job.to /\ torn'[d] = torn[d] \ {job.to}
          BY <2>0, <2>1, <3>0, <4>0, <4>1
        <5>2. d \in Handed
          BY <1>e, <1>p, <2>0, <2>1, <4>0, <4>1, NoGroupsType, HandedIs DEF Planned
        <5>3. EditsTaken(d) \/ EditsLeft(d)
          BY <1>p, <5>2 DEF Carried
        <5>4. d \in edits[job.to] => EditsHome(d)'
          BY <1>e, <5>1 DEF EditsHome
        <5>5. CASE EditsTaken(d)
          BY <5>4, <5>5 DEF EditsTaken
        <5>6. CASE EditsLeft(d)
          BY <1>e, <1>j, <5>1, <5>4, <5>6, Distinct DEF EditsLeft
        <5> QED
          BY <5>3, <5>5, <5>6
      <4>2. CASE ~(d \in job.docs /\ member[d] # job.to)
        <5>1. member'[d] = member[d] /\ torn'[d] = torn[d]
          BY <2>0, <2>1, <3>0, <4>0, <4>2
        <5>2. ~EditsTaken(d)
          BY <4>2, HandedIs DEF EditsTaken
        <5> QED
          BY <1>p, <1>e, <5>1, <5>2 DEF EditsSomewhere, EditsHome, EditsLeft
      <4> QED
        BY <4>1, <4>2
    <3>2. EditsSomewhere'
      BY <1>e, <2>0, <2>1, <3>1 DEF EditsSomewhere
    <3>3. TornListed'
      BY <1>p, <2>0, <3>0 DEF TornListed
    <3> QED
      BY <1>1, <3>2, <3>3 DEF EInv
  <2>2. CASE job.kind = "ingested"
    <3>0. torn' = [x \in Docs |-> IF x \in job.docs THEN {} ELSE torn[x]]
      BY <1>5, <2>2 DEF SetMembership
    <3>1. ASSUME NEW d \in settled' \cap hidden PROVE EditsHome(d)' \/ EditsLeft(d)'
      <4>1. d \notin job.docs
        BY <1>0, <1>j, <2>2, <3>1 DEF Fresh
      <4>2. d \in settled /\ d \in Docs
        BY <1>s, <2>0, <2>2, <3>1, <4>1
      <4>3. member'[d] = member[d] /\ torn'[d] = torn[d]
        BY <2>0, <2>2, <3>0, <4>1, <4>2
      <4>4. ~EditsTaken(d)
        BY <2>2, HandedIs DEF EditsTaken
      <4> QED
        BY <1>p, <1>e, <3>1, <4>2, <4>3, <4>4 DEF EditsSomewhere, EditsHome, EditsLeft
    <3>2. EditsSomewhere'
      BY <1>e, <3>1 DEF EditsSomewhere
    <3>3. TornListed'
      BY <1>p, <2>0, <3>0 DEF TornListed
    <3> QED
      BY <1>1, <3>2, <3>3 DEF EInv
  <2>3. CASE job.kind \notin {"transfer", "ingested"}
    <3>1. Tear /\ UNCHANGED <<member, settled>>
      BY <1>5, <2>0, <2>3 DEF SetMembership
    <3> QED
      BY <1>e, <3>1, CutCarried
  <2> QED
    BY <2>1, <2>2, <2>3
<1> QED
  BY <1>2, <1>3, <1>4, <1>5 DEF Ends

\* The documents that a transfer hands over.
LEMMA WorkHanded ==
    ASSUME RInv, PInv, Works, NEW d \in Docs
    PROVE  d \in Handed' <=> d \in Handed \/ (DropCarried /\ d \in Moving)
<1>0. Indexes /\ Papers /\ Place /\ Plan
  BY DEF RInv
<1>u. UNCHANGED <<member, job>> /\ ~Idle /\ ~Idle' /\ member[d] \in Dirs
  BY <1>0, WorkMoves DEF registry, Idle, Indexes
<1>h. d \in Handed' <=> /\ job.kind = "transfer" /\ d \in job.docs /\ member[d] # job.to
                        /\ d \in todo'[member[d]] => pc' = "remove" /\ group' = member[d]
  BY <1>u DEF Handed
<1>1. CASE job.kind # "transfer"
  BY <1>0, <1>h, <1>1, HandedIs DEF DropCarried, Place, Leaving
<1>2. CASE job.kind = "transfer" /\ DropCarried
  <2>1. /\ pc = "uncarry" /\ pc' = "remove" /\ UNCHANGED <<todo, group>>
        /\ group \in Dirs /\ Moving = todo[group]
    BY <1>0, <1>2 DEF DropCarried, Go, Place, Stepping, Moving
  <2>2. d \in Moving => d \in job.docs /\ member[d] = group /\ member[d] # job.to
    BY <1>0, <1>u, <1>2, <2>1 DEF Plan
  <2> QED
    BY <1>u, <1>h, <1>2, <2>1, <2>2, HandedIs
<1>3. CASE job.kind = "transfer" /\ RemoveRows
  <2>1. /\ pc = "remove" /\ pc' = "next" /\ group \in Dirs
        /\ todo' = [todo EXCEPT ![group] = {}]
    BY <1>3, RemoveMoves
  <2>2. todo'[member[d]] = IF member[d] = group THEN {} ELSE todo[member[d]]
    BY <1>0, <1>u, <2>1 DEF Place
  <2>3. ~DropCarried
    BY <2>1 DEF DropCarried
  <2> QED
    BY <1>u, <1>h, <1>3, <2>1, <2>2, <2>3, HandedIs
<1>4. CASE job.kind = "transfer" /\ ~DropCarried /\ ~RemoveRows
  <2>1. todo' = todo /\ pc # "remove" /\ pc' # "remove"
    BY <1>4 DEF Works, Build, NextGroup, Incremental, FirstBuild, WriteManifest, CarryEdits,
                AfterIndex, Go
  <2> QED
    BY <1>u, <1>h, <1>4, <2>1, HandedIs
<1> QED
  BY <1>1, <1>2, <1>3, <1>4

\* The edits of the documents of a transfer, step by step.
LEMMA WorkCarried ==
    ASSUME RInv, PInv, EInv, Works
    PROVE  EInv'
<1>0. Indexes /\ Papers /\ Place /\ Plan /\ HomesListed /\ Copied
  BY DEF RInv, PInv
<1>p. EditsSomewhere /\ TornListed /\ Carried
  BY DEF EInv
<1>w. /\ UNCHANGED <<member, settled, hidden, torn, job>> /\ listed \subseteq listed' /\ ~Idle
  BY <1>0, WorkHomes, WorkMoves
<1>s. settled \subseteq Docs /\ \A d \in settled : member[d] \in Dirs
  BY <1>0 DEF Papers, Indexes
<1>t. TornListed'
  BY <1>p, <1>w DEF TornListed
<1>h. ASSUME \A d \in settled \cap hidden : EditsHome(d) => EditsHome(d)',
             \A d \in settled : \A k \in listed \cap Dirs : d \in edits[k] => d \in edits'[k],
             ~DropCarried, pc' = "uncarry" => (edits[From] \cap Moving)' \subseteq edits'[Into']
      PROVE  EInv'
  <2>1. ASSUME NEW d \in settled PROVE EditsTaken(d) => EditsTaken(d)'
    BY <1>h, <1>w, <1>s, <2>1, HandedListed, WorkHanded DEF EditsTaken
  <2>2. ASSUME NEW d \in settled PROVE EditsLeft(d) => EditsLeft(d)'
    BY <1>h, <1>p, <1>w, <1>s, <2>2 DEF EditsLeft, TornListed
  <2>3. EditsSomewhere'
    BY <1>h, <1>p, <1>w, <2>1, <2>2 DEF EditsSomewhere
  <2>4. \A d \in settled : d \in Handed' => d \in Handed
    BY <1>h, <1>s, WorkHanded
  <2>5. Carried'
    BY <1>h, <1>p, <1>w, <2>1, <2>2, <2>4 DEF Carried
  <2> QED
    BY <1>t, <2>3, <2>5 DEF EInv
<1>1. CASE Build \/ FirstBuild \/ Incremental \/ NextGroup \/ RemoveRows
  <2>1. UNCHANGED edits /\ ~DropCarried /\ pc' # "uncarry"
    BY <1>1 DEF Build, FirstBuild, Incremental, NextGroup, RemoveRows, AfterIndex, Go, files, DropCarried
  <2> QED
    BY <1>h, <1>w, <2>1 DEF EditsHome
<1>2. CASE WriteManifest
  <2>1. Into \in Dirs /\ From \in Dirs /\ Into \notin listed
    BY <1>0, <1>2, Writes DEF WriteManifest, Stepping, Copied
  <2>2. \A k \in Dirs : k # Into => edits'[k] = edits[k]
    BY <1>0, <1>2, <2>1 DEF WriteManifest, Indexes
  <2>3. \A d \in settled : member[d] # Into
    BY <1>0, <2>1 DEF HomesListed
  <2>4. \A d \in settled \cap hidden : EditsHome(d) => EditsHome(d)'
    BY <1>w, <1>s, <2>2, <2>3 DEF EditsHome
  <2>5. pc' # "uncarry" /\ ~DropCarried
    BY <1>2 DEF WriteManifest, AfterIndex, Go, DropCarried
  <2> QED
    BY <1>h, <2>1, <2>2, <2>4, <2>5
<1>3. CASE CarryEdits
  <2>1. Into \in Dirs /\ From \in Dirs /\ UNCHANGED <<Into, From, Moving>>
    BY <1>0, <1>3, Writes DEF CarryEdits, Go, Stepping, Into, From, Moving
  <2>2. \A k \in Dirs : edits'[k] = IF k = Into THEN edits[k] \cup (edits[From] \cap Moving) ELSE edits[k]
    BY <1>0, <1>3, <2>1 DEF CarryEdits, Indexes
  <2>3. \A d \in settled \cap hidden : EditsHome(d) => EditsHome(d)'
    BY <1>w, <1>s, <2>2 DEF EditsHome
  <2>4. edits'[From] \cap Moving \subseteq edits'[Into]
    BY <2>1, <2>2
  <2>5. ~DropCarried
    BY <1>3 DEF CarryEdits, DropCarried
  <2> QED
    BY <1>h, <2>1, <2>2, <2>3, <2>4, <2>5
<1>4. CASE DropCarried
  <2>1. /\ From \in Dirs /\ pc = "uncarry" /\ pc' = "remove" /\ Moving \subseteq Docs
        /\ Moving = todo[From]
    BY <1>0, <1>4, Writes DEF DropCarried, Go, Stepping, Moving, From
  <2>2. job.kind = "transfer" /\ Into = job.to /\ job.to \in Dirs /\ From # job.to
    BY <1>0, <1>w, <2>1, Writes DEF Place, Leaving, Into, Plan, Stepping
  <2>3. \A k \in Dirs : edits'[k] = IF k = From THEN edits[k] \ Moving ELSE edits[k]
    BY <1>0, <1>4, <2>1 DEF DropCarried, Indexes
  <2>4. \A d \in Moving : member[d] = From /\ (d \in edits[From] => d \in edits[job.to])
    BY <1>0, <1>p, <1>w, <2>1, <2>2 DEF Plan, Carried
  <2>5. ASSUME NEW d \in settled \cap hidden, d \in Moving
        PROVE  EditsTaken(d)' \/ EditsLeft(d)'
    <3>1. CASE d \in edits[job.to]
      BY <1>s, <1>w, <1>4, <2>2, <2>3, <2>5, <3>1, WorkHanded DEF EditsTaken
    <3>2. CASE d \notin edits[job.to]
      <4>1. d \notin edits[From] /\ EditsLeft(d)
        BY <1>p, <2>4, <2>5, <3>2 DEF EditsSomewhere, EditsHome, EditsTaken
      <4> QED
        BY <1>w, <2>3, <4>1 DEF EditsLeft
    <3> QED
      BY <3>1, <3>2
  <2>6. ASSUME NEW d \in settled \cap hidden, d \notin Moving
        PROVE  /\ EditsHome(d) => EditsHome(d)'
               /\ EditsTaken(d) => EditsTaken(d)'
               /\ EditsLeft(d) => EditsLeft(d)'
    <3>1. \A k \in Dirs : d \in edits[k] => d \in edits'[k]
      BY <2>3, <2>6
    <3>2. d \in Handed => d \in Handed'
      BY <1>s, <2>6, WorkHanded
    <3> QED
      BY <1>s, <1>w, <2>2, <2>6, <3>1, <3>2 DEF EditsHome, EditsTaken, EditsLeft
  <2>7. EditsSomewhere'
    BY <1>p, <1>w, <2>5, <2>6 DEF EditsSomewhere
  <2>8. \A d \in settled : d \in Handed' => d \in Handed \/ d \in Moving
    BY <1>s, WorkHanded
  <2>9. Carried'
    BY <1>p, <1>w, <2>1, <2>5, <2>6, <2>8 DEF Carried
  <2> QED
    BY <1>t, <2>7, <2>9 DEF EInv
<1> QED
  BY <1>1, <1>2, <1>3, <1>4 DEF Works

\* The invariant about edits is inductive.
LEMMA NextCarried ==
    ASSUME Incidents = {}, RInv, PInv, EInv, [Next]_vars
    PROVE  EInv'
<1>1. CASE Beside
  BY <1>1, BesideEdits, BesideCarried
<1>2. CASE \E j \in pending : Start(j)
  BY <1>2, StartCarried
<1>3. CASE Works
  BY <1>3, WorkCarried
<1>4. CASE Ends
  BY <1>4, EndCarried
<1>5. CASE Crash
  BY <1>5, CutCarried DEF Crash, End, registry, files
<1> QED
  BY <1>1, <1>2, <1>3, <1>4, <1>5 DEF Next, Beside, Requests, Works, Ends

\* The edits of a document are where the next indexing of it looks for them, or
\* with the transfer that has handed it over (move_overrides_for_sources).
THEOREM EditsCarried ==
    ASSUME Incidents = {}
    PROVE  Spec => []EditsFollow
<1>0. Spec => []RInv
  BY Invariance
<1>1. Init => EInv
  BY DEF Init, EInv, EditsSomewhere, TornListed, Carried
<1>2. RInv /\ PInv /\ EInv /\ [Next]_vars => EInv'
  BY NextCarried
<1>3. RInv /\ EInv => EditsFollow
  BY DEF EInv, EditsSomewhere, EditsHome, EditsTaken, EditsLeft, EditsFollow
<1> QED
  BY <1>1, <1>2, <1>3, <1>0, PlaceInvariance, PTL DEF Spec

=============================================================================
