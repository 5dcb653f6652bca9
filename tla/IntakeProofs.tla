---------------------------- MODULE IntakeProofs ----------------------------
(***************************************************************************)
(* Theorems about Intake, for any files, forms, sessions and bounds.       *)
(*                                                                         *)
(* SInv holds whatever happens: the types, whose jobs a registry entry     *)
(* names, and what a request has before it registers. WInv is about the    *)
(* chunks, RInv about who owns a registry entry, and RInv with There about *)
(* what is behind its status. Each but the first names the incidents of    *)
(* Intake that it does not survive.                                        *)
(***************************************************************************)
EXTENDS Intake, TLAPS, SequenceTheorems, FiniteSetTheorems

-----------------------------------------------------------------------------
(* The invariants.                                                         *)

\* The steps of a request before it registers, and of one that the registry knows.
Pending == {"staged", "checked"}
Mine == {"registered", "queued", "saved", "ingesting", "prepared", "extracted", "ingested", "indexed"}

\* The jobs of the entries of a document differ, and have got to the registry.
Issued ==
    \A d \in Content : \A j \in DOMAIN entry[d] :
        /\ req[entry[d][j].job].step \in Mine \cup {"ended"}
        /\ \A k \in DOMAIN entry[d] : entry[d][j].job = entry[d][k].job => j = k

\* What a request has before it registers, and what it may replace.
Formed ==
    \A i \in Ids :
        /\ req[i].step \in Pending => req[i].docs = staged[i] /\ req[i].forced = {} /\ ~req[i].again
        /\ req[i].step = "registered" => ~req[i].again
        /\ req[i].forced \subseteq req[i].docs /\ req[i].found \subseteq req[i].docs

\* A .part file is a beginning of its file, not shorter than its client believes
\* unless it was removed, and a client asks for completion when it has sent all.
Begun ==
    \A s \in Sessions :
        /\ part[s] = [k \in 1..Len(part[s]) |-> k]
        /\ part[s] # <<>> => client[s].offset <= Len(part[s])
        /\ client[s].step = "completing" => client[s].offset = Chunks

\* Nothing but whole files is requested or registered (a crash makes requests
\* from the registry).
OnlyWhole ==
    /\ \A i \in Live : \A d \in req[i].docs : d.size = Chunks
    /\ \A d \in Content : entry[d] # <<>> => d.size = Chunks

\* A request that has registered owns the first entry of each of its documents,
\* with a status that fits its step, and replaces what is behind it.
Heads ==
    \A i \in Ids : req[i].step \in Mine => \A d \in req[i].docs :
        /\ JobOf(d) = i /\ StatusOf(d) \in Recoverable
        /\ req[i].step = "registered" => StatusOf(d) = "queued"
        /\ req[i].step \in {"ingesting", "prepared", "extracted"} => StatusOf(d) = "ingesting"
        /\ req[i].step \in {"ingested", "indexed"} => StatusOf(d) = "ingested"
        /\ Len(entry[d]) > 1 => d \in req[i].forced

\* An entry replaces at most one, which is not on its way, and only as long as it
\* is on its way itself.
Stacked ==
    \A d \in Content :
        /\ Len(entry[d]) <= 2
        /\ Len(entry[d]) = 2 => StatusOf(d) \in Active /\ entry[d][2].status \notin Active

\* A document that is on its way has somebody who brings it.
Brought ==
    \A d \in Content : StatusOf(d) \in Active => req[JobOf(d)].step \in Mine /\ d \in req[JobOf(d)].docs

\* A request that has only just registered is named where it registered.
Fresh ==
    \A d \in Content : \A j \in DOMAIN entry[d] :
        req[entry[d][j].job].step = "registered" => d \in req[entry[d][j].job].docs /\ j = 1

\* What the registry's recovery may make a job of has its PDF.
Filed ==
    \A d \in Content : \A j \in DOMAIN entry[d] :
        entry[d][j].status \in Recoverable => d \in staged[entry[d][j].job] \cup saved[entry[d][j].job]

\* What a status says of the rows and of the Markdown.
Is(d, status) ==
    /\ status = "indexed" => d \in rows
    /\ status = "ingested" => d \in md

\* The steps of a job before it removes the old version.
Unspoilt == {"registered", "queued", "saved", "ingesting"}

\* A status is true, and so is the one that a job puts back which gives up before
\* it has removed the old version; between a step and its mark a job has what the
\* mark will say.
There ==
    /\ \A d \in Content : entry[d] # <<>> => Is(d, StatusOf(d))
    /\ \A d \in Content :
           Len(entry[d]) = 2 /\ ~req[JobOf(d)].again /\ req[JobOf(d)].step \in Unspoilt
               => Is(d, entry[d][2].status)
    /\ \A i \in Ids : req[i].step = "extracted" => req[i].docs \subseteq md
    /\ \A i \in Ids : req[i].step = "indexed" => req[i].docs \subseteq rows

-----------------------------------------------------------------------------
(* What the operators on registry entries do.                              *)

\* The statuses, and what marking an entry e makes of it.
Statuses == Blocking \cup {"failed", "interrupted"}
Marked(e, i, status, r) ==
    \/ e = <<>> /\ r = e
    \/ e # <<>> /\ e[1].job # i /\ r = e
    \/ /\ e # <<>> /\ e[1].job = i
       /\ \/ /\ status \in {"failed", "interrupted"} /\ Len(e) > 1 /\ Len(r) = Len(e) - 1
             /\ \A j \in 1..Len(r) : r[j] = e[j + 1]
          \/ status = "failed" /\ e[1].status \in {"ingested", "indexed"} /\ r = e
          \/ status \in {"ingested", "indexed"} /\ Len(r) = 1 /\ r[1] = [status |-> status, job |-> i]
          \/ /\ status \notin {"ingested", "indexed"}
             /\ status \in {"failed", "interrupted"} => Len(e) = 1
             /\ Len(r) = Len(e) /\ r[1] = [status |-> status, job |-> i]
             /\ \A j \in 2..Len(e) : r[j] = e[j]

\* What marking does to an entry.
LEMMA MarkMoves ==
    ASSUME NEW e \in Seq(Entries), NEW i \in Ids, NEW status \in Statuses
    PROVE  Mark(e, i, status) \in Seq(Entries) /\ Marked(e, i, status, Mark(e, i, status))
<1>1. CASE e = <<>>
  BY <1>1 DEF Mark, Marked
<1>2. CASE e # <<>> /\ e[1].job # i
  BY <1>2 DEF Mark, Marked
<1>3. CASE e # <<>> /\ e[1].job = i
  <2> DEFINE x == [e[1] EXCEPT !.status = status]
             y == <<x>>
             z == y \o Tail(e)
  <2>1. Len(e) \in Nat /\ Len(e) > 0 /\ e[1] \in Entries
    BY <1>3, EmptySeq, LenProperties
  <2>2. x = [status |-> status, job |-> i] /\ x \in Entries
    BY <2>1, <1>3 DEF Entries, Statuses
  <2>3. y \in Seq(Entries) /\ Len(y) = 1 /\ y[1] = x
    BY <2>2
  <2>4. Tail(e) \in Seq(Entries) /\ Len(Tail(e)) = Len(e) - 1 /\ \A j \in 1..Len(e) - 1 : Tail(e)[j] = e[j + 1]
    BY <2>1, HeadTailProperties, <1>3
  <2>5. z \in Seq(Entries) /\ Len(z) = Len(e) /\ z[1] = x /\ \A j \in 2..Len(e) : z[j] = e[j]
    <3>1. z \in Seq(Entries) /\ Len(z) = 1 + Len(Tail(e))
      BY <2>3, <2>4, ConcatProperties
    <3>2. \A j \in 1..Len(z) : z[j] = IF j <= 1 THEN y[j] ELSE Tail(e)[j - 1]
      BY <2>3, <2>4, ConcatProperties
    <3>3. ASSUME NEW j \in 2..Len(e) PROVE z[j] = e[j]
      BY <3>1, <3>2, <2>4, <2>1
    <3> QED
      BY <3>1, <3>2, <3>3, <2>3, <2>4, <2>1
  <2> DEFINE r == Mark(e, i, status)
  <2>6. CASE status = "interrupted" /\ Len(e) > 1
    <3>1. r = Tail(e)
      BY <2>6, <1>3 DEF Mark
    <3> QED
      BY <3>1, <2>4, <2>6, <1>3 DEF Marked
  <2>7. CASE status = "failed" /\ e[1].status \in {"ingested", "indexed"}
    <3>1. r = e
      BY <2>7, <1>3 DEF Mark
    <3> QED
      BY <3>1, <2>7, <1>3 DEF Marked
  <2>8. CASE status = "failed" /\ e[1].status \notin {"ingested", "indexed"} /\ Len(e) > 1
    <3>1. r = Tail(e)
      BY <2>8, <1>3 DEF Mark
    <3> QED
      BY <3>1, <2>4, <2>8, <1>3 DEF Marked
  <2>9. CASE status \in {"ingested", "indexed"}
    <3>1. r = y
      BY <2>9, <1>3 DEF Mark
    <3> QED
      BY <3>1, <2>2, <2>3, <2>9, <1>3 DEF Marked
  <2>10. CASE /\ status \notin {"ingested", "indexed"}
              /\ status \in {"failed", "interrupted"} => Len(e) = 1
              /\ ~(status = "failed" /\ e[1].status \in {"ingested", "indexed"})
    <3>1. r = z
      BY <2>10, <1>3, <2>1 DEF Mark
    <3> HIDE DEF r, z, y, x
    <3>2. Len(r) = Len(e) /\ r[1] = [status |-> status, job |-> i] /\ \A j \in 2..Len(e) : r[j] = e[j]
      BY <3>1, <2>5, <2>2
    <3>3. Marked(e, i, status, r)
      BY <3>2, <1>3, <2>10 DEF Marked
    <3> QED
      BY <3>1, <3>3, <2>5 DEF r
  <2>11. Len(e) > 1 \/ Len(e) = 1
    <3>1. \A n \in Nat : n > 0 => n > 1 \/ n = 1
      OBVIOUS
    <3> QED
      BY <2>1, <3>1, Zenon
  <2> QED
    BY <2>6, <2>7, <2>8, <2>9, <2>10, <2>11
<1> QED
  BY <1>1, <1>2, <1>3

\* What registering does to an entry.
LEMMA RegisterMoves ==
    ASSUME NEW e \in Seq(Entries), NEW i \in Ids, NEW forced \in BOOLEAN
    PROVE  /\ Registered(e, i, forced) \in Seq(Entries)
           /\ Registered(e, i, forced)[1] = [status |-> "queued", job |-> i]
           /\ ~forced => Len(Registered(e, i, forced)) = 1
           /\ forced => /\ Len(Registered(e, i, forced)) = Len(e) + 1
                        /\ \A j \in 1..Len(e) : Registered(e, i, forced)[j + 1] = e[j]
<1> DEFINE x == [status |-> "queued", job |-> i]
           y == <<x>>
<1>1. x \in Entries
  BY DEF Entries, Blocking
<1>2. y \in Seq(Entries) /\ Len(y) = 1 /\ y[1] = x
  BY <1>1
<1>3. CASE ~forced
  <2>1. Registered(e, i, forced) = y \o <<>>
    BY <1>3 DEF Registered
  <2>2. y \o <<>> = y
    BY <1>2, ConcatEmptySeq
  <2> QED
    BY <2>1, <2>2, <1>2, <1>3
<1>4. CASE forced
  <2> DEFINE z == y \o e
  <2>1. Registered(e, i, forced) = z
    BY <1>4 DEF Registered
  <2>2. z \in Seq(Entries) /\ Len(z) = 1 + Len(e)
    BY <1>2, ConcatProperties
  <2>3. \A j \in 1..Len(z) : z[j] = IF j <= 1 THEN y[j] ELSE e[j - 1]
    BY <1>2, ConcatProperties
  <2>4. z[1] = x
    BY <2>2, <2>3, <1>2, LenProperties
  <2>5. ASSUME NEW j \in 1..Len(e) PROVE z[j + 1] = e[j]
    BY <2>2, <2>3, LenProperties
  <2> QED
    BY <2>1, <2>2, <2>4, <2>5, <1>4, LenProperties
<1> QED
  BY <1>3, <1>4

-----------------------------------------------------------------------------
(* The types.                                                              *)

\* A browser, its requests in flight, the counters, ...
Clients == [file : Files, offset : 0..Chunks, step : {"sending", "waiting", "completing", "done"}]
Wires == [0..(Chunks - 1) -> Nat]
Counts == [{"tries", "resends", "faults", "crashes"} -> Nat]

\* ... and the parts of the state.
ChunkTypes ==
    /\ part \in [Sessions -> Seq(1..Chunks)] /\ client \in [Sessions -> Clients]
    /\ wire \in [Sessions -> Wires] /\ meta \subseteq Sessions
    /\ \A s \in Sessions : Len(part[s]) <= Chunks
RequestTypes ==
    req \in [Ids -> Requests] /\ tokens \subseteq Grants /\ agreed \in [Ids -> SUBSET Content]
DiskTypes ==
    /\ staged \in [Ids -> SUBSET Content] /\ saved \in [Ids -> SUBSET Content]
    /\ md \subseteq Content /\ rows \subseteq Content
EntryTypes == entry \in [Content -> Seq(Entries)]
CountTypes == count \in Counts

\* A .part file that is there has a size that a document may have.
LEMMA ContentSizes == \A s \in Sessions : ChunkTypes /\ part[s] # <<>> => ContentOf(s) \in Content
<1> SUFFICES ASSUME NEW s \in Sessions, ChunkTypes, part[s] # <<>> PROVE ContentOf(s) \in Content
  OBVIOUS
<1>1. Len(part[s]) \in Nat /\ Len(part[s]) # 0 /\ Len(part[s]) <= Chunks
  BY EmptySeq DEF ChunkTypes
<1>2. Len(part[s]) \in 1..Chunks
  BY <1>1, IntakeBounds
<1> QED
  BY <1>2 DEF ContentOf, Content, ChunkTypes, Clients

\* What a form has is files.
LEMMA FormFiles ==
    ASSUME NEW form \in Forms
    PROVE  {Whole(f) : f \in Range(Unpacked(form))} \subseteq Content
<1>1. form \in Seq(Seq(Files))
  BY IntakeForms
<1>2. \A k \in DOMAIN form : form[k] \in Seq(Files)
  BY <1>1, LenProperties, ElementOfSeq
<1>3. \A k \in DOMAIN form : \A n \in DOMAIN form[k] : form[k][n] \in Files
  BY <1>2, LenProperties, ElementOfSeq
<1>4. \A f \in Range(Unpacked(form)) : f \in Files
  <2>1. SUFFICES ASSUME NEW p \in Places(form) PROVE form[p[1]][p[2]] \in Files
    BY DEF Range, Unpacked
  <2>2. PICK k \in DOMAIN form : \E n \in DOMAIN form[k] : p = <<k, n>>
    BY DEF Places
  <2> QED
    BY <2>2, <1>3
<1> QED
  BY <1>4, IntakeBounds DEF Whole, Content

\* The chunked uploads keep their types.
LEMMA ChunkTypesKept == ChunkTypes /\ RequestTypes /\ [Next]_vars => ChunkTypes'
<1> SUFFICES ASSUME ChunkTypes, RequestTypes, [Next]_vars PROVE ChunkTypes'
  OBVIOUS
<1>0. <<>> \in Seq(1..Chunks) /\ Len(<<>>) = 0
  BY EmptySeq
<1>00. ASSUME NEW s \in Sessions \cup {None},
              client' = IF s = None THEN client ELSE [client EXCEPT ![s].step = "done"]
       PROVE  client' \in [Sessions -> Clients]
  BY <1>00 DEF ChunkTypes, Clients
<1>1. CASE \E s \in Sessions : Chunk(s)
  <2> PICK s \in Sessions : Chunk(s)
    BY <1>1
  <2>0. Len(part[s]) \in 0..Chunks
    BY LenProperties DEF ChunkTypes
  <2>1. CASE SendChunk(s)
    <3>1. client[s].offset \in 0..(Chunks - 1)
      BY <2>1, IntakeBounds DEF SendChunk, ChunkTypes, Clients
    <3> DEFINE o == client[s].offset
    <3>2. wire' = [wire EXCEPT ![s] = [wire[s] EXCEPT ![o] = wire[s][o] + 1]]
      BY <2>1 DEF SendChunk
    <3>3. [wire[s] EXCEPT ![o] = wire[s][o] + 1] \in Wires
      <4>1. \A g \in Wires, n \in 0..(Chunks - 1) : [g EXCEPT ![n] = g[n] + 1] \in Wires
        BY DEF Wires
      <4> QED
        BY <4>1, <3>1 DEF ChunkTypes
    <3>5. wire' \in [Sessions -> Wires]
      BY <3>3, <3>2 DEF ChunkTypes
    <3>4. client' \in [Sessions -> Clients]
      BY <2>1 DEF SendChunk, ChunkTypes, Clients
    <3> QED
      BY <2>1, <3>5, <3>4 DEF SendChunk, ChunkTypes
  <2>2. CASE AskStatus(s)
    BY <2>2, <2>0 DEF AskStatus, ChunkTypes, Clients
  <2>3. CASE AskComplete(s)
    BY <2>3 DEF AskComplete, ChunkTypes, Clients
  <2>4. CASE Prune(s)
    BY <2>4, <1>0, IntakeBounds DEF Prune, ChunkTypes
  <2>5. CASE CompleteNothing(s)
    BY <2>5 DEF CompleteNothing, ChunkTypes, Clients
  <2>6. ASSUME NEW o \in 0..(Chunks - 1), ChunkArrives(s, o) PROVE ChunkTypes'
    <3>1. wire' \in [Sessions -> Wires] /\ meta' \subseteq Sessions
      <4>1. wire[s][o] - 1 \in Nat
        <5>1. wire[s][o] \in Nat /\ wire[s][o] > 0
          BY <2>6 DEF ChunkArrives, ChunkTypes, Wires
        <5> QED
          BY <5>1
      <4>2. wire' = [wire EXCEPT ![s] = [wire[s] EXCEPT ![o] = wire[s][o] - 1]]
        BY <2>6 DEF ChunkArrives
      <4>3. wire' \in [Sessions -> Wires]
        BY <4>1, <4>2 DEF ChunkTypes, Wires
      <4> QED
        BY <4>3, <2>6 DEF ChunkArrives, ChunkTypes
    <3>2. part' \in [Sessions -> Seq(1..Chunks)] /\ \A x \in Sessions : Len(part'[x]) <= Chunks
      <4>1. CASE Accepts(s, o)
        <5>1. o + 1 \in 1..Chunks /\ o = Len(part[s])
          BY <4>1, IntakeBounds DEF Accepts
        <5>2. Append(part[s], o + 1) \in Seq(1..Chunks) /\ Len(Append(part[s], o + 1)) = Len(part[s]) + 1
          BY <5>1, AppendProperties DEF ChunkTypes
        <5>3. part' = [part EXCEPT ![s] = Append(part[s], o + 1)]
          BY <4>1, <2>6 DEF ChunkArrives
        <5> QED
          BY <5>1, <5>2, <5>3 DEF ChunkTypes
      <4>2. CASE ~Accepts(s, o)
        BY <4>2, <2>6 DEF ChunkArrives, ChunkTypes
      <4> QED
        BY <4>1, <4>2
    <3>3. Len(part'[s]) \in 0..Chunks
      BY <3>2, LenProperties
    <3>4. client' \in [Sessions -> Clients]
      <4> DEFINE n == Len(part'[s])
      <4>1. CASE client' = client
        BY <4>1 DEF ChunkTypes
      <4>2. CASE client' = [client EXCEPT ![s].offset = n, ![s].step = "sending"]
        <5> HIDE DEF n
        <5> QED
          BY <4>2, <3>3 DEF ChunkTypes, Clients, n
      <4> QED
        BY <4>1, <4>2, <2>6 DEF ChunkArrives
    <3> QED
      BY <3>1, <3>2, <3>4 DEF ChunkTypes
  <2> QED
    BY <2>1, <2>2, <2>3, <2>4, <2>5, <2>6 DEF Chunk
<1>2. ASSUME NEW i \in Ids, Request(i) \/ Work(i) PROVE ChunkTypes'
  <2>0. req[i].session \in Sessions \cup {None}
    BY DEF RequestTypes, Requests
  <2>1. CASE \E t \in Tokens, s \in Sessions : Complete(i, s, t)
    BY <2>1, <1>0, IntakeBounds DEF Complete, ChunkTypes
  <2>2. CASE RefuseDuplicate(i) \/ RefuseOther(i)
    <3>1. client' \in [Sessions -> Clients]
      BY <2>2, <2>0, <1>00 DEF RefuseDuplicate, RefuseOther, Leave
    <3> QED
      BY <3>1, <2>2 DEF RefuseDuplicate, RefuseOther, Leave, ChunkTypes
  <2>3. CASE Enqueue(i)
    BY <2>3, <2>0, <1>00 DEF Enqueue, ChunkTypes
  <2>4. CASE NotQueued(i) \/ Indexed(i) \/ \E status \in {"failed", "interrupted"} : Stop(i, status)
    <3>1. client' \in [Sessions -> Clients]
      BY <2>4, <2>0, <1>00 DEF NotQueued, Indexed, Stop, End
    <3> QED
      BY <3>1, <2>4 DEF NotQueued, Indexed, Stop, End, ChunkTypes
  <2>5. CASE UNCHANGED chunked
    BY <2>5 DEF chunked, ChunkTypes
  <2> QED
    BY <1>2, <2>1, <2>2, <2>3, <2>4, <2>5
    DEF Request, Work, Stage, Check, Register, Copy, Unlink,
        Saved, Ingesting, Prepare, Extract, Ingested, Index
<1>3. CASE (\E f \in Forms : RefuseForm(f)) \/ (\E t \in tokens : Expire(t)) \/ UNCHANGED vars
  BY <1>3 DEF RefuseForm, Expire, vars, chunked, ChunkTypes
<1>4. CASE Crash
  <2>1. part' = part /\ meta' = {} /\ wire' \in [Sessions -> Wires]
    BY <1>4, IntakeBounds DEF Crash, Wires
  <2>2. \A s \in Sessions : Len(part[s]) \in 0..Chunks
    BY LenProperties DEF ChunkTypes
  <2>3. ASSUME NEW s \in Sessions PROVE client'[s] \in Clients
    <3>1. \/ client'[s] = [client[s] EXCEPT !.offset = Len(part[s]), !.step = "sending"]
          \/ client'[s] = [client[s] EXCEPT !.step = "completing"]
          \/ client'[s] = [client[s] EXCEPT !.step = "done"]
      BY <1>4 DEF Crash
    <3> QED
      BY <3>1, <2>2 DEF ChunkTypes, Clients
  <2>4. client' \in [Sessions -> Clients]
    BY <2>3, <1>4 DEF Crash
  <2> QED
    BY <2>1, <2>4 DEF ChunkTypes
<1> QED
  BY <1>1, <1>2, <1>3, <1>4 DEF Next

\* So do the counters.
LEMMA CountTypesKept == CountTypes /\ [Next]_vars => CountTypes'
<1> SUFFICES ASSUME CountTypes, [Next]_vars PROVE CountTypes'
  OBVIOUS
<1>1. CASE \E c \in {"tries", "resends", "faults", "crashes"}, b \in Nat : Tick(c, b)
  BY <1>1 DEF Tick, CountTypes, Counts
<1>2. CASE UNCHANGED count
  BY <1>2 DEF CountTypes
<1>3. CASE \E s \in Sessions : Chunk(s)
  BY <1>1, <1>2, <1>3, IntakeBounds
  DEF Chunk, SendChunk, AskStatus, AskComplete, Prune, CompleteNothing, ChunkArrives
<1>4. ASSUME NEW i \in Ids, Request(i) PROVE CountTypes'
  BY <1>1, <1>2, <1>4, IntakeBounds
  DEF Request, Stage, Complete, Check, RefuseDuplicate, RefuseOther, Register, Enqueue, NotQueued
<1>5. ASSUME NEW i \in Ids, Work(i) PROVE CountTypes'
  BY <1>1, <1>2, <1>5, IntakeBounds
  DEF Work, Copy, Unlink, Saved, Ingesting, Prepare, Extract, Ingested, Index, Indexed, Stop
<1>6. CASE (\E f \in Forms : RefuseForm(f)) \/ (\E t \in tokens : Expire(t)) \/ Crash \/ UNCHANGED vars
  BY <1>1, <1>2, <1>6, IntakeBounds DEF RefuseForm, Expire, Crash, vars
<1> QED
  BY <1>3, <1>4, <1>5, <1>6 DEF Next

\* Marking a request's documents.
LEMMA MarkAllMoves ==
    ASSUME EntryTypes, NEW i \in Ids, NEW status \in Statuses, MarkAll(i, status)
    PROVE  /\ entry' \in [Content -> Seq(Entries)]
           /\ \A d \in Content : d \notin req[i].docs => entry'[d] = entry[d]
           /\ \A d \in req[i].docs \cap Content : Marked(entry[d], i, status, entry'[d])
<1>1. \A d \in Content : entry[d] \in Seq(Entries)
  BY DEF EntryTypes
<1>2. \A d \in Content : Mark(entry[d], i, status) \in Seq(Entries)
  BY <1>1, MarkMoves
<1>3. \A d \in Content : Marked(entry[d], i, status, Mark(entry[d], i, status))
  BY <1>1, MarkMoves
<1> QED
  BY <1>1, <1>2, <1>3, Zenon DEF MarkAll

\* What registering does: the request replaces these documents.
Registers(i, forced) ==
    /\ req' = [req EXCEPT ![i].forced = forced, ![i].found = {}, ![i].token = None,
                          ![i].step = "registered"]
    /\ forced # {} => forced = req[i].found /\ req[i].token \in tokens /\ req[i].token.dups = forced
    /\ entry' \in [Content -> Seq(Entries)]
    /\ \A d \in Content : d \notin req[i].docs => entry'[d] = entry[d]
    /\ \A d \in req[i].docs \cap Content :
           /\ entry'[d][1] = [status |-> "queued", job |-> i]
           /\ d \notin forced => Len(entry'[d]) = 1
           /\ d \in forced => /\ Len(entry'[d]) = Len(entry[d]) + 1
                              /\ \A j \in 1..Len(entry[d]) : entry'[d][j + 1] = entry[d][j]

\* The registry after a request registered.
LEMMA RegisterEntries ==
    ASSUME EntryTypes, NEW i \in Ids, Register(i)
    PROVE  \E forced \in SUBSET req[i].found : Registers(i, forced)
<1> DEFINE forced == IF TokenValid(i) THEN req[i].found ELSE {}
           R(d) == Registered(entry[d], i, d \in forced)
<1>1. \A d \in Content : entry[d] \in Seq(Entries)
  BY DEF EntryTypes
<1>2. \A d \in Content :
          /\ R(d) \in Seq(Entries) /\ R(d)[1] = [status |-> "queued", job |-> i]
          /\ d \notin forced => Len(R(d)) = 1
          /\ d \in forced => Len(R(d)) = Len(entry[d]) + 1 /\ \A j \in 1..Len(entry[d]) : R(d)[j + 1] = entry[d][j]
  <2> TAKE d \in Content
  <2> DEFINE b == d \in forced
  <2>1. b \in BOOLEAN /\ entry[d] \in Seq(Entries)
    BY <1>1
  <2>2. R(d) = Registered(entry[d], i, b)
    OBVIOUS
  <2> HIDE DEF b, R, forced
  <2>3. /\ R(d) \in Seq(Entries) /\ R(d)[1] = [status |-> "queued", job |-> i]
        /\ ~b => Len(R(d)) = 1
        /\ b => Len(R(d)) = Len(entry[d]) + 1 /\ \A j \in 1..Len(entry[d]) : R(d)[j + 1] = entry[d][j]
    BY <2>1, <2>2, RegisterMoves
  <2> QED
    BY <2>3 DEF b
<1>3. entry' = [d \in Content |-> IF d \in req[i].docs THEN R(d) ELSE entry[d]]
  BY DEF Register
<1>4. forced # {} => forced = req[i].found /\ req[i].token \in tokens /\ req[i].token.dups = forced
  BY DEF TokenValid, Token
<1>5. req' = [req EXCEPT ![i].forced = forced, ![i].found = {}, ![i].token = None,
                         ![i].step = "registered"]
  BY DEF Register
<1>6. forced \in SUBSET req[i].found
  OBVIOUS
<1> HIDE DEF forced, R
<1>7. entry' \in [Content -> Seq(Entries)]
  BY <1>1, <1>2, <1>3
<1>8. \A d \in Content : d \notin req[i].docs => entry'[d] = entry[d]
  BY <1>3
<1>9. \A d \in req[i].docs \cap Content : entry'[d] = R(d)
  BY <1>3
<1> QED
  <2>1. \A d \in req[i].docs \cap Content :
            /\ entry'[d][1] = [status |-> "queued", job |-> i]
            /\ d \notin forced => Len(entry'[d]) = 1
            /\ d \in forced => /\ Len(entry'[d]) = Len(entry[d]) + 1
                               /\ \A j \in 1..Len(entry[d]) : entry'[d][j + 1] = entry[d][j]
    BY <1>2, <1>9
  <2> QED
    BY <1>4, <1>5, <1>6, <1>7, <1>8, <2>1 DEF Registers

\* Who changes the registry.
Marking(i, status) ==
    /\ MarkAll(i, status)
    /\ NotQueued(i) \/ Saved(i) \/ Ingesting(i) \/ Ingested(i) \/ Indexed(i) \/ Stop(i, status)

\* No other step changes the registry.
LEMMA EntryMoves ==
    [Next]_vars =>
        \/ UNCHANGED entry
        \/ \E i \in Ids : Register(i)
        \/ \E i \in Ids, status \in Statuses : Marking(i, status)
<1> SUFFICES ASSUME [Next]_vars
             PROVE  \/ UNCHANGED entry
                    \/ \E i \in Ids : Register(i)
                    \/ \E i \in Ids, status \in Statuses : Marking(i, status)
  OBVIOUS
<1>1. CASE \E s \in Sessions : Chunk(s)
  BY <1>1 DEF Chunk, SendChunk, AskStatus, AskComplete, Prune, CompleteNothing, ChunkArrives
<1>2. ASSUME NEW i \in Ids, Request(i)
      PROVE  UNCHANGED entry \/ Register(i) \/ \E status \in Statuses : Marking(i, status)
  BY <1>2 DEF Request, Stage, Complete, Check, RefuseDuplicate, RefuseOther, Enqueue, NotQueued,
              Statuses, Marking
<1>3. ASSUME NEW i \in Ids, Work(i)
      PROVE  UNCHANGED entry \/ \E status \in Statuses : Marking(i, status)
  <2>1. CASE \E d \in Content : Copy(i, d) \/ Unlink(i, d)
    BY <2>1 DEF Copy, Unlink
  <2>2. CASE Prepare(i) \/ Extract(i) \/ Index(i)
    BY <2>2 DEF Prepare, Extract, Index
  <2>3. CASE Saved(i)
    BY <2>3 DEF Saved, Marking, Statuses, Blocking
  <2>4. CASE Ingesting(i)
    BY <2>4 DEF Ingesting, Marking, Statuses, Blocking
  <2>5. CASE Ingested(i)
    BY <2>5 DEF Ingested, Marking, Statuses, Blocking
  <2>6. CASE Indexed(i)
    BY <2>6 DEF Indexed, Marking, Statuses, Blocking
  <2>7. ASSUME NEW status \in {"failed", "interrupted"}, Stop(i, status)
        PROVE  \E x \in Statuses : Marking(i, x)
    BY <2>7 DEF Stop, Marking, Statuses
  <2> QED
    BY <1>3, <2>1, <2>2, <2>3, <2>4, <2>5, <2>6, <2>7 DEF Work
<1>4. CASE (\E f \in Forms : RefuseForm(f)) \/ (\E t \in tokens : Expire(t)) \/ Crash \/ UNCHANGED vars
  BY <1>4 DEF RefuseForm, Expire, Crash, vars
<1> QED
  BY <1>1, <1>2, <1>3, <1>4 DEF Next

\* The registry keeps its type.
LEMMA EntryTypesKept == EntryTypes /\ [Next]_vars => EntryTypes'
<1> SUFFICES ASSUME EntryTypes, [Next]_vars PROVE EntryTypes'
  OBVIOUS
<1>1. CASE UNCHANGED entry
  BY <1>1 DEF EntryTypes
<1>2. ASSUME NEW i \in Ids, Register(i) PROVE EntryTypes'
  BY <1>2, RegisterEntries DEF EntryTypes, Registers
<1>3. ASSUME NEW i \in Ids, NEW status \in Statuses, Marking(i, status) PROVE EntryTypes'
  <2>1. MarkAll(i, status)
    BY <1>3 DEF Marking
  <2> QED
    BY <2>1, MarkAllMoves DEF EntryTypes
<1> QED
  BY <1>1, <1>2, <1>3, EntryMoves

-----------------------------------------------------------------------------
\* A request to begin with.
LEMMA NoReqType == NoReq \in Requests
BY DEF NoReq, Requests

\* What recovery finds is documents.
LEMMA RecoveredDocs == EntryTypes => \A i \in Ids : DocsLeft(i) \subseteq Content
BY DEF DocsLeft

\* Requests, tokens and agreements keep their types.
LEMMA RequestTypesKept == ChunkTypes /\ RequestTypes /\ EntryTypes /\ [Next]_vars => RequestTypes'
<1> SUFFICES ASSUME ChunkTypes, RequestTypes, EntryTypes, [Next]_vars PROVE RequestTypes'
  OBVIOUS
<1>1. CASE \E s \in Sessions : Chunk(s)
  BY <1>1 DEF Chunk, SendChunk, AskStatus, AskComplete, Prune, CompleteNothing, ChunkArrives,
              RequestTypes
<1>2. ASSUME NEW i \in Ids, Request(i) PROVE RequestTypes'
  <2>0. req[i] \in Requests
    BY DEF RequestTypes
  <2>00. ASSUME NEW r \in Requests, req' = [req EXCEPT ![i] = r] PROVE req' \in [Ids -> Requests]
    BY <2>00 DEF RequestTypes
  <2>1. ASSUME NEW t \in Tokens, NEW f \in Forms, Stage(i, f, t) PROVE RequestTypes'
    <3> DEFINE docs == {Whole(g) : g \in Range(Unpacked(f))}
               r == [NoReq EXCEPT !.docs = docs, !.token = t, !.step = "staged"]
    <3>1. docs \subseteq Content
      BY FormFiles
    <3>2. t \in {None} \cup Grants
      BY DEF Tokens, RequestTypes
    <3>3. req' = [req EXCEPT ![i] = r] /\ tokens' = tokens /\ agreed' = agreed
      BY <2>1 DEF Stage
    <3> HIDE DEF docs
    <3>4. r \in Requests
      BY <3>1, <3>2 DEF NoReq, Requests
    <3> QED
      BY <3>3, <3>4, <2>00 DEF RequestTypes
  <2>2. ASSUME NEW t \in Tokens, NEW s \in Sessions, Complete(i, s, t) PROVE RequestTypes'
    <3> DEFINE docs == {ContentOf(s)}
               r == [NoReq EXCEPT !.docs = docs, !.token = t, !.session = s, !.step = "staged"]
    <3>1. docs \subseteq Content
      BY ContentSizes, <2>2 DEF Complete
    <3>2. t \in {None} \cup Grants
      BY DEF Tokens, RequestTypes
    <3>3. req' = [req EXCEPT ![i] = r] /\ tokens' = tokens /\ agreed' = agreed
      BY <2>2 DEF Complete
    <3> HIDE DEF docs
    <3>4. r \in Requests
      BY <3>1, <3>2 DEF NoReq, Requests
    <3> QED
      BY <3>3, <3>4, <2>00 DEF RequestTypes
  <2>3. CASE Check(i)
    <3> DEFINE found == {d \in req[i].docs : Duplicate(d)}
    <3>1. found \subseteq Content
      BY <2>0 DEF Requests
    <3>2. req' = [req EXCEPT ![i].found = found, ![i].step = "checked"]
      BY <2>3 DEF Check
    <3> HIDE DEF found
    <3>3. req' \in [Ids -> Requests]
      <4>1. [req[i] EXCEPT !.found = found, !.step = "checked"] \in Requests
        BY <3>1, <2>0 DEF Requests
      <4>2. req' = [req EXCEPT ![i] = [req[i] EXCEPT !.found = found, !.step = "checked"]]
        BY <3>2 DEF RequestTypes
      <4> QED
        BY <4>1, <4>2, <2>00
    <3> QED
      BY <3>3, <2>3 DEF Check, RequestTypes
  <2>4. CASE RefuseDuplicate(i) \/ RefuseOther(i)
    <3>1. req' \in [Ids -> Requests]
      BY <2>4, NoReqType, <2>00 DEF RefuseDuplicate, RefuseOther, Leave
    <3>2. Token(req[i].docs, req[i].found) \in Grants
      BY <2>0 DEF Requests, Token, Grants
    <3> QED
      BY <2>4, <3>1, <3>2 DEF RefuseDuplicate, RefuseOther, RequestTypes
  <2>5. CASE Register(i)
    <3>1. PICK forced \in SUBSET req[i].found : Registers(i, forced)
      BY <2>5, RegisterEntries
    <3> DEFINE r == [req[i] EXCEPT !.forced = forced, !.found = {}, !.token = None, !.step = "registered"]
    <3>4. r \in Requests
      BY <2>0 DEF Requests
    <3>5. req' = [req EXCEPT ![i] = r]
      BY <3>1 DEF RequestTypes, Registers
    <3>2. req' \in [Ids -> Requests]
      BY <3>4, <3>5, <2>00
    <3>3. (IF req[i].token = None THEN {} ELSE req[i].token.dups) \subseteq Content
      BY <2>0 DEF Requests, Grants
    <3> QED
      BY <2>5, <3>2, <3>3 DEF Register, RequestTypes
  <2>6. CASE Enqueue(i)
    BY <2>6 DEF Enqueue, RequestTypes, Requests
  <2>7. CASE NotQueued(i)
    BY <2>7 DEF NotQueued, End, NoReq, RequestTypes, Requests
  <2> QED
    BY <1>2, <2>1, <2>2, <2>3, <2>4, <2>5, <2>6, <2>7 DEF Request
<1>3. ASSUME NEW i \in Ids, Work(i) PROVE RequestTypes'
  <2>1. CASE \E d \in Content : Copy(i, d) \/ Unlink(i, d)
    BY <2>1 DEF Copy, Unlink, RequestTypes
  <2>2. CASE Saved(i) \/ Ingesting(i) \/ Prepare(i) \/ Extract(i) \/ Ingested(i) \/ Index(i)
    BY <2>2 DEF Saved, Ingesting, Prepare, Extract, Ingested, Index, Set, RequestTypes, Requests
  <2>3. CASE Indexed(i) \/ \E status \in {"failed", "interrupted"} : Stop(i, status)
    <3>1. [NoReq EXCEPT !.step = "ended"] \in Requests
      BY DEF NoReq, Requests
    <3>2. req' = [req EXCEPT ![i] = [NoReq EXCEPT !.step = "ended"]]
          /\ agreed' = [agreed EXCEPT ![i] = {}] /\ tokens' = tokens
      BY <2>3 DEF Indexed, Stop, End
    <3> QED
      BY <3>1, <3>2 DEF RequestTypes
  <2> QED
    BY <1>3, <2>1, <2>2, <2>3 DEF Work
<1>4. CASE (\E f \in Forms : RefuseForm(f)) \/ (\E t \in tokens : Expire(t)) \/ UNCHANGED vars
  BY <1>4 DEF RefuseForm, Expire, vars, RequestTypes
<1>5. CASE Crash
  <2>1. ASSUME NEW i \in Ids PROVE req'[i] \in Requests
    <3>1. CASE DocsLeft(i) # {}
      <4>1. req'[i] = [NoReq EXCEPT !.docs = DocsLeft(i), !.forced = {d \in DocsLeft(i) : Len(entry[d]) > 1},
                                    !.again = TRUE, !.step = ResumeAt(i)]
        BY <1>5, <3>1 DEF Crash
      <4>2. {d \in DocsLeft(i) : Len(entry[d]) > 1} \subseteq Content
        BY RecoveredDocs
      <4> QED
        BY <4>1, <4>2, RecoveredDocs DEF NoReq, Requests, ResumeAt
    <3>2. CASE DocsLeft(i) = {}
      BY <1>5, <3>2 DEF Crash, NoReq, Requests
    <3> QED
      BY <3>1, <3>2
  <2>2. req' \in [Ids -> Requests]
    BY <2>1, <1>5 DEF Crash
  <2> QED
    BY <2>2, <1>5 DEF Crash, RequestTypes
<1> QED
  BY <1>1, <1>2, <1>3, <1>4, <1>5 DEF Next

\* So do the directories, the Markdown and the rows.
LEMMA DiskTypesKept ==
    ChunkTypes /\ RequestTypes /\ DiskTypes /\ [Next]_vars => DiskTypes'
<1> SUFFICES ASSUME ChunkTypes, RequestTypes, DiskTypes, [Next]_vars PROVE DiskTypes'
  OBVIOUS
<1>1. CASE \E s \in Sessions : Chunk(s)
  BY <1>1 DEF Chunk, SendChunk, AskStatus, AskComplete, Prune, CompleteNothing, ChunkArrives,
              DiskTypes, disk
<1>2. ASSUME NEW i \in Ids, Request(i) PROVE DiskTypes'
  <2>1. ASSUME NEW t \in Tokens, NEW f \in Forms, Stage(i, f, t) PROVE DiskTypes'
    BY <2>1, FormFiles DEF Stage, DiskTypes
  <2>2. ASSUME NEW t \in Tokens, NEW s \in Sessions, Complete(i, s, t) PROVE DiskTypes'
    BY <2>2, ContentSizes DEF Complete, DiskTypes
  <2>3. CASE Check(i) \/ Register(i) \/ Enqueue(i)
    BY <2>3 DEF Check, Register, Enqueue, DiskTypes, disk
  <2>4. CASE RefuseDuplicate(i) \/ RefuseOther(i) \/ NotQueued(i)
    BY <2>4 DEF RefuseDuplicate, RefuseOther, NotQueued, Leave, DiskTypes
  <2> QED
    BY <1>2, <2>1, <2>2, <2>3, <2>4 DEF Request
<1>3. ASSUME NEW i \in Ids, Work(i) PROVE DiskTypes'
  <2>0. req[i].docs \subseteq Content
    BY DEF RequestTypes, Requests
  <2>1. CASE \E d \in Content : Copy(i, d) \/ Unlink(i, d)
    BY <2>1 DEF Copy, Unlink, DiskTypes
  <2>2. CASE Prepare(i) \/ Extract(i) \/ Index(i)
    BY <2>0, <2>2 DEF Prepare, Extract, Index, DiskTypes
  <2>3. CASE UNCHANGED disk
    BY <2>3 DEF disk, DiskTypes
  <2> QED
    BY <1>3, <2>1, <2>2, <2>3 DEF Work, Saved, Ingesting, Ingested, Indexed, Stop
<1>4. CASE (\E f \in Forms : RefuseForm(f)) \/ (\E t \in tokens : Expire(t)) \/ UNCHANGED vars
  BY <1>4 DEF RefuseForm, Expire, vars, disk, DiskTypes
<1>5. CASE Crash
  BY <1>5 DEF Crash, DiskTypes
<1> QED
  BY <1>1, <1>2, <1>3, <1>4, <1>5 DEF Next

\* The shape of the state: TypeOK but for the length of an entry.
Shape == ChunkTypes /\ RequestTypes /\ DiskTypes /\ EntryTypes /\ CountTypes

\* Every step keeps it.
LEMMA ShapeKept == Shape /\ [Next]_vars => Shape'
BY ChunkTypesKept, RequestTypesKept, DiskTypesKept, EntryTypesKept, CountTypesKept DEF Shape

\* An entry and its length.
LEMMA EntryElements ==
    ASSUME EntryTypes, NEW d \in Content
    PROVE  /\ entry[d] \in Seq(Entries) /\ Len(entry[d]) \in Nat /\ DOMAIN entry[d] = 1..Len(entry[d])
           /\ entry[d] # <<>> <=> Len(entry[d]) >= 1
           /\ \A j \in 1..Len(entry[d]) : entry[d][j] \in Entries /\ entry[d][j].job \in Ids
<1>1. entry[d] \in Seq(Entries)
  BY DEF EntryTypes
<1>2. Len(entry[d]) \in Nat /\ DOMAIN entry[d] = 1..Len(entry[d])
  BY <1>1, LenProperties
<1>3. \A j \in 1..Len(entry[d]) : entry[d][j] \in Entries
  BY <1>1, ElementOfSeq
<1>4. entry[d] # <<>> <=> Len(entry[d]) >= 1
  BY <1>1, <1>2, EmptySeq
<1> QED
  BY <1>1, <1>2, <1>3, <1>4 DEF Entries

\* Once a request has registered it stays so.
LEMMA StepsStay ==
    ASSUME RequestTypes, [Next]_vars, NEW k \in Ids, req[k].step \in Mine \cup {"ended"}
    PROVE  req'[k].step \in Mine \cup {"ended"}
<1>1. CASE \E s \in Sessions : Chunk(s)
  BY <1>1 DEF Chunk, SendChunk, AskStatus, AskComplete, Prune, CompleteNothing, ChunkArrives
<1>2. ASSUME NEW i \in Ids, Request(i) PROVE req'[k].step \in Mine \cup {"ended"}
  <2>1. CASE \/ \E t \in Tokens, f \in Forms : Stage(i, f, t)
             \/ \E t \in Tokens, s \in Sessions : Complete(i, s, t)
    BY <2>1 DEF Stage, Complete, RequestTypes, Mine
  <2>2. CASE Check(i) \/ RefuseDuplicate(i) \/ RefuseOther(i)
    BY <2>2 DEF Check, RefuseDuplicate, RefuseOther, Leave, RequestTypes, Mine
  <2>3. CASE Register(i)
    BY <2>3 DEF Register, RequestTypes, Requests, Mine
  <2>4. CASE Enqueue(i) \/ NotQueued(i)
    BY <2>4 DEF Enqueue, NotQueued, End, NoReq, RequestTypes, Requests, Mine
  <2> QED
    BY <1>2, <2>1, <2>2, <2>3, <2>4 DEF Request
<1>3. ASSUME NEW i \in Ids, Work(i) PROVE req'[k].step \in Mine \cup {"ended"}
  <2>1. CASE \E d \in Content : Copy(i, d) \/ Unlink(i, d)
    BY <2>1 DEF Copy, Unlink
  <2>2. CASE Saved(i) \/ Ingesting(i) \/ Prepare(i) \/ Extract(i) \/ Ingested(i) \/ Index(i)
    BY <2>2 DEF Saved, Ingesting, Prepare, Extract, Ingested, Index, Set, RequestTypes, Requests, Mine
  <2>3. CASE Indexed(i) \/ \E status \in {"failed", "interrupted"} : Stop(i, status)
    BY <2>3 DEF Indexed, Stop, End, NoReq, RequestTypes, Requests, Mine
  <2> QED
    BY <1>3, <2>1, <2>2, <2>3 DEF Work
<1>4. CASE (\E f \in Forms : RefuseForm(f)) \/ (\E t \in tokens : Expire(t)) \/ UNCHANGED vars
  BY <1>4 DEF RefuseForm, Expire, vars
<1>5. CASE Crash
  BY <1>5 DEF Crash, NoReq, ResumeAt, Mine
<1> QED
  BY <1>1, <1>2, <1>3, <1>4, <1>5 DEF Next

\* Marking keeps the jobs of an entry, and at most takes the first one away.
LEMMA MarkedJobs ==
    ASSUME NEW e \in Seq(Entries), NEW i \in Ids, NEW status \in Statuses, NEW r \in Seq(Entries),
           Marked(e, i, status, r)
    PROVE  /\ Len(r) <= Len(e)
           /\ \E k \in 0..1 : \A j \in 1..Len(r) : j + k \in 1..Len(e) /\ r[j].job = e[j + k].job
<1>1. Len(e) \in Nat /\ Len(r) \in Nat /\ (e # <<>> => Len(e) >= 1)
  BY EmptySeq, LenProperties
<1>2. CASE r = e
  BY <1>1, <1>2
<1>3. CASE Len(e) > 1 /\ Len(r) = Len(e) - 1 /\ \A j \in 1..Len(r) : r[j] = e[j + 1]
  BY <1>1, <1>3
<1>4. CASE e # <<>> /\ e[1].job = i /\ Len(r) = 1 /\ r[1] = [status |-> status, job |-> i]
  <2>1. \A j \in 1..Len(r) : j + 0 \in 1..Len(e) /\ r[j].job = e[j + 0].job
    BY <1>1, <1>4
  <2> QED
    BY <1>1, <1>4, <2>1
<1>5. CASE /\ e # <<>> /\ e[1].job = i /\ Len(r) = Len(e)
           /\ r[1] = [status |-> status, job |-> i] /\ \A j \in 2..Len(e) : r[j] = e[j]
  <2>1. \A j \in 1..Len(r) : j + 0 \in 1..Len(e) /\ r[j].job = e[j + 0].job
    BY <1>1, <1>5
  <2> QED
    BY <1>1, <1>5, <2>1
<1> QED
  BY <1>2, <1>3, <1>4, <1>5 DEF Marked

\* A job gets to an entry by registering, and no request registers twice.
LEMMA IssuedKept == Shape /\ Issued /\ [Next]_vars => Issued'
<1> SUFFICES ASSUME Shape, Issued, [Next]_vars, NEW d \in Content,
                    NEW j \in DOMAIN entry'[d], NEW k \in DOMAIN entry'[d]
             PROVE  /\ req'[entry'[d][j].job].step \in Mine \cup {"ended"}
                    /\ entry'[d][j].job = entry'[d][k].job => j = k
  BY DEF Issued
<1>1. EntryTypes /\ RequestTypes /\ EntryTypes'
  BY ShapeKept DEF Shape
<1>2. \A n \in 1..Len(entry[d]) : entry[d][n].job \in Ids /\ req[entry[d][n].job].step \in Mine \cup {"ended"}
  BY <1>1, EntryElements DEF Issued
<1>3. \A n \in 1..Len(entry[d]) : req'[entry[d][n].job].step \in Mine \cup {"ended"}
  BY <1>1, <1>2, StepsStay
<1>4. \A m, n \in 1..Len(entry[d]) : entry[d][m].job = entry[d][n].job => m = n
  BY <1>1, EntryElements DEF Issued
<1>5. entry'[d] \in Seq(Entries) /\ j \in 1..Len(entry'[d]) /\ k \in 1..Len(entry'[d])
  BY <1>1, LenProperties DEF EntryTypes
<1>6. entry[d] \in Seq(Entries) /\ Len(entry[d]) \in Nat /\ Len(entry'[d]) \in Nat
  BY <1>1, <1>5, LenProperties, EntryElements
<1>7. CASE entry'[d] = entry[d]
  BY <1>7, <1>3, <1>4, <1>5
<1>8. ASSUME NEW i \in Ids, NEW status \in Statuses, Marking(i, status)
      PROVE  /\ req'[entry'[d][j].job].step \in Mine \cup {"ended"}
             /\ entry'[d][j].job = entry'[d][k].job => j = k
  <2>1. MarkAll(i, status)
    BY <1>8 DEF Marking
  <2>2. CASE d \notin req[i].docs
    BY <2>1, <2>2, <1>1, <1>7, MarkAllMoves
  <2>3. CASE d \in req[i].docs
    <3>1. Marked(entry[d], i, status, entry'[d])
      BY <2>1, <2>3, <1>1, MarkAllMoves
    <3>2. PICK s \in 0..1 : \A n \in 1..Len(entry'[d]) :
              n + s \in 1..Len(entry[d]) /\ entry'[d][n].job = entry[d][n + s].job
      BY <3>1, <1>5, <1>6, MarkedJobs
    <3>3. j + s \in 1..Len(entry[d]) /\ k + s \in 1..Len(entry[d])
          /\ entry'[d][j].job = entry[d][j + s].job /\ entry'[d][k].job = entry[d][k + s].job
      BY <3>2, <1>5
    <3>4. req'[entry'[d][j].job].step \in Mine \cup {"ended"}
      BY <3>3, <1>3
    <3>5. entry'[d][j].job = entry'[d][k].job => j + s = k + s
      BY <3>3, <1>4
    <3> QED
      BY <3>4, <3>5, <1>5, <1>6
  <2> QED
    BY <2>2, <2>3
<1>9. ASSUME NEW i \in Ids, Register(i)
      PROVE  /\ req'[entry'[d][j].job].step \in Mine \cup {"ended"}
             /\ entry'[d][j].job = entry'[d][k].job => j = k
  <2>1. CASE d \notin req[i].docs
    BY <2>1, <1>9, <1>1, <1>7, RegisterEntries DEF Registers
  <2>2. CASE d \in req[i].docs
    <3>0. d \in req[i].docs \cap Content
      BY <2>2
    <3>00. PICK forced \in SUBSET req[i].found : Registers(i, forced)
      BY <1>9, <1>1, RegisterEntries
    <3>1. /\ req' = [req EXCEPT ![i].forced = forced, ![i].found = {}, ![i].token = None,
                                ![i].step = "registered"]
          /\ entry'[d][1] = [status |-> "queued", job |-> i]
          /\ d \notin forced => Len(entry'[d]) = 1
          /\ d \in forced => /\ Len(entry'[d]) = Len(entry[d]) + 1
                             /\ \A n \in 1..Len(entry[d]) : entry'[d][n + 1] = entry[d][n]
      BY <3>0, <3>00 DEF Registers
    <3>2. req'[i].step = "registered" /\ entry'[d][1].job = i
      BY <3>1, <1>1 DEF RequestTypes, Requests
    <3>3. \A n \in 1..Len(entry[d]) : entry[d][n].job # i
      BY <1>2, <1>9 DEF Register, Mine
    <3>4. \A n \in 1..Len(entry'[d]) :
              n = 1 \/ (n - 1 \in 1..Len(entry[d]) /\ entry'[d][n] = entry[d][n - 1])
      <4> TAKE n \in 1..Len(entry'[d])
      <4>1. CASE n = 1
        BY <4>1
      <4>2. CASE n # 1
        <5>1. d \in forced
          <6>1. n \in Nat /\ n >= 1 /\ n <= Len(entry'[d])
            BY <1>6
          <6>2. Len(entry'[d]) # 1
            <7>1. \A m, l \in Nat : m >= 1 /\ m <= l /\ m # 1 => l # 1
              OBVIOUS
            <7> QED
              BY <7>1, <6>1, <4>2, <1>6, Zenon
          <6> QED
            BY <6>2, <3>1
        <5>2. n - 1 \in 1..Len(entry[d]) /\ (n - 1) + 1 = n
          BY <5>1, <4>2, <3>1, <1>6
        <5> QED
          BY <5>1, <5>2, <3>1
      <4> QED
        BY <4>1, <4>2
    <3>5. req'[entry'[d][j].job].step \in Mine \cup {"ended"}
      BY <3>2, <3>4, <1>3, <1>5 DEF Mine
    <3>6. entry'[d][j].job = entry'[d][k].job => j = k
      <4>1. CASE j = 1 \/ k = 1
        BY <4>1, <3>2, <3>3, <3>4, <1>5
      <4>2. CASE j # 1 /\ k # 1
        <5>1. /\ j - 1 \in 1..Len(entry[d]) /\ entry'[d][j] = entry[d][j - 1]
              /\ k - 1 \in 1..Len(entry[d]) /\ entry'[d][k] = entry[d][k - 1]
          BY <4>2, <3>4, <1>5
        <5>2. entry'[d][j].job = entry'[d][k].job => j - 1 = k - 1
          BY <5>1, <1>4
        <5> QED
          BY <5>2, <1>5
      <4> QED
        BY <4>1, <4>2
    <3> QED
      BY <3>5, <3>6
  <2> QED
    BY <2>1, <2>2
<1> QED
  BY <1>7, <1>8, <1>9, EntryMoves

\* An entry has one place for each upload.
LEMMA EntryLengths == EntryTypes /\ Issued => \A d \in Content : Len(entry[d]) <= MaxUploads
<1> SUFFICES ASSUME EntryTypes, Issued, NEW d \in Content PROVE Len(entry[d]) <= MaxUploads
  OBVIOUS
<1> DEFINE n == Len(entry[d])
           f == [j \in 1..n |-> entry[d][j].job]
<1>1. n \in Nat /\ f \in [1..n -> Ids]
  BY EntryElements
<1>2. \A j, k \in 1..n : f[j] = f[k] => j = k
  BY EntryElements DEF Issued
<1>3. IsFiniteSet(1..n) /\ Cardinality(1..n) = n /\ IsFiniteSet(Ids) /\ Cardinality(Ids) = MaxUploads
  <2>1. 1 \in Int /\ n \in Int /\ MaxUploads \in Int
    BY <1>1, IntakeBounds
  <2> QED
    <3>1. /\ IsFiniteSet(1..n) /\ Cardinality(1..n) = IF 1 > n THEN 0 ELSE n - 1 + 1
          /\ IsFiniteSet(Ids)
          /\ Cardinality(Ids) = IF 1 > MaxUploads THEN 0 ELSE MaxUploads - 1 + 1
      BY <2>1, FS_Interval DEF Ids
    <3>2. \A m \in Nat : (IF 1 > m THEN 0 ELSE m - 1 + 1) = m
      OBVIOUS
    <3> QED
      BY <3>1, <3>2, <1>1, IntakeBounds
<1> HIDE DEF f, n
<1>4. Cardinality(1..n) <= Cardinality(Ids)
  <2>1. SUFFICES ASSUME Cardinality(Ids) < Cardinality(1..n) PROVE FALSE
    BY <1>3, <1>1, IntakeBounds
  <2>2. \E j, k \in 1..n : j # k /\ f[j] = f[k]
    BY <1>1, <1>3, <2>1, FS_PigeonHole
  <2> QED
    BY <2>2, <1>2
<1> QED
  BY <1>3, <1>4 DEF n

\* A step leaves every request but one alone.
Alone(i) ==
    \A k \in Ids \ {i} :
        /\ req'[k] = req[k] /\ staged'[k] = staged[k]
        /\ saved'[k] = saved[k] /\ agreed'[k] = agreed[k]

\* So much of a step is its request's.
LEMMA OneRequest ==
    Shape /\ [Next]_vars =>
        \/ Crash
        \/ UNCHANGED <<req, staged, saved, agreed, entry>> /\ UNCHANGED <<md, rows>>
        \/ \E i \in Ids : (Request(i) \/ Work(i)) /\ Alone(i)
<1> SUFFICES ASSUME Shape, [Next]_vars
             PROVE  \/ Crash
                    \/ UNCHANGED <<req, staged, saved, agreed, entry>> /\ UNCHANGED <<md, rows>>
                    \/ \E i \in Ids : (Request(i) \/ Work(i)) /\ Alone(i)
  OBVIOUS
<1> USE DEF Shape, RequestTypes, DiskTypes
<1>1. CASE \E s \in Sessions : Chunk(s)
  BY <1>1 DEF Chunk, SendChunk, AskStatus, AskComplete, Prune, CompleteNothing, ChunkArrives,
              disk
<1>2. CASE (\E f \in Forms : RefuseForm(f)) \/ (\E t \in tokens : Expire(t)) \/ UNCHANGED vars
  BY <1>2 DEF RefuseForm, Expire, vars, disk
<1>3. ASSUME NEW i \in Ids, Request(i) PROVE Alone(i)
  <2>1. CASE \/ \E t \in Tokens, f \in Forms : Stage(i, f, t)
             \/ \E t \in Tokens, s \in Sessions : Complete(i, s, t)
    BY <2>1 DEF Stage, Complete, Alone
  <2>2. CASE Check(i) \/ Register(i) \/ Enqueue(i)
    BY <2>2 DEF Check, Register, Enqueue, Alone, disk
  <2>3. CASE RefuseDuplicate(i) \/ RefuseOther(i)
    BY <2>3 DEF RefuseDuplicate, RefuseOther, Leave, Alone
  <2>4. CASE NotQueued(i)
    BY <2>4 DEF NotQueued, End, Alone
  <2> QED
    BY <1>3, <2>1, <2>2, <2>3, <2>4 DEF Request
<1>4. ASSUME NEW i \in Ids, Work(i) PROVE Alone(i)
  <2>1. CASE \E d \in Content : Copy(i, d) \/ Unlink(i, d)
    BY <2>1 DEF Copy, Unlink, Alone
  <2>2. CASE Saved(i) \/ Ingesting(i) \/ Prepare(i) \/ Extract(i) \/ Ingested(i) \/ Index(i)
    BY <2>2 DEF Saved, Ingesting, Prepare, Extract, Ingested, Index, Set, Alone, disk
  <2>3. CASE Indexed(i) \/ \E status \in {"failed", "interrupted"} : Stop(i, status)
    BY <2>3 DEF Indexed, Stop, End, Alone, disk
  <2> QED
    BY <1>4, <2>1, <2>2, <2>3 DEF Work
<1> QED
  BY <1>1, <1>2, <1>3, <1>4 DEF Next

\* Requests keep their form.
LEMMA FormedKept == Shape /\ Formed /\ [Next]_vars => Formed'
<1> SUFFICES ASSUME Shape, Formed, [Next]_vars PROVE Formed'
  OBVIOUS
<1> DEFINE F(i) == /\ req[i].step \in Pending => req[i].docs = staged[i] /\ req[i].forced = {} /\ ~req[i].again
                   /\ req[i].step = "registered" => ~req[i].again
                   /\ req[i].forced \subseteq req[i].docs /\ req[i].found \subseteq req[i].docs
<1>0. \A i \in Ids : F(i)
  BY DEF Formed
<1> SUFFICES ASSUME NEW k \in Ids PROVE F(k)'
  BY DEF Formed
<1>1. CASE UNCHANGED <<req, staged, saved, agreed, entry>>
  BY <1>1, <1>0
<1>2. CASE Crash
  <2>1. CASE DocsLeft(k) # {}
    <3>1. req'[k] = [NoReq EXCEPT !.docs = DocsLeft(k), !.forced = {d \in DocsLeft(k) : Len(entry[d]) > 1},
                                  !.again = TRUE, !.step = ResumeAt(k)]
      BY <1>2, <2>1 DEF Crash
    <3>2. req'[k].step \notin Pending \cup {"registered"} /\ req'[k].forced \subseteq req'[k].docs
          /\ req'[k].found \subseteq req'[k].docs
      BY <3>1 DEF NoReq, ResumeAt, Pending
    <3> QED
      BY <3>2
  <2>2. CASE DocsLeft(k) = {}
    BY <1>2, <2>2 DEF Crash, NoReq, Pending
  <2> QED
    BY <2>1, <2>2
<1>3. ASSUME NEW i \in Ids, Request(i) \/ Work(i), Alone(i), k # i PROVE F(k)'
  BY <1>3, <1>0 DEF Alone
<1>4. CASE Request(k)
  <2> USE DEF Shape, RequestTypes, DiskTypes
  <2>1. ASSUME NEW t \in Tokens, NEW f \in Forms, Stage(k, f, t) PROVE F(k)'
    <3> DEFINE docs == {Whole(g) : g \in Range(Unpacked(f))}
    <3>1. req'[k] = [NoReq EXCEPT !.docs = docs, !.token = t, !.step = "staged"] /\ staged'[k] = docs
      BY <2>1 DEF Stage
    <3> HIDE DEF docs
    <3> QED
      BY <3>1 DEF NoReq
  <2>2. ASSUME NEW t \in Tokens, NEW s \in Sessions, Complete(k, s, t) PROVE F(k)'
    BY <2>2 DEF Complete, NoReq
  <2>3. CASE Check(k)
    <3> DEFINE found == {d \in req[k].docs : Duplicate(d)}
    <3>1. req' = [req EXCEPT ![k].found = found, ![k].step = "checked"] /\ req[k].step = "staged"
          /\ staged' = staged /\ found \subseteq req[k].docs
      BY <2>3 DEF Check, disk
    <3> HIDE DEF found
    <3> QED
      BY <3>1, <1>0 DEF Requests, Pending
  <2>4. CASE RefuseDuplicate(k) \/ RefuseOther(k)
    BY <2>4 DEF RefuseDuplicate, RefuseOther, Leave, NoReq, Pending
  <2>5. CASE Register(k)
    <3>1. PICK forced \in SUBSET req[k].found : Registers(k, forced)
      BY <2>5, RegisterEntries
    <3>2. /\ req'[k].step = "registered" /\ req'[k].forced = forced /\ req'[k].found = {}
          /\ req'[k].docs = req[k].docs /\ req'[k].again = req[k].again
      BY <3>1 DEF Registers, Requests
    <3>3. req[k].step = "checked"
      BY <2>5 DEF Register
    <3> QED
      BY <3>2, <3>3, <1>0 DEF Pending
  <2>6. CASE Enqueue(k)
    BY <2>6, <1>0 DEF Enqueue, Requests, Pending
  <2>7. CASE NotQueued(k)
    BY <2>7 DEF NotQueued, End, NoReq, Pending
  <2> QED
    BY <1>4, <2>1, <2>2, <2>3, <2>4, <2>5, <2>6, <2>7 DEF Request
<1>5. CASE Work(k)
  <2> USE DEF Shape, RequestTypes
  <2>1. CASE \E d \in Content : Copy(k, d) \/ Unlink(k, d)
    BY <2>1, <1>0 DEF Copy, Unlink, Pending
  <2>2. CASE Saved(k) \/ Ingesting(k) \/ Prepare(k) \/ Extract(k) \/ Ingested(k) \/ Index(k)
    <3>1. PICK step \in {"saved", "ingesting", "prepared", "extracted", "ingested", "indexed"} :
              req' = [req EXCEPT ![k].step = step]
      BY <2>2 DEF Saved, Ingesting, Prepare, Extract, Ingested, Index, Set
    <3> QED
      BY <3>1, <1>0 DEF Requests, Pending
  <2>3. CASE Indexed(k) \/ \E status \in {"failed", "interrupted"} : Stop(k, status)
    BY <2>3 DEF Indexed, Stop, End, NoReq, Pending
  <2> QED
    BY <1>5, <2>1, <2>2, <2>3 DEF Work
<1> QED
  BY <1>1, <1>2, <1>3, <1>4, <1>5, OneRequest

-----------------------------------------------------------------------------
(* Chunks.                                                                 *)

\* A chunk is taken at the end of the .part file only; the copy of the first one
\* that finds no .part file ("late") is what would begin another.
LEMMA BegunKept ==
    ASSUME "late" \notin Incidents
    PROVE  Shape /\ Begun /\ [Next]_vars => Begun'
<1> SUFFICES ASSUME Shape, Begun, [Next]_vars, NEW z \in Sessions
             PROVE  /\ part'[z] = [k \in 1..Len(part'[z]) |-> k]
                    /\ part'[z] # <<>> => client'[z].offset <= Len(part'[z])
                    /\ client'[z].step = "completing" => client'[z].offset = Chunks
  BY DEF Begun
<1> DEFINE Good == /\ part'[z] = [k \in 1..Len(part'[z]) |-> k]
                   /\ part'[z] # <<>> => client'[z].offset <= Len(part'[z])
                   /\ client'[z].step = "completing" => client'[z].offset = Chunks
<1> USE DEF Shape
<1>0. /\ part[z] = [k \in 1..Len(part[z]) |-> k]
      /\ part[z] # <<>> => client[z].offset <= Len(part[z])
      /\ client[z].step = "completing" => client[z].offset = Chunks
  BY DEF Begun
<1>01. /\ part \in [Sessions -> Seq(1..Chunks)] /\ client \in [Sessions -> Clients] /\ z \in Sessions
       /\ Len(part[z]) \in Nat /\ client[z].offset \in 0..Chunks /\ part[z] \in Seq(1..Chunks)
       /\ (part[z] = <<>> <=> Len(part[z]) = 0)
  BY LenProperties, EmptySeq DEF ChunkTypes, Clients
<1>02. ASSUME part'[z] = <<>> PROVE part'[z] = [k \in 1..Len(part'[z]) |-> k]
  <2>1. \A k \in 1..0 : FALSE
    OBVIOUS
  <2>2. Len(part'[z]) = 0
    BY <1>02, EmptySeq
  <2> QED
    BY <1>02, <2>1, <2>2
<1>03. CASE part'[z] = part[z] /\ client'[z] = client[z]
  BY <1>03, <1>0
<1>04. CASE part'[z] = part[z] /\ client'[z] = [client[z] EXCEPT !.step = "done"]
  BY <1>04, <1>0, <1>01 DEF Clients
<1>1. ASSUME NEW s \in Sessions, Chunk(s) PROVE Good
  <2>1. CASE SendChunk(s) \/ AskComplete(s)
    <3>1. CASE z = s
      <4>1. /\ client'[z].offset = client[z].offset /\ part'[z] = part[z]
            /\ client'[z].step = "completing" => client[z].offset = Chunks
        BY <2>1, <3>1, <1>01 DEF SendChunk, AskComplete, Clients
      <4> QED
        BY <4>1, <1>0
    <3>2. CASE z # s
      BY <3>2, <2>1, <1>03, <1>01 DEF SendChunk, AskComplete
    <3> QED
      BY <3>1, <3>2
  <2>2. CASE AskStatus(s)
    <3>1. CASE z = s
      BY <3>1, <2>2, <1>0, <1>01 DEF AskStatus, Clients
    <3>2. CASE z # s
      BY <3>2, <2>2, <1>03, <1>01 DEF AskStatus
    <3> QED
      BY <3>1, <3>2
  <2>3. CASE Prune(s)
    <3>1. CASE z = s
      BY <3>1, <2>3, <1>0, <1>01, <1>02 DEF Prune
    <3>2. CASE z # s
      BY <3>2, <2>3, <1>03, <1>01 DEF Prune
    <3> QED
      BY <3>1, <3>2
  <2>4. CASE CompleteNothing(s)
    BY <2>4, <1>03, <1>04, <1>01 DEF CompleteNothing
  <2>5. ASSUME NEW o \in 0..(Chunks - 1), ChunkArrives(s, o) PROVE Good
    <3>1. CASE z # s
      BY <3>1, <2>5, <1>03, <1>01 DEF ChunkArrives
    <3>2. CASE z = s /\ ~Accepts(s, o)
      <4>1. part' = part
        BY <3>2, <2>5 DEF ChunkArrives
      <4>2. \/ client'[z] = client[z]
            \/ /\ client'[z] = [client[z] EXCEPT !.offset = Len(part'[z]), !.step = "sending"]
        BY <3>2, <2>5, <1>01 DEF ChunkArrives
      <4>3. client'[z] = [client[z] EXCEPT !.offset = Len(part'[z]), !.step = "sending"] =>
                client'[z].offset = Len(part[z]) /\ client'[z].step = "sending"
        BY <4>1, <1>01 DEF Clients
      <4> QED
        BY <4>1, <4>2, <4>3, <1>0, <1>01
    <3>3. CASE z = s /\ Accepts(s, o)
      <4>1. o = Len(part[z]) /\ part'[z] = Append(part[z], o + 1)
        BY <3>3, <2>5, <1>01 DEF ChunkArrives, Accepts
      <4>2. /\ Len(part'[z]) = o + 1 /\ o + 1 \in 1..Chunks
            /\ part'[z] \in Seq(Nat) /\ part[z] \in Seq(Nat)
            /\ \A k \in 1..o : part'[z][k] = part[z][k]
            /\ part'[z][o + 1] = o + 1
        <5>1. o + 1 \in 1..Chunks /\ o + 1 \in Nat
          BY IntakeBounds
        <5>2. part[z] \in Seq(Nat)
          BY <1>01, SeqMonotonic, IntakeBounds
        <5> QED
          BY <4>1, <5>1, <5>2, AppendProperties
      <4>3. \A k \in 1..(o + 1) : part'[z][k] = k
        <5>1. \A k \in 1..o : part[z][k] = k
          BY <1>0, <4>1
        <5> QED
          BY <5>1, <4>2
      <4>4. part'[z] = [k \in 1..Len(part'[z]) |-> k]
        BY <4>2, <4>3, LenProperties
      <4>5. \/ client'[z] = client[z]
            \/ client'[z] = [client[z] EXCEPT !.offset = Len(part'[z]), !.step = "sending"]
        BY <3>3, <2>5, <1>01 DEF ChunkArrives
      <4>6. client'[z] = [client[z] EXCEPT !.offset = Len(part'[z]), !.step = "sending"] =>
                client'[z].offset = Len(part'[z]) /\ client'[z].step = "sending"
        BY <1>01 DEF Clients
      <4>7. client[z].offset <= Len(part'[z])
        <5>1. CASE part[z] # <<>>
          BY <5>1, <1>0, <1>01, <4>1, <4>2
        <5>2. CASE part[z] = <<>>
          <6>1. ~(client[z].offset > 0)
            BY <5>2, <2>5, <3>3, <4>1, <1>01 DEF ChunkArrives, Allowed
          <6> QED
            BY <6>1, <1>01, <4>2
        <5> QED
          BY <5>1, <5>2
      <4>8. Len(part'[z]) \in Nat
        BY <4>2
      <4> QED
        BY <4>4, <4>5, <4>6, <4>7, <4>8, <1>0
    <3> QED
      BY <3>1, <3>2, <3>3
  <2> QED
    BY <1>1, <2>1, <2>2, <2>3, <2>4, <2>5 DEF Chunk
<1>2. ASSUME NEW i \in Ids, Request(i) \/ Work(i) PROVE Good
  <2>0. req[i].session \in Sessions \cup {None}
    BY DEF RequestTypes, Requests
  <2>1. ASSUME NEW t \in Tokens, NEW s \in Sessions, Complete(i, s, t) PROVE Good
    <3>1. CASE z = s
      BY <3>1, <2>1, <1>0, <1>01, <1>02 DEF Complete
    <3>2. CASE z # s
      BY <3>2, <2>1, <1>03, <1>01 DEF Complete
    <3> QED
      BY <3>1, <3>2
  <2>2. CASE RefuseDuplicate(i) \/ RefuseOther(i)
    BY <2>2, <2>0, <1>03, <1>04, <1>01 DEF RefuseDuplicate, RefuseOther, Leave
  <2>3. CASE Enqueue(i)
    BY <2>3, <2>0, <1>03, <1>04, <1>01 DEF Enqueue
  <2>4. CASE NotQueued(i) \/ Indexed(i) \/ \E status \in {"failed", "interrupted"} : Stop(i, status)
    BY <2>4, <2>0, <1>03, <1>04, <1>01 DEF NotQueued, Indexed, Stop, End
  <2>5. CASE UNCHANGED chunked
    BY <2>5, <1>03 DEF chunked
  <2> QED
    BY <1>2, <2>1, <2>2, <2>3, <2>4, <2>5
    DEF Request, Work, Stage, Check, Register, Copy, Unlink,
        Saved, Ingesting, Prepare, Extract, Ingested, Index
<1>3. CASE (\E f \in Forms : RefuseForm(f)) \/ (\E t \in tokens : Expire(t)) \/ UNCHANGED vars
  BY <1>3, <1>03 DEF RefuseForm, Expire, vars, chunked
<1>4. CASE Crash
  <2>1. CASE client[z].step \in {"waiting", "sending"}
    <3>1. client'[z] = [client[z] EXCEPT !.offset = Len(part[z]), !.step = "sending"] /\ part' = part
      BY <1>4, <2>1 DEF Crash
    <3>2. client'[z].offset = Len(part[z]) /\ client'[z].step = "sending"
      BY <3>1, <1>01 DEF Clients
    <3> QED
      BY <3>1, <3>2, <1>0, <1>01
  <2>2. CASE client[z].step \notin {"waiting", "sending"}
    <3>1. \/ client'[z] = [client[z] EXCEPT !.step = "done"]
          \/ client[z].step = "completing" /\ client'[z] = [client[z] EXCEPT !.step = "completing"]
      BY <1>4, <2>2 DEF Crash
    <3>2. part' = part
      BY <1>4 DEF Crash
    <3>3. client[z].step = "completing" /\ client'[z] = [client[z] EXCEPT !.step = "completing"] =>
              client'[z] = client[z]
      BY <1>01 DEF Clients
    <3> QED
      BY <3>1, <3>2, <3>3, <1>03, <1>04
  <2> QED
    BY <2>1, <2>2
<1> QED
  BY <1>1, <1>2, <1>3, <1>4 DEF Next

-----------------------------------------------------------------------------
(* The types hold, and whole files only are registered.                    *)

\* The shape holds to begin with.
LEMMA ShapeInit == Init => Shape
<1> SUFFICES ASSUME Init PROVE Shape
  OBVIOUS
<1>1. <<>> \in Seq(1..Chunks) /\ Len(<<>>) = 0 /\ <<>> \in Seq(Entries)
  BY EmptySeq
<1>2. ChunkTypes
  <2>1. client \in [Sessions -> Clients]
    <3>1. PICK c \in [Sessions -> {[file |-> f, offset |-> 0, step |-> "sending"] : f \in Large}] : client = c
      BY DEF Init
    <3>2. \A f \in Large : [file |-> f, offset |-> 0, step |-> "sending"] \in Clients
      BY IntakeForms, IntakeBounds DEF Clients
    <3> QED
      BY <3>1, <3>2
  <2> QED
    BY <2>1, <1>1, IntakeBounds DEF Init, ChunkTypes, Wires
<1>3. RequestTypes
  BY NoReqType DEF Init, RequestTypes
<1> QED
  BY <1>1, <1>2, <1>3 DEF Init, Shape, DiskTypes, EntryTypes, CountTypes, Counts

\* So do the first parts of the invariant.
LEMMA FormedInit == Init => Issued /\ Formed
BY DEF Init, Issued, Formed, NoReq, Pending

\* They imply the type invariant.
LEMMA TypesOf == Shape /\ Issued => TypeOK
<1> SUFFICES ASSUME Shape, Issued PROVE TypeOK
  OBVIOUS
<1>1. \A s \in Sessions : client[s] \in [file : Files, offset : 0..Chunks,
                                        step : {"sending", "waiting", "completing", "done"}]
                       /\ wire[s] \in [0..(Chunks - 1) -> Nat]
                       /\ part[s] \in Seq(1..Chunks) /\ Len(part[s]) <= Chunks
  BY DEF Shape, ChunkTypes, Clients, Wires
<1>2. \A d \in Content : entry[d] \in Seq(Entries) /\ Len(entry[d]) <= MaxUploads
  BY EntryLengths DEF Shape, EntryTypes
<1>3. \A i \in Ids :
         /\ req[i] \in Requests
         /\ staged[i] \subseteq req[i].docs \cup Content /\ saved[i] \subseteq Content
         /\ agreed[i] \subseteq Content
  BY DEF Shape, RequestTypes, DiskTypes
<1> QED
  BY <1>1, <1>2, <1>3 DEF Shape, ChunkTypes, RequestTypes, DiskTypes, CountTypes, Counts, TypeOK

\* What holds whatever happens.
SInv == Shape /\ Issued /\ Formed

\* Every step keeps it.
LEMMA SInvKept == SInv /\ [Next]_vars => SInv'
BY ShapeKept, IssuedKept, FormedKept DEF SInv

\* Type correctness, whatever the incidents.
THEOREM TypeCorrect == Spec => []TypeOK
<1>1. Init => SInv
  BY ShapeInit, FormedInit DEF SInv
<1>2. SInv => TypeOK
  BY TypesOf DEF SInv
<1> QED
  BY <1>1, <1>2, SInvKept, PTL DEF Spec

-----------------------------------------------------------------------------
\* Completing copies what has arrived: a client asks when it has sent everything,
\* and what is there is not less.
LEMMA WholeKept ==
    SInv /\ SInv' /\ Begun /\ OnlyWhole /\ [Next]_vars => OnlyWhole'
<1> SUFFICES ASSUME SInv, SInv', Begun, OnlyWhole, [Next]_vars PROVE OnlyWhole'
  OBVIOUS
<1>0. Shape /\ EntryTypes /\ RequestTypes /\ EntryTypes' /\ ChunkTypes
  BY DEF SInv, Shape
<1>1. ASSUME NEW d \in Content, entry'[d] # <<>> PROVE d.size = Chunks
  <2>1. CASE UNCHANGED entry
    BY <2>1, <1>1 DEF OnlyWhole
  <2>2. ASSUME NEW i \in Ids, Register(i) PROVE d.size = Chunks
    <3>1. i \in Live
      BY <2>2 DEF Live, Register
    <3>2. CASE d \in req[i].docs
      BY <3>1, <3>2 DEF OnlyWhole
    <3>3. CASE d \notin req[i].docs
      <4>1. PICK forced \in SUBSET req[i].found : Registers(i, forced)
        BY <2>2, <1>0, RegisterEntries
      <4> QED
        BY <4>1, <3>3, <1>1 DEF Registers, OnlyWhole
    <3> QED
      BY <3>2, <3>3
  <2>3. ASSUME NEW i \in Ids, NEW status \in Statuses, Marking(i, status) PROVE d.size = Chunks
    <3>1. MarkAll(i, status)
      BY <2>3 DEF Marking
    <3>2. CASE d \in req[i].docs
      <4>1. Marked(entry[d], i, status, entry'[d])
        BY <3>1, <3>2, <1>0, MarkAllMoves
      <4>2. entry[d] # <<>>
        BY <4>1, <1>1 DEF Marked
      <4> QED
        BY <4>2 DEF OnlyWhole
    <3>3. CASE d \notin req[i].docs
      BY <3>1, <3>3, <1>0, <1>1, MarkAllMoves DEF OnlyWhole
    <3> QED
      BY <3>2, <3>3
  <2> QED
    BY <2>1, <2>2, <2>3, EntryMoves
<1>2. ASSUME NEW k \in Live', NEW d \in req'[k].docs PROVE d.size = Chunks
  <2>0. k \in Ids /\ req'[k].step \notin {"free", "ended"}
    BY <1>2 DEF Live
  <2>1. CASE req[k].step \notin {"free", "ended"} /\ req'[k].docs = req[k].docs
    BY <2>1, <2>0, <1>2 DEF OnlyWhole, Live
  <2>2. CASE UNCHANGED req
    BY <2>1, <2>2, <2>0
  <2>3. CASE Crash
    <3>1. DocsLeft(k) # {}
      BY <2>3, <2>0 DEF Crash, NoReq
    <3>2. req'[k].docs = DocsLeft(k)
      BY <2>3, <2>0, <3>1 DEF Crash, NoReq
    <3>3. d \in Content /\ StatusOf(d) \in Recoverable
      BY <3>2 DEF DocsLeft
    <3>4. entry[d] # <<>>
      BY <3>3 DEF StatusOf, Recoverable, Active
    <3> QED
      BY <3>3, <3>4 DEF OnlyWhole
  <2>4. ASSUME NEW i \in Ids, Request(i) \/ Work(i), Alone(i), k # i PROVE d.size = Chunks
    BY <2>4, <2>1, <2>0 DEF Alone
  <2>5. CASE Request(k)
    <3> USE DEF RequestTypes
    <3>1. ASSUME NEW t \in Tokens, NEW f \in Forms, Stage(k, f, t) PROVE d.size = Chunks
      <4> DEFINE docs == {Whole(g) : g \in Range(Unpacked(f))}
      <4>1. req'[k] = [NoReq EXCEPT !.docs = docs, !.token = t, !.step = "staged"]
        BY <3>1, <2>0, <1>0 DEF Stage
      <4>2. \A x \in docs : x.size = Chunks
        BY DEF Whole
      <4> HIDE DEF docs
      <4>3. req'[k].docs = docs
        BY <4>1 DEF NoReq
      <4> QED
        BY <4>2, <4>3, <1>2
    <3>2. ASSUME NEW t \in Tokens, NEW s \in Sessions, Complete(k, s, t) PROVE d.size = Chunks
      <4>1. req'[k].docs = {ContentOf(s)}
        BY <3>2, <2>0, <1>0 DEF Complete, NoReq
      <4>2. client[s].offset = Chunks /\ part[s] # <<>>
        BY <3>2 DEF Complete, Begun
      <4>3. Len(part[s]) = Chunks
        <5>1. Len(part[s]) \in Nat /\ Len(part[s]) <= Chunks /\ Chunks <= Len(part[s])
          BY <4>2, <1>0, LenProperties DEF Begun, ChunkTypes
        <5> QED
          BY <5>1, IntakeBounds
      <4> QED
        BY <4>1, <4>3, <1>2 DEF ContentOf
    <3>3. CASE Check(k)
      BY <3>3, <2>1, <2>0, <1>0 DEF Check, Requests
    <3>4. CASE RefuseDuplicate(k) \/ RefuseOther(k)
      BY <3>4, <2>0, <1>0 DEF RefuseDuplicate, RefuseOther, Leave, NoReq
    <3>5. CASE Register(k)
      BY <3>5, <2>1, <2>0, <1>0 DEF Register, Requests
    <3>6. CASE Enqueue(k)
      BY <3>6, <2>1, <2>0, <1>0 DEF Enqueue, Requests
    <3>7. CASE NotQueued(k)
      BY <3>7, <2>0, <1>0 DEF NotQueued, End, NoReq
    <3> QED
      BY <2>5, <3>1, <3>2, <3>3, <3>4, <3>5, <3>6, <3>7 DEF Request
  <2>6. CASE Work(k)
    <3>1. CASE \E x \in Content : Copy(k, x) \/ Unlink(k, x)
      BY <3>1, <2>2 DEF Copy, Unlink
    <3>2. CASE Saved(k) \/ Ingesting(k) \/ Prepare(k) \/ Extract(k) \/ Ingested(k) \/ Index(k)
      <4>1. req[k].step \notin {"free", "ended"} /\ req'[k].docs = req[k].docs
        BY <3>2, <2>0, <1>0
        DEF Saved, Ingesting, Prepare, Extract, Ingested, Index, Set, RequestTypes, Requests
      <4> QED
        BY <4>1, <2>1
    <3>3. CASE Indexed(k) \/ \E status \in {"failed", "interrupted"} : Stop(k, status)
      BY <3>3, <2>0, <1>0 DEF Indexed, Stop, End, NoReq, RequestTypes
    <3> QED
      BY <2>6, <3>1, <3>2, <3>3 DEF Work
  <2> QED
    BY <2>2, <2>3, <2>4, <2>5, <2>6, <1>0, OneRequest
<1> QED
  BY <1>1, <1>2 DEF OnlyWhole

\* The invariant for the chunks.
WInv == SInv /\ Begun /\ OnlyWhole

\* However chunk requests are repeated, overtaken, lost or pruned, an upload
\* registers whole files only, unless a copy of the first chunk comes after the
\* .part file was removed.
THEOREM OnlyWholeFiles == ASSUME "late" \notin Incidents PROVE Spec => []WholeFiles
<1>1. Init => WInv
  <2>1. Init => Begun
    <3>1. <<>> = [k \in 1..Len(<<>>) |-> k]
      <4>1. Len(<<>>) = 0 /\ <<>> \in Seq(Nat)
        BY EmptySeq
      <4>2. DOMAIN <<>> = 1..0 /\ \A k \in 1..0 : FALSE
        BY <4>1, LenProperties
      <4> QED
        BY <4>1, <4>2
    <3> SUFFICES ASSUME Init PROVE Begun
      OBVIOUS
    <3>2. \A s \in Sessions : part[s] = <<>> /\ client[s].step = "sending"
      BY DEF Init
    <3> QED
      BY <3>1, <3>2 DEF Begun
  <2>2. Init => OnlyWhole
    BY DEF Init, OnlyWhole, Live, NoReq
  <2> QED
    BY <2>1, <2>2, ShapeInit, FormedInit DEF WInv, SInv
<1>2. WInv /\ [Next]_vars => WInv'
  BY SInvKept, BegunKept, WholeKept DEF WInv, SInv
<1>3. WInv => WholeFiles
  BY DEF WInv, Begun, OnlyWhole, WholeFiles
<1> QED
  BY <1>1, <1>2, <1>3, PTL DEF Spec

-----------------------------------------------------------------------------
(* What a step does.                                                       *)

\* What a request may do that has not registered,
Waits(i) ==
    /\ req[i].step \in Pending \cup {"free"} /\ req'[i].step \in Pending \cup {"free"}
    /\ req'[i].step \in Pending => req'[i].forced = {}
    /\ saved' = saved /\ UNCHANGED <<entry, agreed, md, rows>>

\* one that goes on,
Goes(i) ==
    /\ req[i].step \in Mine /\ req'[i].step \in Mine \ {"registered"}
    /\ req'[i].docs = req[i].docs /\ req'[i].forced = req[i].forced /\ req'[i].again = req[i].again
    /\ staged'[i] \cup saved'[i] = staged[i] \cup saved[i] /\ agreed' = agreed
    /\ req'[i].step \in Unspoilt => req[i].step \in Unspoilt
    /\ \/ entry' = entry /\ req'[i].step \in {"queued", "saved"} /\ UNCHANGED <<md, rows>>
       \/ MarkAll(i, "saving_uploads") /\ req'[i].step = "saved" /\ UNCHANGED <<md, rows>>
       \/ MarkAll(i, "ingesting") /\ req'[i].step = "ingesting" /\ UNCHANGED <<md, rows>>
       \/ /\ entry' = entry /\ req[i].step = "ingesting" /\ req'[i].step = "prepared"
          /\ md' = md \ req[i].forced /\ rows' = rows \ req[i].forced
       \/ /\ entry' = entry /\ req[i].step = "prepared" /\ req'[i].step = "extracted"
          /\ md' = md \cup req[i].docs /\ rows' = rows
       \/ /\ MarkAll(i, "ingested") /\ req[i].step = "extracted" /\ req'[i].step = "ingested"
          /\ UNCHANGED <<md, rows>>
       \/ /\ entry' = entry /\ req[i].step = "ingested" /\ req'[i].step = "indexed"
          /\ md' = md /\ rows' = rows \cup req[i].docs

\* and one that ends.
Ends(i, status) ==
    /\ req[i].step \in Mine /\ req'[i].step = "ended"
    /\ MarkAll(i, status) /\ UNCHANGED <<md, rows, saved>>
    /\ \/ req[i].step = "registered" /\ status = "failed"
       \/ req[i].step # "registered" /\ status \in {"failed", "interrupted"} /\ staged' = staged
          /\ Allowed("undone", /\ req[i].forced # {}
                               /\ req[i].again \/ req[i].step \in {"prepared", "extracted"})
       \/ req[i].step = "indexed" /\ status = "indexed" /\ staged' = staged

\* Before it registers a request changes nothing that is shared.
LEMMA WaitsMoves ==
    ASSUME Shape, Formed, Formed', NEW i \in Ids,
           \/ \E t \in Tokens, f \in Forms : Stage(i, f, t)
           \/ \E t \in Tokens, s \in Sessions : Complete(i, s, t)
           \/ Check(i) \/ RefuseDuplicate(i) \/ RefuseOther(i)
    PROVE  Waits(i)
<1> USE DEF Shape, RequestTypes, DiskTypes
<1>0. req'[i].step \in Pending => req'[i].forced = {}
  BY DEF Formed
<1>1. CASE \E t \in Tokens, f \in Forms : Stage(i, f, t)
  <2>1. PICK t \in Tokens, f \in Forms : Stage(i, f, t)
    BY <1>1
  <2> DEFINE docs == {Whole(g) : g \in Range(Unpacked(f))}
  <2>2. req'[i] = [NoReq EXCEPT !.docs = docs, !.token = t, !.step = "staged"]
    BY <2>1 DEF Stage
  <2> HIDE DEF docs
  <2>3. req'[i].step = "staged"
    BY <2>2 DEF NoReq
  <2> QED
    BY <2>1, <2>3, <1>0 DEF Stage, Waits, Pending
<1>2. CASE \E t \in Tokens, s \in Sessions : Complete(i, s, t)
  <2>0. PICK t \in Tokens, s \in Sessions : Complete(i, s, t)
    BY <1>2
  <2>1. req'[i].step = "staged"
    BY <2>0 DEF Complete, NoReq
  <2> QED
    BY <2>0, <2>1, <1>0 DEF Complete, Waits, Pending
<1>3. CASE Check(i)
  <2>1. req'[i].step = "checked"
    BY <1>3 DEF Check, Requests
  <2> QED
    BY <1>3, <2>1, <1>0 DEF Check, Waits, Pending, disk
<1>4. CASE RefuseDuplicate(i) \/ RefuseOther(i)
  <2>1. req'[i].step = "free"
    BY <1>4 DEF RefuseDuplicate, RefuseOther, Leave, NoReq
  <2> QED
    BY <1>4, <2>1, <1>0 DEF RefuseDuplicate, RefuseOther, Waits, Pending
<1> QED
  BY <1>1, <1>2, <1>3, <1>4

\* A job goes on.
LEMMA GoesMoves ==
    ASSUME Shape, NEW i \in Ids,
           \/ Enqueue(i) \/ \E d \in Content : Copy(i, d) \/ Unlink(i, d)
           \/ Saved(i) \/ Ingesting(i) \/ Prepare(i) \/ Extract(i) \/ Ingested(i) \/ Index(i)
    PROVE  Goes(i)
<1> USE DEF Shape, RequestTypes, DiskTypes
<1>0. ASSUME NEW step, req' = [req EXCEPT ![i].step = step]
      PROVE  /\ req'[i].step = step /\ req'[i].docs = req[i].docs
             /\ req'[i].forced = req[i].forced /\ req'[i].again = req[i].again
  BY <1>0 DEF Requests
<1>1. CASE Enqueue(i)
  <2>1. /\ req'[i].step = "queued" /\ req'[i].docs = req[i].docs
        /\ req'[i].forced = req[i].forced /\ req'[i].again = req[i].again
    BY <1>1 DEF Enqueue, Requests
  <2> QED
    BY <1>1, <2>1 DEF Enqueue, Goes, Mine, Unspoilt, disk
<1>2. CASE \E d \in Content : Copy(i, d) \/ Unlink(i, d)
  <2>1. staged'[i] \cup saved'[i] = staged[i] \cup saved[i]
    BY <1>2 DEF Copy, Unlink
  <2> QED
    BY <1>2, <2>1 DEF Copy, Unlink, Goes, Mine, Unspoilt
<1>3. CASE Saved(i)
  <2>1. /\ req'[i].step = "saved" /\ req'[i].docs = req[i].docs
        /\ req'[i].forced = req[i].forced /\ req'[i].again = req[i].again
    BY <1>3, <1>0 DEF Saved, Set
  <2> QED
    BY <1>3, <2>1 DEF Saved, Goes, Mine, Unspoilt, disk
<1>4. CASE Ingesting(i)
  <2>1. /\ req'[i].step = "ingesting" /\ req'[i].docs = req[i].docs
        /\ req'[i].forced = req[i].forced /\ req'[i].again = req[i].again
    BY <1>4, <1>0 DEF Ingesting, Set
  <2> QED
    BY <1>4, <2>1 DEF Ingesting, Goes, Mine, Unspoilt, disk
<1>5. CASE Prepare(i)
  <2>1. /\ req'[i].step = "prepared" /\ req'[i].docs = req[i].docs
        /\ req'[i].forced = req[i].forced /\ req'[i].again = req[i].again
    BY <1>5, <1>0 DEF Prepare, Set
  <2> QED
    BY <1>5, <2>1 DEF Prepare, Goes, Mine, Unspoilt
<1>6. CASE Extract(i)
  <2>1. /\ req'[i].step = "extracted" /\ req'[i].docs = req[i].docs
        /\ req'[i].forced = req[i].forced /\ req'[i].again = req[i].again
    BY <1>6, <1>0 DEF Extract, Set
  <2> QED
    BY <1>6, <2>1 DEF Extract, Goes, Mine, Unspoilt
<1>7. CASE Ingested(i)
  <2>1. /\ req'[i].step = "ingested" /\ req'[i].docs = req[i].docs
        /\ req'[i].forced = req[i].forced /\ req'[i].again = req[i].again
    BY <1>7, <1>0 DEF Ingested, Set
  <2> QED
    BY <1>7, <2>1 DEF Ingested, Goes, Mine, Unspoilt, disk
<1>8. CASE Index(i)
  <2>1. /\ req'[i].step = "indexed" /\ req'[i].docs = req[i].docs
        /\ req'[i].forced = req[i].forced /\ req'[i].again = req[i].again
    BY <1>8, <1>0 DEF Index, Set
  <2> QED
    BY <1>8, <2>1 DEF Index, Goes, Mine, Unspoilt
<1> QED
  BY <1>1, <1>2, <1>3, <1>4, <1>5, <1>6, <1>7, <1>8

\* A request or a job ends.
LEMMA EndsMoves ==
    ASSUME Shape, NEW i \in Ids,
           NotQueued(i) \/ Indexed(i) \/ \E status \in {"failed", "interrupted"} : Stop(i, status)
    PROVE  \E status \in Statuses : Ends(i, status)
<1> USE DEF Shape, RequestTypes, DiskTypes, Statuses
<1>1. CASE NotQueued(i)
  <2>1. req'[i].step = "ended"
    BY <1>1 DEF NotQueued, End, NoReq
  <2>2. Ends(i, "failed")
    BY <1>1, <2>1 DEF NotQueued, Ends, Mine
  <2> QED
    BY <2>2
<1>2. CASE Indexed(i)
  <2>1. req'[i].step = "ended"
    BY <1>2 DEF Indexed, End, NoReq
  <2>2. Ends(i, "indexed")
    BY <1>2, <2>1 DEF Indexed, Ends, Mine, disk
  <2> QED
    BY <2>2 DEF Blocking
<1>3. ASSUME NEW status \in {"failed", "interrupted"}, Stop(i, status) PROVE Ends(i, status)
  <2>1. req'[i].step = "ended"
    BY <1>3 DEF Stop, End, NoReq
  <2>2. req[i].step \in Mine \ {"registered"}
    BY <1>3 DEF Stop, Jobs, Live, InFlight, Requests, Mine
  <2>3. Allowed("undone", /\ req[i].forced # {}
                          /\ req[i].again \/ req[i].step \in {"prepared", "extracted"})
    BY <1>3 DEF Stop
  <2>4. MarkAll(i, status) /\ UNCHANGED <<md, rows, saved, staged>>
    BY <1>3 DEF Stop, disk
  <2> HIDE DEF Shape, RequestTypes, DiskTypes
  <2> QED
    BY <2>1, <2>2, <2>3, <2>4 DEF Ends
<1> QED
  BY <1>1, <1>2, <1>3

\* What a step does, in these words.
LEMMA Kinds ==
    SInv /\ SInv' /\ [Next]_vars =>
        \/ Crash
        \/ UNCHANGED <<req, staged, saved, agreed, entry>> /\ UNCHANGED <<md, rows>>
        \/ \E i \in Ids : /\ Alone(i)
                          /\ Waits(i) \/ Register(i) \/ Goes(i) \/ \E status \in Statuses : Ends(i, status)
<1> SUFFICES ASSUME SInv, SInv', [Next]_vars, NEW i \in Ids, Request(i) \/ Work(i)
             PROVE  Waits(i) \/ Register(i) \/ Goes(i) \/ \E status \in Statuses : Ends(i, status)
  BY OneRequest DEF SInv
<1>1. Shape /\ Formed /\ Formed'
  BY DEF SInv
<1>2. CASE Request(i)
  BY <1>1, <1>2, WaitsMoves, GoesMoves, EndsMoves DEF Request
<1>3. CASE Work(i)
  BY <1>1, <1>3, GoesMoves, EndsMoves DEF Work
<1> QED
  BY <1>2, <1>3

-----------------------------------------------------------------------------
(* The registry.                                                           *)

\* The head of an entry.
LEMMA EntryHead ==
    ASSUME EntryTypes, NEW d \in Content
    PROVE  /\ Len(entry[d]) \in Nat /\ DOMAIN entry[d] = 1..Len(entry[d])
           /\ Len(entry[d]) >= 1 => /\ entry[d] # <<>> /\ StatusOf(d) = entry[d][1].status
                                    /\ JobOf(d) = entry[d][1].job /\ JobOf(d) \in Ids
           /\ Len(entry[d]) = 0 => entry[d] = <<>> /\ StatusOf(d) = "none" /\ JobOf(d) \notin Ids
           /\ StatusOf(d) \in Recoverable \/ JobOf(d) \in Ids => Len(entry[d]) >= 1
<1>1. /\ Len(entry[d]) \in Nat /\ DOMAIN entry[d] = 1..Len(entry[d])
      /\ entry[d] # <<>> <=> Len(entry[d]) >= 1
      /\ \A j \in 1..Len(entry[d]) : entry[d][j].job \in Ids
  BY EntryElements
<1>2. CASE entry[d] = <<>>
  <2>1. StatusOf(d) = "none" /\ JobOf(d) \notin Ids
    BY <1>2, IntakeNames DEF StatusOf, JobOf
  <2>2. StatusOf(d) \notin Recoverable
    BY <2>1 DEF Recoverable, Active
  <2> QED
    BY <1>1, <1>2, <2>1, <2>2
<1>3. CASE entry[d] # <<>>
  <2>1. 1 \in 1..Len(entry[d])
    BY <1>1, <1>3
  <2> QED
    BY <1>1, <1>3, <2>1 DEF StatusOf, JobOf
<1> QED
  BY <1>2, <1>3, Zenon

\* What marking does to a document of a request that has registered.
MarkedHead(d, i, status) ==
    \/ /\ Len(entry[d]) = 2 /\ Len(entry'[d]) = 1 /\ entry'[d][1] = entry[d][2]
       /\ status \in {"failed", "interrupted"}
    \/ status = "failed" /\ entry'[d] = entry[d] /\ StatusOf(d) \in {"ingested", "indexed"}
    \/ status \in {"ingested", "indexed"} /\ Len(entry'[d]) = 1 /\ entry'[d][1] = [status |-> status, job |-> i]
    \/ /\ status \notin {"ingested", "indexed"}
       /\ status \in {"failed", "interrupted"} => Len(entry[d]) = 1
       /\ Len(entry'[d]) = Len(entry[d]) /\ entry'[d][1] = [status |-> status, job |-> i]
       /\ Len(entry[d]) = 2 => entry'[d][2] = entry[d][2]

\* It marks an entry of its own, with at most one behind.
LEMMA MarkHeads ==
    ASSUME Shape, Heads, Stacked, NEW i \in Ids, req[i].step \in Mine, NEW status \in Statuses,
           MarkAll(i, status), NEW d \in req[i].docs
    PROVE  /\ d \in Content /\ JobOf(d) = i /\ Len(entry[d]) \in {1, 2}
           /\ MarkedHead(d, i, status)
<1>1. EntryTypes /\ d \in Content
  BY DEF Shape, RequestTypes, Requests
<1>2. JobOf(d) = i /\ Len(entry[d]) <= 2
  BY <1>1 DEF Heads, Stacked
<1>3. Len(entry[d]) \in Nat /\ Len(entry[d]) >= 1 /\ entry[d][1].job = i /\ entry[d] # <<>>
      /\ StatusOf(d) = entry[d][1].status
  <2>1. JobOf(d) \in Ids
    BY <1>2
  <2> HIDE DEF Heads
  <2>2. Len(entry[d]) \in Nat /\ Len(entry[d]) >= 1
    BY <1>1, <2>1, EntryHead
  <2> QED
    BY <1>1, <1>2, <2>2, EntryHead
<1>4. \A n \in Nat : n >= 1 /\ n <= 2 => n \in {1, 2}
  OBVIOUS
<1>5. Len(entry[d]) \in {1, 2}
  BY <1>2, <1>3, <1>4, Zenon
<1>6. Marked(entry[d], i, status, entry'[d])
  BY <1>1, MarkAllMoves
<1>7. CASE /\ status \in {"failed", "interrupted"} /\ Len(entry[d]) > 1 /\ Len(entry'[d]) = Len(entry[d]) - 1
           /\ \A j \in 1..Len(entry'[d]) : entry'[d][j] = entry[d][j + 1]
  <2>1. Len(entry[d]) = 2 /\ Len(entry'[d]) = 1
    BY <1>5, <1>7
  <2> QED
    BY <1>7, <2>1, <1>1, <1>2, <1>5 DEF MarkedHead
<1>8. CASE status = "failed" /\ entry[d][1].status \in {"ingested", "indexed"} /\ entry'[d] = entry[d]
  BY <1>8, <1>1, <1>2, <1>3, <1>5 DEF MarkedHead
<1>9. CASE /\ status \in {"ingested", "indexed"} /\ Len(entry'[d]) = 1
           /\ entry'[d][1] = [status |-> status, job |-> i]
  BY <1>9, <1>1, <1>2, <1>5 DEF MarkedHead
<1>10. CASE /\ status \notin {"ingested", "indexed"}
            /\ status \in {"failed", "interrupted"} => Len(entry[d]) = 1
            /\ Len(entry'[d]) = Len(entry[d]) /\ entry'[d][1] = [status |-> status, job |-> i]
            /\ \A j \in 2..Len(entry[d]) : entry'[d][j] = entry[d][j]
  <2>1. Len(entry[d]) = 2 => entry'[d][2] = entry[d][2]
    BY <1>10
  <2> QED
    BY <1>10, <2>1, <1>1, <1>2, <1>5 DEF MarkedHead
<1> QED
  BY <1>3, <1>6, <1>7, <1>8, <1>9, <1>10 DEF Marked

\* Nobody else's documents are marked.
LEMMA OthersUnmarked ==
    ASSUME Shape, Heads, NEW i \in Ids, req[i].step \in Mine, NEW status \in Statuses, MarkAll(i, status),
           NEW d \in Content, JobOf(d) # i
    PROVE  d \notin req[i].docs /\ entry'[d] = entry[d]
<1>1. d \notin req[i].docs
  BY DEF Heads
<1> QED
  BY <1>1, MarkAllMoves DEF Shape

\* An upload replaces no document that is on its way.
LEMMA RegisterApart ==
    ASSUME "overlap" \notin Incidents, Shape, Heads, Stacked, NEW i \in Ids, Register(i)
    PROVE  /\ \A d \in req[i].docs : d \in Content /\ StatusOf(d) \notin Active /\ Len(entry[d]) <= 1
           /\ \A k \in Ids \ {i} : req[k].step \in Mine => req[k].docs \cap req[i].docs = {}
<1>1. \A d \in req[i].docs : StatusOf(d) \notin Active
  BY DEF Register, Allowed
<1>2. \A d \in req[i].docs : d \in Content
  BY DEF Shape, RequestTypes, Requests
<1>3. \A d \in req[i].docs : Len(entry[d]) <= 1
  <2> TAKE d \in req[i].docs
  <2>1. Len(entry[d]) \in Nat
    BY <1>2, EntryElements DEF Shape
  <2>2. Len(entry[d]) <= 2 /\ Len(entry[d]) # 2
    BY <1>1, <1>2 DEF Stacked
  <2>3. \A n \in Nat : n <= 2 /\ n # 2 => n <= 1
    OBVIOUS
  <2> QED
    BY <2>1, <2>2, <2>3, Zenon
<1>4. ASSUME NEW k \in Ids \ {i}, req[k].step \in Mine PROVE req[k].docs \cap req[i].docs = {}
  <2>1. SUFFICES ASSUME NEW d \in req[k].docs \cap req[i].docs PROVE FALSE
    OBVIOUS
  <2>2. k \in Live
    BY <1>4 DEF Live, Mine
  <2>3. k \in InFlight
    BY <2>1, <2>2 DEF Register, Allowed
  <2>4. req[k].step = "registered"
    BY <2>3, <1>4 DEF InFlight, Mine
  <2>5. StatusOf(d) = "queued"
    BY <2>1, <2>4, <1>4 DEF Heads
  <2> QED
    BY <2>1, <2>5, <1>1 DEF Active
<1> QED
  BY <1>1, <1>2, <1>3, <1>4

\* A request that has registered keeps its entries: nobody replaces them before it
\* ends, and after a crash the registry gives them back.
LEMMA HeadsKept ==
    ASSUME "overlap" \notin Incidents
    PROVE  SInv /\ SInv' /\ Heads /\ Stacked /\ [Next]_vars => Heads'
<1> DEFINE H(k, d) == /\ JobOf(d) = k /\ StatusOf(d) \in Recoverable
                      /\ req[k].step = "registered" => StatusOf(d) = "queued"
                      /\ req[k].step \in {"ingesting", "prepared", "extracted"} => StatusOf(d) = "ingesting"
                      /\ req[k].step \in {"ingested", "indexed"} => StatusOf(d) = "ingested"
                      /\ Len(entry[d]) > 1 => d \in req[k].forced
<1> SUFFICES ASSUME SInv, SInv', Heads, Stacked, [Next]_vars, NEW k \in Ids, req'[k].step \in Mine,
                    NEW d \in req'[k].docs
             PROVE  H(k, d)'
  BY DEF Heads
<1>0. Shape /\ Shape' /\ d \in Content
  BY DEF SInv, Shape, RequestTypes, Requests
<1>1. \A j \in Ids : req[j].step \in Mine => \A x \in req[j].docs : H(j, x)
  BY DEF Heads
<1>2. CASE UNCHANGED <<req, staged, saved, agreed, entry>>
  BY <1>1, <1>2 DEF StatusOf, JobOf
<1>3. ASSUME req'[k] = req[k], entry'[d] = entry[d] PROVE H(k, d)'
  BY <1>1, <1>3 DEF StatusOf, JobOf
<1>4. CASE Crash
  <2>1. DocsLeft(k) # {}
    BY <1>4 DEF Crash, NoReq, Mine
  <2>2. req'[k] = [NoReq EXCEPT !.docs = DocsLeft(k), !.forced = {x \in DocsLeft(k) : Len(entry[x]) > 1},
                                !.again = TRUE, !.step = ResumeAt(k)]
    BY <1>4, <2>1 DEF Crash
  <2>3. /\ req'[k].docs = DocsLeft(k) /\ req'[k].forced = {x \in DocsLeft(k) : Len(entry[x]) > 1}
        /\ req'[k].step = ResumeAt(k)
    BY <2>2 DEF NoReq
  <2>4. JobOf(d) = k /\ StatusOf(d) \in Recoverable
    BY <2>3 DEF DocsLeft
  <2>5. ResumeAt(k) = "queued" \/ (ResumeAt(k) = "ingested" /\ StatusOf(d) = "ingested")
    BY <2>3 DEF ResumeAt
  <2>6. entry' = entry
    BY <1>4 DEF Crash
  <2> QED
    BY <2>3, <2>4, <2>5, <2>6 DEF StatusOf, JobOf
<1>5. ASSUME NEW i \in Ids, Alone(i), Waits(i) PROVE H(k, d)'
  <2>1. k # i
    BY <1>5 DEF Waits, Mine, Pending
  <2> QED
    BY <2>1, <1>3, <1>5 DEF Waits, Alone
<1>6. ASSUME NEW i \in Ids, Alone(i), Register(i) PROVE H(k, d)'
  <2>1. PICK forced \in SUBSET req[i].found : Registers(i, forced)
    BY <1>6, <1>0, RegisterEntries DEF Shape
  <2>2. CASE k = i
    <3>1. /\ req'[i].docs = req[i].docs /\ req'[i].forced = forced /\ req'[i].step = "registered"
      BY <2>1, <1>0 DEF Registers, Shape, RequestTypes, Requests
    <3>2. d \in req[i].docs \cap Content
      BY <3>1, <2>2, <1>0
    <3>3. entry'[d][1] = [status |-> "queued", job |-> i] /\ (d \notin forced => Len(entry'[d]) = 1)
      BY <2>1, <3>2 DEF Registers
    <3>4. Len(entry'[d]) >= 1
      <4>1. Len(entry[d]) \in Nat /\ Len(entry'[d]) \in {1, Len(entry[d]) + 1}
        BY <2>1, <3>2, <1>0, EntryElements DEF Registers, Shape
      <4>2. \A n \in Nat : \A m \in {1, n + 1} : m >= 1
        OBVIOUS
      <4> QED
        BY <4>1, <4>2, Zenon
    <3>5. StatusOf(d)' = "queued" /\ JobOf(d)' = i
      <4>1. entry'[d] # <<>>
        BY <3>4, EmptySeq
      <4> QED
        BY <4>1, <3>3 DEF StatusOf, JobOf
    <3> QED
      <4>1. Len(entry'[d]) > 1 => d \in req'[i].forced
        <5>1. \A m : m = 1 => ~(m > 1)
          OBVIOUS
        <5> QED
          BY <3>1, <3>3, <5>1, Zenon
      <4> QED
        BY <4>1, <3>1, <3>5, <2>2 DEF Recoverable, Active
  <2>3. CASE k # i
    <3>1. req'[k] = req[k]
      BY <2>3, <1>6 DEF Alone
    <3>2. d \notin req[i].docs
      BY <3>1, <2>3, <1>6, <1>0, RegisterApart
    <3> QED
      BY <3>1, <3>2, <2>1, <1>3, <1>0 DEF Registers
  <2> QED
    BY <2>2, <2>3
<1>7. ASSUME NEW i \in Ids, Alone(i), Goes(i) PROVE H(k, d)'
  <2>1. CASE k # i
    <3>1. req'[k] = req[k] /\ JobOf(d) = k
      BY <2>1, <1>7, <1>1 DEF Alone
    <3>2. entry' = entry \/ \E status \in Statuses : MarkAll(i, status)
      BY <1>7 DEF Goes, Statuses, Blocking
    <3>3. entry'[d] = entry[d]
      BY <3>1, <3>2, <2>1, <1>0, <1>7, OthersUnmarked DEF Goes
    <3> QED
      BY <3>1, <3>3, <1>3
  <2>2. CASE k = i
    <3>1. /\ d \in req[i].docs /\ H(i, d) /\ req'[i].forced = req[i].forced
      BY <2>2, <1>7, <1>1 DEF Goes
    <3>3. ASSUME NEW status \in {"saving_uploads", "ingesting", "ingested"}, MarkAll(i, status),
                 \/ status = "saving_uploads" /\ req'[i].step = "saved"
                 \/ status = "ingesting" /\ req'[i].step = "ingesting"
                 \/ status = "ingested" /\ req'[i].step = "ingested"
          PROVE  H(k, d)'
      <4>1. MarkedHead(d, i, status) /\ Len(entry[d]) \in {1, 2}
        BY <3>1, <3>3, <1>0, <1>7, MarkHeads DEF Goes, Statuses, Blocking
      <4>2. /\ entry'[d][1] = [status |-> status, job |-> i] /\ Len(entry'[d]) \in {1, 2}
            /\ Len(entry'[d]) > 1 => Len(entry[d]) > 1
        BY <4>1 DEF MarkedHead
      <4>3. entry'[d] # <<>>
        BY <4>2, EmptySeq
      <4>4. StatusOf(d)' = status /\ JobOf(d)' = i
        BY <4>2, <4>3 DEF StatusOf, JobOf
      <4>5. Len(entry'[d]) > 1 => d \in req'[i].forced
        BY <4>2, <3>1
      <4> QED
        BY <4>4, <4>5, <3>3, <2>2 DEF Recoverable, Active
    <3>2. CASE entry' = entry
      <4>1. StatusOf(d)' = StatusOf(d) /\ JobOf(d)' = JobOf(d) /\ Len(entry'[d]) = Len(entry[d])
        BY <3>2 DEF StatusOf, JobOf
      <4>3. CASE \/ req'[i].step \in {"queued", "saved"}
                 \/ req[i].step = "ingesting" /\ req'[i].step = "prepared"
                 \/ req[i].step = "prepared" /\ req'[i].step = "extracted"
                 \/ req[i].step = "ingested" /\ req'[i].step = "indexed"
        BY <3>1, <4>1, <4>3, <2>2
      <4>4. CASE \/ MarkAll(i, "ingesting") /\ req'[i].step = "ingesting"
                 \/ MarkAll(i, "ingested") /\ req'[i].step = "ingested"
        BY <4>4, <3>3
      <4> QED
        BY <4>3, <4>4, <1>7 DEF Goes
    <3> QED
      BY <3>2, <3>3, <1>7 DEF Goes
  <2> QED
    BY <2>1, <2>2
<1>8. ASSUME NEW i \in Ids, Alone(i), NEW status \in Statuses, Ends(i, status) PROVE H(k, d)'
  <2>1. k # i
    BY <1>8 DEF Ends, Mine
  <2>2. req'[k] = req[k] /\ JobOf(d) = k
    BY <2>1, <1>8, <1>1 DEF Alone
  <2>3. entry'[d] = entry[d]
    BY <2>1, <2>2, <1>0, <1>8, OthersUnmarked DEF Ends
  <2> QED
    BY <2>2, <2>3, <1>3
<1> QED
  BY <1>2, <1>4, <1>5, <1>6, <1>7, <1>8, Kinds

\* What a step does to the entry of a document.
Replaced(d, i) ==
    /\ Register(i) /\ d \in req[i].docs
    /\ entry'[d][1] = [status |-> "queued", job |-> i] /\ Len(entry[d]) <= 1
    /\ \/ Len(entry'[d]) = 1
       \/ Len(entry'[d]) = 2 /\ Len(entry[d]) = 1 /\ entry'[d][2] = entry[d][1]
\* A job that goes on marks it, ...
GoesMarked(d, i, status) ==
    /\ Goes(i) /\ d \in req[i].docs /\ MarkAll(i, status) /\ MarkedHead(d, i, status)
    /\ \/ status = "saving_uploads" /\ req'[i].step = "saved"
       \/ status = "ingesting" /\ req'[i].step = "ingesting"
       \/ status = "ingested" /\ req'[i].step = "ingested" /\ req[i].step = "extracted"
\* ... or one that ends.
EndsMarked(d, i, status) ==
    Ends(i, status) /\ d \in req[i].docs /\ MarkedHead(d, i, status)

\* A step leaves it alone, replaces it or marks it.
LEMMA EntryChanges ==
    ASSUME "overlap" \notin Incidents, SInv, SInv', Heads, Stacked, [Next]_vars, NEW d \in Content
    PROVE  \/ /\ entry'[d] = entry[d]
              /\ \/ Crash
                 \/ req' = req /\ staged' = staged /\ saved' = saved /\ UNCHANGED <<md, rows>>
                 \/ \E i \in Ids : /\ Alone(i)
                                   /\ Waits(i) \/ Register(i) \/ Goes(i) \/ \E s \in Statuses : Ends(i, s)
                                   /\ Register(i) => d \notin req[i].docs
                                   /\ (\E s \in Statuses : Ends(i, s)) => d \notin req[i].docs
           \/ \E i \in Ids : Alone(i) /\ Replaced(d, i)
           \/ \E i \in Ids, s \in Statuses : Alone(i) /\ (GoesMarked(d, i, s) \/ EndsMarked(d, i, s))
<1> DEFINE Same == /\ entry'[d] = entry[d]
                   /\ \/ Crash
                      \/ req' = req /\ staged' = staged /\ saved' = saved /\ UNCHANGED <<md, rows>>
                      \/ \E i \in Ids : /\ Alone(i)
                                        /\ Waits(i) \/ Register(i) \/ Goes(i) \/ \E s \in Statuses : Ends(i, s)
                                        /\ Register(i) => d \notin req[i].docs
                                        /\ (\E s \in Statuses : Ends(i, s)) => d \notin req[i].docs
           Rep == \E i \in Ids : Alone(i) /\ Replaced(d, i)
           Mar == \E i \in Ids, s \in Statuses : Alone(i) /\ (GoesMarked(d, i, s) \/ EndsMarked(d, i, s))
<1>0. Shape
  BY DEF SInv
<1>1. CASE Crash
  <2>1. entry'[d] = entry[d]
    BY <1>1 DEF Crash
  <2> QED
    BY <1>1, <2>1
<1>2. CASE UNCHANGED <<req, staged, saved, agreed, entry>> /\ UNCHANGED <<md, rows>>
  BY <1>2
<1>3. ASSUME NEW i \in Ids, Alone(i), Waits(i) PROVE Same
  <2>1. ~Register(i) /\ ~\E s \in Statuses : Ends(i, s)
    <3>1. req'[i].step \in Pending \cup {"free"}
      BY <1>3 DEF Waits
    <3>2. Register(i) => req'[i].step = "registered"
      BY <1>0 DEF Register, Shape, RequestTypes, Requests
    <3> QED
      BY <3>1, <3>2 DEF Ends, Pending
  <2> QED
    BY <1>3, <2>1 DEF Waits
<1>4. ASSUME NEW i \in Ids, Alone(i), Register(i) PROVE Same \/ Rep
  <2>1. PICK forced \in SUBSET req[i].found : Registers(i, forced)
    BY <1>4, <1>0, RegisterEntries DEF Shape
  <2>2. CASE d \in req[i].docs
    <3>1. Len(entry[d]) <= 1
      BY <1>4, <2>2, <1>0, RegisterApart
    <3>2. /\ entry'[d][1] = [status |-> "queued", job |-> i]
          /\ d \notin forced => Len(entry'[d]) = 1
          /\ d \in forced => /\ Len(entry'[d]) = Len(entry[d]) + 1
                             /\ \A j \in 1..Len(entry[d]) : entry'[d][j + 1] = entry[d][j]
      BY <2>1, <2>2 DEF Registers
    <3>3. Len(entry[d]) = 0 \/ Len(entry[d]) = 1
      <4>1. Len(entry[d]) \in Nat
        BY <1>0, EntryElements DEF Shape
      <4>2. \A n \in Nat : n <= 1 => n = 0 \/ n = 1
        OBVIOUS
      <4> QED
        BY <3>1, <4>1, <4>2, Zenon
    <3>4. CASE d \notin forced \/ Len(entry[d]) = 0
      <4>0. 0 + 1 = 1
        OBVIOUS
      <4>1. Len(entry'[d]) = 1
        <5>1. CASE d \notin forced
          BY <3>2, <5>1
        <5>2. CASE d \in forced /\ Len(entry[d]) = 0
          BY <3>2, <5>2, <4>0, Zenon
        <5> QED
          BY <5>1, <5>2, <3>4
      <4> QED
        BY <4>1, <3>1, <3>2, <2>2, <1>4 DEF Replaced
    <3>5. CASE d \in forced /\ Len(entry[d]) = 1
      <4>1. Len(entry'[d]) = 2 /\ entry'[d][2] = entry[d][1]
        BY <3>2, <3>5
      <4> QED
        BY <4>1, <3>1, <3>2, <3>5, <2>2, <1>4 DEF Replaced
    <3> QED
      BY <3>3, <3>4, <3>5
  <2>3. CASE d \notin req[i].docs
    <3>1. entry'[d] = entry[d]
      BY <2>1, <2>3 DEF Registers
    <3> QED
      BY <3>1, <2>3, <1>4
  <2> QED
    BY <2>2, <2>3
<1>5. ASSUME NEW i \in Ids, Alone(i), Goes(i) PROVE Same \/ Mar
  <2>0. ~Register(i) /\ ~\E s \in Statuses : Ends(i, s)
    BY <1>5 DEF Register, Goes, Ends, Mine
  <2>1. CASE entry' = entry
    BY <2>0, <2>1, <1>5
  <2>2. ASSUME NEW s \in {"saving_uploads", "ingesting", "ingested"}, MarkAll(i, s),
               \/ s = "saving_uploads" /\ req'[i].step = "saved"
               \/ s = "ingesting" /\ req'[i].step = "ingesting"
               \/ s = "ingested" /\ req'[i].step = "ingested" /\ req[i].step = "extracted"
        PROVE  Same \/ Mar
    <3>1. s \in Statuses
      BY <2>2 DEF Statuses, Blocking
    <3>2. CASE d \in req[i].docs
      <4>1. MarkedHead(d, i, s)
        BY <3>1, <3>2, <2>2, <1>5, <1>0, MarkHeads DEF Goes
      <4>2. GoesMarked(d, i, s)
        BY <4>1, <3>2, <2>2, <1>5 DEF GoesMarked
      <4> QED
        BY <4>2, <3>1, <1>5
    <3>3. CASE d \notin req[i].docs
      <4>1. entry'[d] = entry[d]
        BY <3>1, <3>3, <2>2, <1>0, MarkAllMoves DEF Shape
      <4> QED
        BY <4>1, <2>0, <1>5
    <3> QED
      BY <3>2, <3>3
  <2> QED
    BY <2>1, <2>2, <1>5 DEF Goes
<1>6. ASSUME NEW i \in Ids, Alone(i), NEW s \in Statuses, Ends(i, s) PROVE Same \/ Mar
  <2>0. ~Register(i)
    BY <1>6 DEF Register, Ends, Mine
  <2>1. CASE d \in req[i].docs
    <3>1. MarkedHead(d, i, s)
      BY <2>1, <1>6, <1>0, MarkHeads DEF Ends
    <3> QED
      BY <3>1, <2>1, <1>6 DEF EndsMarked
  <2>2. CASE d \notin req[i].docs
    <3>1. entry'[d] = entry[d]
      BY <2>2, <1>6, <1>0, MarkAllMoves DEF Ends, Shape
    <3> QED
      BY <3>1, <2>0, <2>2, <1>6
  <2> QED
    BY <2>1, <2>2
<1> QED
  BY <1>1, <1>2, <1>3, <1>4, <1>5, <1>6, Kinds

\* An entry is replaced when it is not on its way, and what it replaced goes when
\* it is ingested, or comes back.
LEMMA StackedKept ==
    ASSUME "overlap" \notin Incidents
    PROVE  SInv /\ SInv' /\ Heads /\ Stacked /\ [Next]_vars => Stacked'
<1> SUFFICES ASSUME SInv, SInv', Heads, Stacked, [Next]_vars, NEW d \in Content
             PROVE  /\ Len(entry'[d]) <= 2
                    /\ Len(entry'[d]) = 2 => StatusOf(d)' \in Active /\ entry'[d][2].status \notin Active
  BY DEF Stacked
<1>0. EntryTypes /\ EntryTypes' /\ 1 <= 2 /\ 2 <= 2 /\ 1 # 2
  BY DEF SInv, Shape
<1>1. Len(entry[d]) <= 2 /\ (Len(entry[d]) = 2 => StatusOf(d) \in Active /\ entry[d][2].status \notin Active)
  BY DEF Stacked
<1>2. CASE entry'[d] = entry[d]
  BY <1>1, <1>2 DEF StatusOf
<1>3. Len(entry'[d]) = 2 => StatusOf(d)' = entry'[d][1].status
  BY <1>0, EmptySeq DEF StatusOf
<1>4. ASSUME NEW i \in Ids, Replaced(d, i)
      PROVE  /\ Len(entry'[d]) <= 2
             /\ Len(entry'[d]) = 2 => StatusOf(d)' \in Active /\ entry'[d][2].status \notin Active
  <2>1. d \in req[i].docs => StatusOf(d) \notin Active
    BY <1>4, <1>0, RegisterApart DEF Replaced, SInv
  <2>2. Len(entry[d]) = 1 => StatusOf(d) = entry[d][1].status
    BY <1>0, EmptySeq DEF StatusOf
  <2>3. entry'[d][1].status = "queued"
    BY <1>4 DEF Replaced
  <2>4. CASE Len(entry'[d]) = 1
    BY <2>4, <1>0
  <2>5. CASE Len(entry'[d]) = 2 /\ Len(entry[d]) = 1 /\ entry'[d][2] = entry[d][1]
    <3>1. StatusOf(d)' = "queued" /\ entry'[d][2].status = StatusOf(d)
      BY <2>2, <2>3, <2>5, <1>3
    <3> QED
      BY <3>1, <2>1, <2>5, <1>0, <1>4 DEF Replaced, Active
  <2> QED
    BY <2>4, <2>5, <1>4 DEF Replaced
<1>5. ASSUME NEW i \in Ids, NEW s \in Statuses, MarkedHead(d, i, s)
      PROVE  /\ Len(entry'[d]) <= 2
             /\ Len(entry'[d]) = 2 => StatusOf(d)' \in Active /\ entry'[d][2].status \notin Active
  <2>1. CASE Len(entry'[d]) = 1
    BY <2>1, <1>0
  <2>2. CASE /\ s \notin {"ingested", "indexed"}
             /\ s \in {"failed", "interrupted"} => Len(entry[d]) = 1
             /\ Len(entry'[d]) = Len(entry[d]) /\ entry'[d][1] = [status |-> s, job |-> i]
             /\ Len(entry[d]) = 2 => entry'[d][2] = entry[d][2]
    <3>1. Len(entry'[d]) = 2 => s \in Active
      BY <2>2, <1>0 DEF Statuses, Blocking, Active
    <3> QED
      BY <3>1, <2>2, <1>1, <1>3
  <2> QED
    BY <1>2, <1>5, <2>1, <2>2 DEF MarkedHead
<1> QED
  BY <1>2, <1>4, <1>5, EntryChanges DEF GoesMarked, EndsMarked

\* The head of an entry after a step.
LEMMA NewHead ==
    ASSUME NEW d, Len(entry'[d]) \in {1, 2}
    PROVE  StatusOf(d)' = entry'[d][1].status /\ JobOf(d)' = entry'[d][1].job
BY EmptySeq DEF StatusOf, JobOf

\* What registering does to the request.
LEMMA RegisterSteps ==
    ASSUME Shape, NEW i \in Ids, Register(i)
    PROVE  /\ req[i].step = "checked" /\ req'[i].step = "registered" /\ req'[i].docs = req[i].docs
           /\ UNCHANGED disk
BY DEF Shape, RequestTypes, Requests, Register

\* What a crash does to a request.
LEMMA CrashMoves ==
    ASSUME Shape, Crash, NEW k \in Ids
    PROVE  /\ entry' = entry /\ UNCHANGED <<saved, md, rows, agreed>>
           /\ staged'[k] = IF req[k].step \in Pending THEN {} ELSE staged[k]
           /\ \/ /\ DocsLeft(k) # {} /\ req'[k].docs = DocsLeft(k)
                 /\ req'[k].forced = {d \in DocsLeft(k) : Len(entry[d]) > 1}
                 /\ req'[k].again /\ req'[k].step \in {"queued", "ingested"}
              \/ DocsLeft(k) = {} /\ req'[k].step \in {"free", "ended"}
<1>1. /\ entry' = entry /\ UNCHANGED <<saved, md, rows, agreed>>
      /\ staged'[k] = IF req[k].step \in Pending THEN {} ELSE staged[k]
  BY DEF Crash, Pending
<1>2. CASE DocsLeft(k) # {}
  <2>1. req'[k] = [NoReq EXCEPT !.docs = DocsLeft(k), !.forced = {x \in DocsLeft(k) : Len(entry[x]) > 1},
                                !.again = TRUE, !.step = ResumeAt(k)]
    BY <1>2 DEF Crash
  <2>2. /\ req'[k].docs = DocsLeft(k) /\ req'[k].forced = {x \in DocsLeft(k) : Len(entry[x]) > 1}
        /\ req'[k].again /\ req'[k].step = ResumeAt(k)
    BY <2>1 DEF NoReq
  <2> QED
    BY <1>1, <1>2, <2>2 DEF ResumeAt
<1>3. CASE DocsLeft(k) = {}
  <2>1. req'[k].step \in {"free", "ended"}
    BY <1>3 DEF Crash, NoReq
  <2> QED
    BY <1>1, <1>3, <2>1
<1> QED
  BY <1>2, <1>3

\* Who brings a document keeps doing so until it marks its entry as over; after a
\* crash the registry finds it.
LEMMA BroughtKept ==
    ASSUME "overlap" \notin Incidents
    PROVE  SInv /\ SInv' /\ Heads /\ Stacked /\ Brought /\ [Next]_vars => Brought'
<1> SUFFICES ASSUME SInv, SInv', Heads, Stacked, Brought, [Next]_vars,
                    NEW d \in Content, StatusOf(d)' \in Active
             PROVE  req'[JobOf(d)'].step \in Mine /\ d \in req'[JobOf(d)'].docs
  BY DEF Brought
<1>0. Shape
  BY DEF SInv
<1>1. ASSUME entry'[d] = entry[d]
      PROVE  /\ JobOf(d)' = JobOf(d) /\ StatusOf(d)' = StatusOf(d) /\ JobOf(d) \in Ids
             /\ req[JobOf(d)].step \in Mine /\ d \in req[JobOf(d)].docs
  <2>1. JobOf(d)' = JobOf(d) /\ StatusOf(d)' = StatusOf(d)
    BY <1>1 DEF JobOf, StatusOf
  <2>2. StatusOf(d) \in Active /\ StatusOf(d) \in Recoverable
    BY <2>1 DEF Recoverable
  <2>3. JobOf(d) \in Ids
    BY <2>2, <1>0, EntryHead DEF Shape
  <2> QED
    BY <2>1, <2>2, <2>3 DEF Brought
<1>2. CASE entry'[d] = entry[d] /\ Crash
  <2>1. d \in DocsLeft(JobOf(d))
    BY <1>1, <1>2 DEF DocsLeft, Recoverable
  <2> QED
    BY <2>1, <1>0, <1>1, <1>2, CrashMoves DEF Mine
<1>3. CASE entry'[d] = entry[d] /\ req' = req
  BY <1>1, <1>3
<1>4. ASSUME NEW i \in Ids, Alone(i), entry'[d] = entry[d],
             Waits(i) \/ Register(i) \/ Goes(i) \/ \E s \in Statuses : Ends(i, s),
             (\E s \in Statuses : Ends(i, s)) => d \notin req[i].docs
      PROVE  req'[JobOf(d)'].step \in Mine /\ d \in req'[JobOf(d)'].docs
  <2>1. CASE JobOf(d) # i
    BY <2>1, <1>1, <1>4 DEF Alone
  <2>2. CASE JobOf(d) = i
    <3>1. ~Waits(i) /\ ~Register(i) /\ Goes(i)
      BY <2>2, <1>1, <1>4 DEF Waits, Register, Mine, Pending
    <3> QED
      BY <3>1, <2>2, <1>1, <1>4 DEF Goes
  <2> QED
    BY <2>1, <2>2
<1>5. ASSUME NEW i \in Ids, Replaced(d, i)
      PROVE  req'[JobOf(d)'].step \in Mine /\ d \in req'[JobOf(d)'].docs
  <2>1. JobOf(d)' = i
    BY <1>5, NewHead DEF Replaced
  <2> QED
    BY <2>1, <1>0, <1>5, RegisterSteps DEF Replaced, Mine
<1>6. ASSUME NEW i \in Ids, NEW s \in Statuses, GoesMarked(d, i, s)
      PROVE  req'[JobOf(d)'].step \in Mine /\ d \in req'[JobOf(d)'].docs
  <2>1. Len(entry[d]) \in {1, 2}
    BY <1>6, <1>0, MarkHeads DEF GoesMarked, Goes
  <2>2. entry'[d][1].job = i /\ Len(entry'[d]) \in {1, 2}
    BY <2>1, <1>6 DEF GoesMarked, MarkedHead
  <2>3. JobOf(d)' = i
    BY <2>2, NewHead
  <2> QED
    BY <2>3, <1>6 DEF GoesMarked, Goes
<1>7. ASSUME NEW i \in Ids, NEW s \in Statuses, EndsMarked(d, i, s) PROVE FALSE
  <2>0. Len(entry[d]) \in {1, 2} /\ JobOf(d) = i
    BY <1>7, <1>0, MarkHeads DEF EndsMarked, Ends
  <2>1. CASE Len(entry[d]) = 2 /\ Len(entry'[d]) = 1 /\ entry'[d][1] = entry[d][2]
    BY <2>1, NewHead DEF Stacked
  <2>2. CASE entry'[d] = entry[d] /\ StatusOf(d) \in {"ingested", "indexed"}
    BY <2>2, <1>1 DEF Active
  <2>3. CASE /\ entry'[d][1] = [status |-> s, job |-> i] /\ Len(entry'[d]) \in {1, 2}
    <3>1. StatusOf(d)' = s
      BY <2>3, NewHead
    <3> QED
      BY <3>1, <1>7 DEF EndsMarked, Ends, Active
  <2> QED
    BY <2>0, <2>1, <2>2, <2>3, <1>7 DEF EndsMarked, MarkedHead
<1> QED
  BY <1>2, <1>3, <1>4, <1>5, <1>6, <1>7, EntryChanges

\* A request gets to the registry by registering.
LEMMA OnlyRegisters ==
    ASSUME SInv, SInv', [Next]_vars, NEW k \in Ids, req'[k].step = "registered"
    PROVE  req'[k] = req[k] \/ Register(k)
<1>0. Shape
  BY DEF SInv
<1>1. ~Crash
  BY <1>0, CrashMoves
<1>2. ASSUME NEW i \in Ids, Alone(i), Waits(i) \/ Register(i) \/ Goes(i) \/ \E s \in Statuses : Ends(i, s)
      PROVE  req'[k] = req[k] \/ Register(k)
  <2>1. CASE k # i
    BY <2>1, <1>2 DEF Alone
  <2>2. CASE k = i
    BY <2>2, <1>2 DEF Waits, Goes, Ends, Pending, Mine
  <2> QED
    BY <2>1, <2>2
<1> QED
  BY <1>1, <1>2, Kinds

\* A new request is named by the entries that it made, until it is queued.
LEMMA FreshKept ==
    ASSUME "overlap" \notin Incidents
    PROVE  SInv /\ SInv' /\ Heads /\ Stacked /\ Fresh /\ [Next]_vars => Fresh'
<1> SUFFICES ASSUME SInv, SInv', Heads, Stacked, Fresh, [Next]_vars,
                    NEW d \in Content, NEW j \in DOMAIN entry'[d],
                    NEW k \in Ids, k = entry'[d][j].job, req'[k].step = "registered"
             PROVE  d \in req'[k].docs /\ j = 1
  <2>1. ASSUME SInv', NEW d \in Content, NEW j \in DOMAIN entry'[d] PROVE entry'[d][j].job \in Ids
    <3>1. entry'[d] \in Seq(Entries)
      BY <2>1 DEF SInv, Shape, EntryTypes
    <3>2. entry'[d][j] \in Entries
      BY <3>1, <2>1, ElementOfSeq, LenProperties
    <3> QED
      BY <3>2 DEF Entries
  <2> QED
    BY <2>1 DEF Fresh
<1>0. Shape /\ Issued
  BY DEF SInv
<1>1. \A h \in DOMAIN entry[d] : entry[d][h].job = k => ~Register(k)
  BY <1>0 DEF Issued, Register, Mine
<1>2. ASSUME NEW h \in DOMAIN entry[d], entry[d][h].job = k
      PROVE  /\ req'[k] = req[k] /\ req[k].step = "registered"
             /\ d \in req[k].docs /\ d \in req'[k].docs /\ h = 1
  <2>1. req'[k] = req[k]
    BY <1>1, <1>2, OnlyRegisters
  <2> QED
    BY <2>1, <1>2 DEF Fresh
<1>3. CASE entry'[d] = entry[d]
  BY <1>2, <1>3
<1>4. Len(entry[d]) = 1 => 1 \in DOMAIN entry[d]
  BY <1>0, EntryHead DEF Shape
<1>5. Len(entry[d]) = 2 => 1 \in DOMAIN entry[d] /\ 2 \in DOMAIN entry[d]
  BY <1>0, EntryHead DEF Shape
<1>6. /\ Len(entry'[d]) = 1 => j = 1
      /\ Len(entry'[d]) = 2 => j = 1 \/ j = 2
  <2>1. DOMAIN entry'[d] = 1..Len(entry'[d])
    BY EntryElements DEF SInv, Shape, EntryTypes
  <2> QED
    BY <2>1
<1>7. ASSUME NEW i \in Ids, Alone(i), Replaced(d, i) PROVE d \in req'[k].docs /\ j = 1
  <2>1. req[i].step = "checked" /\ req'[i].docs = req[i].docs /\ d \in req[i].docs
    BY <1>7, <1>0, RegisterSteps DEF Replaced
  <2>2. CASE j = 1
    BY <2>1, <2>2, <1>7 DEF Replaced
  <2>3. CASE j = 2 /\ Len(entry[d]) = 1 /\ entry'[d][2] = entry[d][1]
    <3>1. req[k].step = "registered" /\ d \in req[k].docs
      BY <2>3, <1>2, <1>4
    <3>2. k # i /\ req[k].step \in Mine
      BY <3>1, <2>1 DEF Mine
    <3>3. FALSE
      BY <3>1, <3>2, <2>1, <1>0, <1>7, RegisterApart DEF Replaced
    <3> QED
      BY <3>3
  <2> QED
    BY <2>2, <2>3, <1>6, <1>7 DEF Replaced
<1>8. ASSUME NEW i \in Ids, NEW s \in Statuses, MarkedHead(d, i, s), req'[i].step # "registered",
             Len(entry[d]) \in {1, 2}
      PROVE  d \in req'[k].docs /\ j = 1
  <2>1. CASE Len(entry[d]) = 2 /\ Len(entry'[d]) = 1 /\ entry'[d][1] = entry[d][2]
    BY <2>1, <1>2, <1>5, <1>6
  <2>2. CASE Len(entry'[d]) = 1 /\ entry'[d][1].job = i
    BY <2>2, <1>6, <1>8
  <2>3. CASE /\ Len(entry'[d]) = Len(entry[d]) /\ entry'[d][1].job = i
             /\ Len(entry[d]) = 2 => entry'[d][2] = entry[d][2]
    <3>1. j # 1
      BY <2>3, <1>8
    <3>2. Len(entry[d]) = 2 /\ j = 2
      BY <3>1, <2>3, <1>6, <1>8
    <3> QED
      BY <3>2, <2>3, <1>2, <1>5
  <2> QED
    BY <2>1, <2>2, <2>3, <1>3, <1>8 DEF MarkedHead
<1>9. ASSUME NEW i \in Ids, NEW s \in Statuses, GoesMarked(d, i, s) \/ EndsMarked(d, i, s)
      PROVE  d \in req'[k].docs /\ j = 1
  <2>1. Len(entry[d]) \in {1, 2}
    BY <1>9, <1>0, MarkHeads DEF GoesMarked, Goes, EndsMarked, Ends
  <2> QED
    BY <2>1, <1>8, <1>9 DEF GoesMarked, Goes, EndsMarked, Ends
<1> QED
  BY <1>3, <1>7, <1>9, EntryChanges

\* A job copies a PDF before it removes it, and a request whose directory is
\* removed has no entry that recovery looks at.
LEMMA FiledKept ==
    ASSUME "overlap" \notin Incidents
    PROVE  SInv /\ SInv' /\ Heads /\ Stacked /\ Fresh /\ Filed /\ [Next]_vars => Filed'
<1> SUFFICES ASSUME SInv, SInv', Heads, Stacked, Fresh, Filed, [Next]_vars,
                    NEW d \in Content, NEW j \in DOMAIN entry'[d], entry'[d][j].status \in Recoverable
             PROVE  d \in staged'[entry'[d][j].job] \cup saved'[entry'[d][j].job]
  BY DEF Filed
<1> DEFINE InIt(k) == d \in staged[k] \cup saved[k]
<1>0. Shape /\ Issued /\ Formed
  BY DEF SInv
<1>1. \A h \in DOMAIN entry[d] : /\ entry[d][h].job \in Ids
                                 /\ req[entry[d][h].job].step \notin Pending \cup {"free", "checked"}
                                 /\ entry[d][h].status \in Recoverable => InIt(entry[d][h].job)
  <2> TAKE h \in DOMAIN entry[d]
  <2>1. entry[d][h].job \in Ids
    BY <1>0, EntryElements DEF Shape
  <2>2. req[entry[d][h].job].step \in Mine \cup {"ended"}
    BY <1>0 DEF Issued
  <2> QED
    BY <2>1, <2>2 DEF Filed, Mine, Pending
<1>2. Len(entry[d]) = 1 => 1 \in DOMAIN entry[d]
  BY <1>0, EntryHead DEF Shape
<1>3. Len(entry[d]) = 2 => 1 \in DOMAIN entry[d] /\ 2 \in DOMAIN entry[d]
  BY <1>0, EntryHead DEF Shape
<1>4. /\ Len(entry'[d]) = 1 => j = 1
      /\ Len(entry'[d]) = 2 => j = 1 \/ j = 2
  <2>1. DOMAIN entry'[d] = 1..Len(entry'[d])
    BY EntryElements DEF SInv, Shape, EntryTypes
  <2> QED
    BY <2>1
<1>5. CASE entry'[d] = entry[d] /\ Crash
  BY <1>0, <1>1, <1>5, CrashMoves
<1>6. CASE entry'[d] = entry[d] /\ staged' = staged /\ saved' = saved
  BY <1>1, <1>6
<1>7. ASSUME NEW i \in Ids, Alone(i), NEW k \in Ids, k # i, InIt(k)
      PROVE  d \in staged'[k] \cup saved'[k]
  BY <1>7 DEF Alone
<1>8. ASSUME NEW i \in Ids, NEW s \in Statuses, Ends(i, s)
      PROVE  /\ saved' = saved
             /\ staged' = staged \/ req[i].step = "registered"
             /\ s \in {"failed", "interrupted", "indexed"}
  BY <1>8 DEF Ends
<1>9. ASSUME NEW i \in Ids, Alone(i), entry'[d] = entry[d],
             Waits(i) \/ Register(i) \/ Goes(i) \/ \E s \in Statuses : Ends(i, s),
             (\E s \in Statuses : Ends(i, s)) => d \notin req[i].docs
      PROVE  d \in staged'[entry'[d][j].job] \cup saved'[entry'[d][j].job]
  <2>1. entry'[d][j] = entry[d][j] /\ j \in DOMAIN entry[d] /\ entry[d][j].job \in Ids /\ InIt(entry[d][j].job)
    BY <1>1, <1>9
  <2>2. CASE entry[d][j].job # i
    BY <2>1, <2>2, <1>7, <1>9
  <2>3. CASE entry[d][j].job = i
    <3>1. ~Waits(i) /\ ~Register(i)
      BY <2>1, <2>3, <1>1 DEF Waits, Register
    <3>2. CASE Goes(i)
      BY <3>2, <2>1, <2>3 DEF Goes
    <3>3. ASSUME NEW s \in Statuses, Ends(i, s) PROVE d \in staged'[i] \cup saved'[i]
      <4>1. req[i].step # "registered"
        BY <3>3, <2>1, <2>3, <1>9 DEF Fresh
      <4> QED
        BY <4>1, <3>3, <2>1, <2>3, <1>8
    <3> QED
      BY <3>1, <3>2, <3>3, <2>1, <2>3, <1>9
  <2> QED
    BY <2>2, <2>3
<1>10. ASSUME NEW i \in Ids, Replaced(d, i)
       PROVE  d \in staged'[entry'[d][j].job] \cup saved'[entry'[d][j].job]
  <2>1. staged' = staged /\ saved' = saved /\ req[i].step = "checked" /\ d \in req[i].docs
    BY <1>0, <1>10, RegisterSteps DEF Replaced, disk
  <2>2. CASE j = 1
    <3>1. d \in staged[i]
      BY <2>1, <1>0 DEF Formed, Pending
    <3> QED
      BY <3>1, <2>1, <2>2, <1>10 DEF Replaced
  <2>3. CASE j = 2 /\ Len(entry[d]) = 1 /\ entry'[d][2] = entry[d][1]
    BY <2>1, <2>3, <1>1, <1>2
  <2> QED
    BY <2>2, <2>3, <1>4, <1>10 DEF Replaced
<1>11. ASSUME NEW i \in Ids, Alone(i), NEW s \in Statuses, GoesMarked(d, i, s)
       PROVE  d \in staged'[entry'[d][j].job] \cup saved'[entry'[d][j].job]
  <2>1. JobOf(d) = i /\ Len(entry[d]) \in {1, 2} /\ d \in req[i].docs
    BY <1>0, <1>11, MarkHeads DEF GoesMarked, Goes
  <2>2. StatusOf(d) = entry[d][1].status /\ entry[d][1].job = i /\ 1 \in DOMAIN entry[d]
    BY <2>1, <1>0, <1>2, <1>3, EntryHead DEF Shape
  <2>3. StatusOf(d) \in Recoverable
    BY <2>1, <1>11 DEF Heads, GoesMarked, Goes
  <2>4. InIt(i)
    BY <2>2, <2>3, <1>1
  <2>5. d \in staged'[i] \cup saved'[i]
    BY <2>4, <1>11 DEF GoesMarked, Goes
  <2>6. /\ entry'[d][1].job = i /\ Len(entry'[d]) \in {1, 2}
        /\ Len(entry'[d]) = 2 => Len(entry[d]) = 2 /\ entry'[d][2] = entry[d][2]
    BY <2>1, <1>11 DEF GoesMarked, MarkedHead
  <2>7. CASE j = 1
    BY <2>5, <2>6, <2>7
  <2>8. CASE Len(entry[d]) = 2 /\ j = 2 /\ entry'[d][2] = entry[d][2]
    <3>1. entry[d][2].job \in Ids /\ InIt(entry[d][2].job)
      BY <2>8, <1>1, <1>3
    <3> QED
      BY <3>1, <2>5, <2>8, <1>7, <1>11
  <2> QED
    BY <2>6, <2>7, <2>8, <1>4
<1>12. ASSUME NEW i \in Ids, Alone(i), NEW s \in Statuses, EndsMarked(d, i, s)
       PROVE  d \in staged'[entry'[d][j].job] \cup saved'[entry'[d][j].job]
  <2>1. JobOf(d) = i /\ Len(entry[d]) \in {1, 2} /\ d \in req[i].docs
    BY <1>0, <1>12, MarkHeads DEF EndsMarked, Ends
  <2>2. entry[d][1].job = i /\ 1 \in DOMAIN entry[d]
    BY <2>1, <1>0, <1>2, <1>3, EntryHead DEF Shape
  <2>3. CASE Len(entry[d]) = 2 /\ Len(entry'[d]) = 1 /\ entry'[d][1] = entry[d][2]
    <3>1. j = 1 /\ entry[d][2].job \in Ids /\ InIt(entry[d][2].job)
      BY <2>3, <1>1, <1>3, <1>4
    <3>2. entry[d][2].job # i
      BY <2>2, <2>3, <1>0, <1>3 DEF Issued
    <3> QED
      BY <3>1, <3>2, <2>3, <1>7, <1>12
  <2>4. CASE entry'[d] = entry[d] /\ StatusOf(d) \in {"ingested", "indexed"}
    <3>1. req[i].step # "registered"
      BY <2>1, <2>4 DEF Heads, Mine
    <3> QED
      BY <3>1, <2>4, <1>6, <1>8, <1>12 DEF EndsMarked
  <2>5. CASE s \in {"ingested", "indexed"} /\ Len(entry'[d]) = 1 /\ entry'[d][1] = [status |-> s, job |-> i]
    <3>0. s = "indexed"
      BY <2>5, <1>8, <1>12 DEF EndsMarked
    <3>1. entry'[d][j].status = "indexed"
      BY <3>0, <2>5, <1>4
    <3> QED
      BY <3>1 DEF Recoverable, Active
  <2>6. CASE /\ s \notin {"ingested", "indexed"}
             /\ s \in {"failed", "interrupted"} => Len(entry[d]) = 1
             /\ Len(entry'[d]) = Len(entry[d]) /\ entry'[d][1] = [status |-> s, job |-> i]
    <3>1. s \in {"failed", "interrupted"}
      BY <2>6, <1>8, <1>12 DEF EndsMarked
    <3>2. entry'[d][j].status = s
      BY <3>1, <2>6, <1>4
    <3> QED
      BY <3>1, <3>2 DEF Recoverable, Active
  <2> QED
    BY <2>3, <2>4, <2>5, <2>6, <1>12 DEF EndsMarked, MarkedHead
<1> QED
  BY <1>5, <1>6, <1>9, <1>10, <1>11, <1>12, EntryChanges

\* The invariant for the registry.
RInv == SInv /\ Heads /\ Stacked /\ Brought /\ Fresh /\ Filed /\ OnlyAgreed

\* What a token is good for is what its user has agreed to.
LEMMA TokenAgreed ==
    ASSUME Shape, NEW i \in Ids, Register(i)
    PROVE  req'[i].forced \subseteq agreed'[i]
<1> USE DEF Shape, RequestTypes
<1>1. CASE TokenValid(i)
  <2>1. req[i].token \in Grants /\ req[i].token.dups = req[i].found
    BY <1>1 DEF TokenValid, Token
  <2>2. req[i].token # None
    BY <2>1, IntakeNames
  <2>3. req'[i].forced = req[i].found
    BY <1>1 DEF Register, Requests
  <2>4. agreed'[i] = req[i].token.dups
    BY <2>2 DEF Register, DiskTypes
  <2> QED
    BY <2>1, <2>3, <2>4
<1>2. CASE ~TokenValid(i)
  <2>1. req'[i].forced = {}
    BY <1>2 DEF Register, Requests
  <2> QED
    BY <2>1
<1> QED
  BY <1>1, <1>2

\* What recovery takes for a replacement is what the user agreed to: there is an
\* entry behind the one that is on its way, and so its request was forced.
LEMMA AgreedKept ==
    ASSUME "overlap" \notin Incidents
    PROVE  SInv /\ SInv' /\ Heads /\ Stacked /\ Brought /\ OnlyAgreed /\ [Next]_vars => OnlyAgreed'
<1> SUFFICES ASSUME SInv, SInv', Heads, Stacked, Brought, OnlyAgreed, [Next]_vars,
                    NEW k \in Ids, req'[k].step \notin {"free", "ended"}
             PROVE  req'[k].forced \subseteq agreed'[k]
  BY DEF OnlyAgreed, Live
<1>0. Shape
  BY DEF SInv
<1>1. req[k].step \notin {"free", "ended"} => req[k].forced \subseteq agreed[k]
  BY DEF OnlyAgreed, Live
<1>2. CASE Crash
  <2>1. /\ req'[k].forced = {d \in DocsLeft(k) : Len(entry[d]) > 1} /\ agreed' = agreed
    BY <1>0, <1>2, CrashMoves
  <2>2. ASSUME NEW d \in DocsLeft(k), Len(entry[d]) > 1 PROVE d \in agreed[k]
    <3>1. d \in Content /\ JobOf(d) = k
      BY DEF DocsLeft
    <3>2. Len(entry[d]) = 2
      <4>1. Len(entry[d]) \in Nat /\ Len(entry[d]) <= 2
        BY <3>1, <1>0, EntryElements DEF Shape, Stacked
      <4>2. \A n \in Nat : n <= 2 /\ n > 1 => n = 2
        OBVIOUS
      <4> QED
        BY <2>2, <4>1, <4>2, Zenon
    <3>3. req[k].step \in Mine /\ d \in req[k].docs
      BY <3>1, <3>2 DEF Stacked, Brought
    <3>4. d \in req[k].forced
      BY <2>2, <3>3 DEF Heads
    <3> QED
      BY <3>3, <3>4, <1>1 DEF Mine
  <2> QED
    BY <2>1, <2>2
<1>3. CASE UNCHANGED <<req, staged, saved, agreed, entry>>
  BY <1>1, <1>3
<1>4. ASSUME NEW i \in Ids, Alone(i), Waits(i) \/ Register(i) \/ Goes(i) \/ \E s \in Statuses : Ends(i, s)
      PROVE  req'[k].forced \subseteq agreed'[k]
  <2>1. CASE k # i
    BY <2>1, <1>1, <1>4 DEF Alone
  <2>2. CASE k = i /\ Waits(i)
    BY <2>2 DEF Waits
  <2>3. CASE k = i /\ Register(i)
    BY <2>3, <1>0, TokenAgreed
  <2>4. CASE k = i /\ Goes(i)
    BY <2>4, <1>1 DEF Goes, Mine
  <2>5. CASE k = i /\ \E s \in Statuses : Ends(i, s)
    BY <2>5 DEF Ends
  <2> QED
    BY <2>1, <2>2, <2>3, <2>4, <2>5, <1>4
<1> QED
  BY <1>2, <1>3, <1>4, Kinds

\* The invariant holds to begin with, ...
LEMMA RInvInit == Init => RInv
<1> SUFFICES ASSUME Init PROVE Heads /\ Stacked /\ Brought /\ Fresh /\ Filed /\ OnlyAgreed
  BY ShapeInit, FormedInit DEF SInv, RInv
<1>1. \A d \in Content : entry[d] = <<>>
  BY DEF Init
<1>2. \A i \in Ids : req[i] = NoReq /\ req[i].step = "free"
  BY DEF Init, NoReq
<1>3. \A d \in Content : StatusOf(d) = "none" /\ Len(entry[d]) = 0 /\ DOMAIN entry[d] = {}
  <2>1. Len(<<>>) = 0 /\ DOMAIN <<>> = {}
    OBVIOUS
  <2> QED
    BY <1>1, <2>1 DEF StatusOf
<1>4. Heads /\ OnlyAgreed
  BY <1>2 DEF Heads, OnlyAgreed, Live, Mine
<1>5. Stacked /\ Brought
  BY <1>3 DEF Stacked, Brought, Active
<1>6. Fresh /\ Filed
  BY <1>3 DEF Fresh, Filed
<1> QED
  BY <1>4, <1>5, <1>6

\* ... and every step keeps it.
LEMMA RInvKept == "overlap" \notin Incidents => (RInv /\ [Next]_vars => RInv')
BY SInvKept, HeadsKept, StackedKept, BroughtKept, FreshKept, FiledKept, AgreedKept DEF RInv

\* It implies that the files are there.
LEMMA FilesThere == RInv => FilesKept
<1> SUFFICES ASSUME RInv, NEW i \in Ids, NEW d \in req[i].docs,
                    req[i].step \in {"staged", "checked", "registered", "queued", "saved", "ingesting"}
             PROVE  d \in staged[i] \cup saved[i]
  BY DEF FilesKept, Live
<1>0. Shape /\ Formed /\ d \in Content
  BY DEF RInv, SInv, Shape, RequestTypes, Requests
<1>1. CASE req[i].step \in Pending
  BY <1>1, <1>0 DEF Formed
<1>2. CASE req[i].step \in Mine
  <2>1. JobOf(d) = i /\ StatusOf(d) \in Recoverable
    BY <1>2 DEF RInv, Heads
  <2>2. 1 \in DOMAIN entry[d] /\ entry[d][1].status = StatusOf(d) /\ entry[d][1].job = i
    <3>1. Len(entry[d]) \in Nat /\ Len(entry[d]) >= 1 /\ DOMAIN entry[d] = 1..Len(entry[d])
          /\ StatusOf(d) = entry[d][1].status /\ JobOf(d) = entry[d][1].job
      BY <1>0, <2>1, EntryHead DEF Shape
    <3>2. \A n \in Nat : n >= 1 => 1 \in 1..n
      OBVIOUS
    <3> QED
      BY <3>1, <3>2, <2>1, Zenon
  <2> QED
    BY <2>1, <2>2, <1>0 DEF RInv, Filed
<1> QED
  BY <1>1, <1>2 DEF Pending, Mine

\* The state is well-formed and no accepted file is lost, wherever a crash
\* interrupts the move, unless an upload replaces one that has not ended.
THEOREM Sound == ASSUME "overlap" \notin Incidents PROVE Spec => []IntakeSound
<1>1. RInv => IntakeSound
  BY FilesThere, TypesOf DEF RInv, SInv, IntakeSound
<1> QED
  BY <1>1, RInvInit, RInvKept, PTL DEF Spec

\* Only what the user agreed to replace is removed, also by a job that was made
\* again from the registry, with the same exception.
THEOREM Agreement == ASSUME "overlap" \notin Incidents PROVE Spec => []OnlyAgreed
<1>1. RInv => OnlyAgreed
  BY DEF RInv
<1> QED
  BY <1>1, RInvInit, RInvKept, PTL DEF Spec

-----------------------------------------------------------------------------
(* What is behind a status.                                                *)

\* Before it prepares for the replacement a job removes nothing, and then only what it replaces.
Prepares(i) ==
    /\ Goes(i) /\ req[i].step = "ingesting" /\ req'[i].step = "prepared" /\ entry' = entry
    /\ md' = md \ req[i].forced /\ rows' = rows \ req[i].forced

\* No other step removes anything.
LEMMA DiskMoves ==
    ASSUME SInv, SInv', [Next]_vars
    PROVE  \/ md \subseteq md' /\ rows \subseteq rows'
           \/ \E i \in Ids : Alone(i) /\ Prepares(i)
<1>0. Shape
  BY DEF SInv
<1>1. CASE Crash
  BY <1>1 DEF Crash
<1>2. ASSUME NEW i \in Ids, Waits(i) \/ Register(i) \/ \E s \in Statuses : Ends(i, s)
      PROVE  md \subseteq md' /\ rows \subseteq rows'
  BY <1>2 DEF Waits, Register, Ends, disk
<1>3. ASSUME NEW i \in Ids, Goes(i), ~Prepares(i)
      PROVE  md \subseteq md' /\ rows \subseteq rows'
  BY <1>3 DEF Goes, Prepares
<1> QED
  BY <1>1, <1>2, <1>3, Kinds

\* What is there stays there, unless a job is about to replace it.
LEMMA IsKept ==
    ASSUME SInv, SInv', Heads, [Next]_vars, NEW d \in Content, NEW status, Is(d, status),
           \/ entry' # entry
           \/ StatusOf(d) \in {"indexed", "ingested", "queued"}
           \/ \E i \in Ids : req[i].step \in Mine \ {"ingesting"} /\ d \in req[i].docs
    PROVE  Is(d, status)'
<1>1. CASE md \subseteq md' /\ rows \subseteq rows'
  BY <1>1 DEF Is
<1>2. ASSUME NEW i \in Ids, Prepares(i) PROVE Is(d, status)'
  <2>1. req[i].step \in Mine /\ req[i].forced \subseteq req[i].docs
    BY <1>2 DEF Prepares, Mine, SInv, Formed
  <2>2. d \notin req[i].forced
    BY <2>1, <1>2 DEF Heads, Prepares
  <2> QED
    BY <2>2, <1>2 DEF Prepares, Is
<1> QED
  BY <1>1, <1>2, DiskMoves

\* A status stays true: a mark comes after what it says, and one that is put back
\* was true when it was replaced.
LEMMA HeadsAre ==
    ASSUME "overlap" \notin Incidents, "undone" \notin Incidents, RInv, RInv', There, [Next]_vars,
           NEW d \in Content, entry'[d] # <<>>
    PROVE  Is(d, StatusOf(d))'
<1>0. SInv /\ SInv' /\ Shape /\ Formed /\ Heads /\ Stacked /\ Brought
  BY DEF RInv, SInv
<1>1. CASE entry'[d] = entry[d]
  <2>1. StatusOf(d)' = StatusOf(d) /\ Is(d, StatusOf(d))
    BY <1>1 DEF StatusOf, There
  <2>2. CASE StatusOf(d) \in {"indexed", "ingested"}
    <3>1. Is(d, StatusOf(d)) /\ StatusOf(d) \in {"indexed", "ingested", "queued"}
      BY <2>1, <2>2
    <3>2. \A status : Is(d, status) => Is(d, status)'
      BY <3>1, <1>0, IsKept
    <3> QED
      BY <2>1, <3>1, <3>2 DEF Is
  <2>3. CASE StatusOf(d) \notin {"indexed", "ingested"}
    BY <2>1, <2>3 DEF Is
  <2> QED
    BY <2>2, <2>3
<1>2. ASSUME NEW i \in Ids, Replaced(d, i) PROVE Is(d, StatusOf(d))'
  <2>1. StatusOf(d)' = "queued"
    BY <1>2, NewHead DEF Replaced
  <2> QED
    BY <2>1 DEF Is
<1>3. ASSUME NEW i \in Ids, NEW s \in Statuses, GoesMarked(d, i, s) PROVE Is(d, StatusOf(d))'
  <2>1. Len(entry[d]) \in {1, 2}
    BY <1>3, <1>0, MarkHeads DEF GoesMarked, Goes
  <2>2. entry'[d][1] = [status |-> s, job |-> i] /\ Len(entry'[d]) \in {1, 2}
    BY <2>1, <1>3 DEF GoesMarked, MarkedHead
  <2>3. StatusOf(d)' = s
    BY <2>2, NewHead
  <2>4. CASE s \in {"saving_uploads", "ingesting"}
    BY <2>3, <2>4 DEF Is
  <2>5. CASE s = "ingested" /\ req'[i].step = "ingested" /\ req[i].step = "extracted"
    <3>1. md' = md /\ d \in md
      BY <2>5, <1>3 DEF GoesMarked, Goes, There
    <3> QED
      BY <3>1, <2>3, <2>5 DEF Is
  <2> QED
    BY <2>4, <2>5, <1>3 DEF GoesMarked
<1>4. ASSUME NEW i \in Ids, NEW s \in Statuses, EndsMarked(d, i, s) PROVE Is(d, StatusOf(d))'
  <2>0. JobOf(d) = i /\ Len(entry[d]) \in {1, 2} /\ md' = md /\ rows' = rows
    BY <1>4, <1>0, MarkHeads DEF EndsMarked, Ends
  <2>1. CASE /\ Len(entry[d]) = 2 /\ Len(entry'[d]) = 1 /\ entry'[d][1] = entry[d][2]
             /\ s \in {"failed", "interrupted"}
    <3>1. d \in req[i].forced /\ StatusOf(d) \in Active
      BY <2>1, <1>0, <1>4 DEF Heads, Stacked, EndsMarked, Ends
    <3>2. ~req[i].again /\ req[i].step \in Unspoilt
      <4>1. CASE req[i].step = "registered"
        BY <4>1, <1>0 DEF Formed, Unspoilt
      <4>2. CASE Allowed("undone", /\ req[i].forced # {}
                                   /\ req[i].again \/ req[i].step \in {"prepared", "extracted"})
        <5>1. ~req[i].again /\ req[i].step \notin {"prepared", "extracted"}
          BY <4>2, <3>1 DEF Allowed
        <5>2. req[i].step \notin {"ingested", "indexed"} /\ req[i].step \in Mine
          BY <3>1, <1>0, <1>4 DEF Heads, Active, EndsMarked, Ends, Mine
        <5> QED
          BY <5>1, <5>2 DEF Mine, Unspoilt
      <4> QED
        BY <4>1, <4>2, <2>1, <1>4 DEF EndsMarked, Ends
    <3>3. Is(d, entry[d][2].status)
      BY <3>2, <2>0, <2>1 DEF There
    <3>4. StatusOf(d)' = entry[d][2].status
      BY <2>1, NewHead
    <3> QED
      BY <3>3, <3>4, <2>0 DEF Is
  <2>2. CASE entry'[d] = entry[d]
    BY <2>2, <1>1
  <2>3. CASE s \in {"ingested", "indexed"} /\ Len(entry'[d]) = 1 /\ entry'[d][1] = [status |-> s, job |-> i]
    <3>1. s = "indexed" /\ req[i].step = "indexed"
      BY <2>3, <1>4 DEF EndsMarked, Ends
    <3>2. d \in rows
      BY <3>1, <1>4 DEF There, EndsMarked
    <3>3. StatusOf(d)' = "indexed"
      BY <2>3, <3>1, NewHead
    <3> QED
      BY <3>2, <3>3, <2>0 DEF Is
  <2>4. CASE /\ s \notin {"ingested", "indexed"} /\ Len(entry'[d]) = Len(entry[d])
             /\ entry'[d][1] = [status |-> s, job |-> i]
    <3>1. StatusOf(d)' = s
      BY <2>0, <2>4, NewHead
    <3> QED
      BY <3>1, <2>4 DEF Is
  <2> QED
    BY <2>1, <2>2, <2>3, <2>4, <1>4 DEF EndsMarked, MarkedHead
<1> QED
  BY <1>0, <1>1, <1>2, <1>3, <1>4, EntryChanges

\* A status that may be put back stays true until its version is removed.
LEMMA SecondsAre ==
    ASSUME "overlap" \notin Incidents, RInv, RInv', There, [Next]_vars,
           NEW d \in Content, Len(entry'[d]) = 2, NEW k \in Ids, JobOf(d)' = k,
           ~req'[k].again, req'[k].step \in Unspoilt
    PROVE  Is(d, entry[d][2].status)'
<1>0. SInv /\ SInv' /\ Shape /\ Formed /\ Heads /\ Stacked /\ Brought
  BY DEF RInv, SInv
<1>1. ASSUME entry'[d] = entry[d]
      PROVE  /\ JobOf(d) = k /\ StatusOf(d) \in Active /\ req[k].step \in Mine /\ d \in req[k].docs
             /\ (~req[k].again /\ req[k].step \in Unspoilt) => Is(d, entry[d][2].status)
  <2>1. JobOf(d) = k /\ StatusOf(d) \in Active /\ Len(entry[d]) = 2
    BY <1>0, <1>1 DEF JobOf, Stacked
  <2> QED
    BY <2>1, <1>0 DEF Brought, There
<1>2. CASE entry'[d] = entry[d] /\ Crash
  <2>1. d \in DocsLeft(k)
    BY <1>1, <1>2 DEF DocsLeft, Recoverable
  <2> QED
    BY <2>1, <1>0, <1>2, CrashMoves
<1>3. CASE entry'[d] = entry[d] /\ req' = req /\ UNCHANGED <<md, rows>>
  BY <1>1, <1>3 DEF Is
<1>4. ASSUME NEW i \in Ids, Alone(i), entry'[d] = entry[d],
             Waits(i) \/ Register(i) \/ Goes(i) \/ \E s \in Statuses : Ends(i, s),
             (\E s \in Statuses : Ends(i, s)) => d \notin req[i].docs
      PROVE  Is(d, entry[d][2].status)'
  <2>1. CASE k # i
    <3>1. req'[k] = req[k] /\ Is(d, entry[d][2].status)
      BY <2>1, <1>1, <1>4 DEF Alone
    <3>2. CASE Goes(i) /\ d \in req[i].docs
      <4>1. req[i].step \in Mine
        BY <3>2 DEF Goes
      <4>2. JobOf(d) = i
        BY <4>1, <3>2, <1>0 DEF Heads
      <4> QED
        BY <4>2, <2>1, <1>1, <1>4
    <3>3. CASE Goes(i) /\ d \notin req[i].docs
      <4>1. d \notin req[i].forced
        BY <3>3, <1>0 DEF Formed
      <4> QED
        BY <4>1, <3>1, <3>3, <1>4 DEF Goes, Is
    <3>4. CASE Waits(i) \/ Register(i) \/ \E s \in Statuses : Ends(i, s)
      BY <3>1, <3>4, <1>4 DEF Waits, Register, Ends, Is, disk
    <3> QED
      BY <3>2, <3>3, <3>4, <1>4
  <2>2. CASE k = i
    <3>1. ~Waits(i) /\ ~Register(i) /\ Goes(i)
      BY <2>2, <1>1, <1>4 DEF Waits, Register, Mine, Pending
    <3>2. ~req[k].again /\ req[k].step \in Unspoilt /\ UNCHANGED <<md, rows>>
      BY <3>1, <2>2 DEF Goes, Unspoilt
    <3> QED
      BY <3>2, <1>1, <1>4 DEF Is
  <2> QED
    BY <2>1, <2>2
<1>5. ASSUME NEW i \in Ids, Replaced(d, i) PROVE Is(d, entry[d][2].status)'
  <2>1. Len(entry[d]) = 1 /\ entry'[d][2] = entry[d][1]
    BY <1>5 DEF Replaced
  <2>2. Is(d, StatusOf(d)) /\ StatusOf(d) = entry[d][1].status
    BY <2>1, EmptySeq DEF There, StatusOf
  <2>3. UNCHANGED <<md, rows>>
    BY <1>5 DEF Replaced, Register, disk
  <2> QED
    BY <2>1, <2>2, <2>3 DEF Is
<1>6. ASSUME NEW i \in Ids, NEW s \in Statuses, GoesMarked(d, i, s) PROVE Is(d, entry[d][2].status)'
  <2>1. JobOf(d) = i /\ Len(entry[d]) \in {1, 2}
    BY <1>6, <1>0, MarkHeads DEF GoesMarked, Goes
  <2>2. entry'[d][1].job = i /\ Len(entry[d]) = 2 /\ entry'[d][2] = entry[d][2]
    BY <2>1, <1>6 DEF GoesMarked, MarkedHead
  <2>3. k = i
    BY <2>2, NewHead
  <2>4. ~req[k].again /\ req[k].step \in Unspoilt /\ UNCHANGED <<md, rows>>
    BY <2>3, <1>6 DEF GoesMarked, Goes, Unspoilt
  <2>5. Is(d, entry[d][2].status)
    BY <2>1, <2>2, <2>3, <2>4 DEF There
  <2> QED
    BY <2>2, <2>4, <2>5 DEF Is
<1>7. ASSUME NEW i \in Ids, NEW s \in Statuses, EndsMarked(d, i, s) PROVE FALSE
  <2>1. Len(entry[d]) \in {1, 2} /\ s \in {"failed", "interrupted", "indexed"}
    BY <1>7, <1>0, MarkHeads DEF EndsMarked, Ends
  <2>2. CASE entry'[d] = entry[d] /\ StatusOf(d) \in {"ingested", "indexed"}
    BY <2>2, <1>1 DEF Active
  <2> QED
    BY <2>1, <2>2, <1>7 DEF EndsMarked, MarkedHead
<1> QED
  BY <1>0, <1>2, <1>3, <1>4, <1>5, <1>6, <1>7, EntryChanges

\* Between a step and its mark no other job removes what the mark will say: the
\* documents of two jobs differ.
LEMMA Provided ==
    ASSUME RInv, RInv', There, [Next]_vars, NEW k \in Ids
    PROVE  /\ req'[k].step = "extracted" => req'[k].docs \subseteq md'
           /\ req'[k].step = "indexed" => req'[k].docs \subseteq rows'
<1>0. SInv /\ SInv' /\ Shape /\ Formed /\ Heads
  BY DEF RInv, SInv
<1>1. /\ req[k].step = "extracted" => req[k].docs \subseteq md
      /\ req[k].step = "indexed" => req[k].docs \subseteq rows
  BY DEF There
<1>2. CASE Crash
  BY <1>0, <1>2, CrashMoves
<1>3. CASE UNCHANGED <<req, staged, saved, agreed, entry>> /\ UNCHANGED <<md, rows>>
  BY <1>1, <1>3
<1>4. ASSUME NEW i \in Ids, Alone(i), Waits(i) \/ Register(i) \/ Goes(i) \/ \E s \in Statuses : Ends(i, s)
      PROVE  /\ req'[k].step = "extracted" => req'[k].docs \subseteq md'
             /\ req'[k].step = "indexed" => req'[k].docs \subseteq rows'
  <2>1. CASE k # i
    <3>1. req'[k] = req[k]
      BY <2>1, <1>4 DEF Alone
    <3>2. CASE Waits(i) \/ Register(i) \/ \E s \in Statuses : Ends(i, s)
      BY <3>1, <3>2, <1>1 DEF Waits, Register, Ends, disk
    <3>3. CASE Goes(i)
      <4>1. req[k].step \in {"extracted", "indexed"} => req[k].docs \cap req[i].forced = {}
        <5>1. SUFFICES ASSUME req[k].step \in {"extracted", "indexed"},
                              NEW d \in req[k].docs, d \in req[i].docs
                       PROVE  FALSE
          BY <1>0 DEF Formed
        <5>2. JobOf(d) = k
          BY <5>1, <1>0 DEF Heads, Mine
        <5>3. JobOf(d) = i
          BY <5>1, <3>3, <1>0 DEF Heads, Goes
        <5> QED
          BY <5>2, <5>3, <2>1
      <4> QED
        BY <4>1, <3>1, <3>3, <1>1 DEF Goes
    <3> QED
      BY <3>2, <3>3, <1>4
  <2>2. CASE k = i
    <3>1. CASE Waits(i) \/ Register(i) \/ \E s \in Statuses : Ends(i, s)
      BY <2>2, <3>1, <1>0, RegisterSteps DEF Waits, Ends, Pending
    <3>2. CASE Goes(i)
      BY <2>2, <3>2 DEF Goes
    <3> QED
      BY <3>1, <3>2, <1>4
  <2> QED
    BY <2>1, <2>2
<1> QED
  BY <1>0, <1>2, <1>3, <1>4, Kinds

\* Every step keeps it.
LEMMA ThereKept ==
    ASSUME "overlap" \notin Incidents, "undone" \notin Incidents
    PROVE  RInv /\ There /\ [Next]_vars => There'
<1> SUFFICES ASSUME RInv, There, [Next]_vars PROVE There'
  OBVIOUS
<1>0. RInv'
  BY RInvKept
<1>1. \A d \in Content : entry'[d] # <<>> => Is(d, StatusOf(d))'
  BY <1>0, HeadsAre
<1>2. ASSUME NEW d \in Content, Len(entry'[d]) = 2, ~req'[JobOf(d)'].again, req'[JobOf(d)'].step \in Unspoilt
      PROVE  Is(d, entry[d][2].status)'
  <2>1. entry'[d] \in Seq(Entries)
    BY <1>0 DEF RInv, SInv, Shape, EntryTypes
  <2>2. entry'[d][1] \in Entries
    BY <2>1, <1>2, ElementOfSeq
  <2>3. JobOf(d)' \in Ids
    BY <2>2, <1>2, NewHead DEF Entries
  <2> QED
    BY <2>3, <1>0, <1>2, SecondsAre
<1>3. \A i \in Ids : /\ req'[i].step = "extracted" => req'[i].docs \subseteq md'
                     /\ req'[i].step = "indexed" => req'[i].docs \subseteq rows'
  BY <1>0, Provided
<1> QED
  BY <1>1, <1>2, <1>3 DEF There

\* The registry is right about every document, across failures, replacements and
\* crashes, unless an upload replaces one that has not ended, or a replacement
\* stops after the old version was removed.
THEOREM RegistryIsTrue ==
    ASSUME "overlap" \notin Incidents, "undone" \notin Incidents PROVE Spec => []RegistryTrue
<1>1. Init => There
  <2> SUFFICES ASSUME Init PROVE There
    OBVIOUS
  <2>1. Len(<<>>) # 2
    OBVIOUS
  <2>2. /\ \A d \in Content : entry[d] = <<>>
        /\ \A i \in Ids : req[i].step = "free"
    BY DEF Init, NoReq
  <2> QED
    BY <2>1, <2>2 DEF There
<1>2. RInv /\ There => RegistryTrue
  <2> SUFFICES ASSUME RInv, There, NEW d \in Content
               PROVE  /\ StatusOf(d) \in Active => JobOf(d) \in Live
                      /\ StatusOf(d) = "indexed" => d \in rows
                      /\ StatusOf(d) = "ingested" => d \in md
    BY DEF RegistryTrue
  <2>1. EntryTypes
    BY DEF RInv, SInv, Shape
  <2>2. CASE StatusOf(d) \in Active
    <3>1. JobOf(d) \in Ids
      BY <2>1, <2>2, EntryHead DEF Recoverable
    <3> QED
      BY <2>2, <3>1 DEF RInv, Brought, Live, Mine, Active
  <2>3. CASE StatusOf(d) \in {"indexed", "ingested"}
    <3>1. entry[d] # <<>>
      BY <2>3 DEF StatusOf
    <3> QED
      BY <3>1, <2>3 DEF There, Is, Active
  <2> QED
    BY <2>2, <2>3
<1> QED
  BY <1>1, <1>2, RInvInit, RInvKept, ThereKept, PTL DEF Spec
=============================================================================
