------------------------------ MODULE Answering ------------------------------
(***************************************************************************)
(* One chat over the index, from the request to the end of its stream: the *)
(* queries planned and searched in advance, the rounds in which the model  *)
(* calls tools, the labels under which sources are cited, and the answer   *)
(* as it is streamed; beside it another request to the language model, and *)
(* the hosts that both fail over between.                                  *)
(*                                                                         *)
(* Sizes are in units of context. What the prompt holds beside retrieved   *)
(* text (roles, names, the history) is not counted. A search finds any of  *)
(* the chunks that it does not exclude: scores are abstracted, and the     *)
(* index may change between two searches.                                  *)
(***************************************************************************)
EXTENDS Naturals, Sequences, FiniteSets, SequencesExt, FiniteSetsExt, Functions

CONSTANTS
    Chunks,        \* records of the index
    Size(_),       \* the context that a chunk takes
    Urls,          \* web pages
    Budget,        \* _context_token_budget
    MinBlock,      \* MIN_CONTEXT_BLOCK_TOKENS: no text is cut to less than this
    PlannerOn,     \* values of planner_enabled to consider
    MaxRounds,     \* tool_max_rounds
    MaxCalls,      \* tool_max_calls
    Backends,      \* backends to consider: "soclaas", "ollama"
    Hosts,         \* Ollama hosts
    Primary,       \* [ollama].host
    Listed,        \* [ollama].hosts and the local host, in order
    HostEnv,       \* values of OLLAMA_HOST to consider, Unset if it is not set
    Retries,       \* max_lost_health_checks
    Attempts,      \* [llm_api].retries
    Unset,
    Coincidences,  \* bound: the coincidences that may happen, see below
    MaxQueries,    \* bound: planned queries
    MaxAtOnce,     \* bound: tool calls in one response
    MaxParts,      \* bound: events of a streamed answer
    MaxFailures,   \* bound: requests, searches and streams that fail
    MaxSwitches    \* bound: hosts that come or go

ASSUME AnsweringBounds ==
    /\ {Budget, MaxQueries, MaxAtOnce, MaxParts, MaxFailures, MaxSwitches} \subseteq Nat
    /\ {MinBlock, MaxRounds, MaxCalls, Retries, Attempts} \subseteq Nat \ {0}
    /\ \A c \in Chunks : Size(c) \in Nat \ {0}
    /\ IsFiniteSet(Chunks) /\ IsFiniteSet(Urls)
ASSUME AnsweringHosts ==
    /\ PlannerOn \subseteq BOOLEAN
    /\ Primary \in Hosts /\ Listed \in Seq(Hosts) /\ HostEnv \subseteq Hosts \cup {Unset}
    /\ Backends \subseteq {"soclaas", "ollama"}
ASSUME AnsweringUnset == Unset # "done" /\ Unset \notin Hosts
    \* sameid: a response gives two of its tool calls the same id
ASSUME AnsweringIncidents == Coincidences \subseteq {"sameid"}

VARIABLES
    chat,      \* the chat's generator
    msgs,      \* the messages of its prompt, after the question
    cites,     \* CitationRegistry: the sources of each kind, in the order of their labels
    sent,      \* what the browser has of the stream
    llm,       \* each client's request to the language model
    host,      \* which hosts are up, OLLAMA_HOST and _ACTIVE_OLLAMA_HOST
    search,    \* each client's search for a host that is up
    backend,   \* active_backend
    queries,   \* active_query_count of the job queue
    tally      \* the bounded counters

prompt == <<msgs, cites>>
net == <<host, backend, search>>
chatVars == <<chat, prompt, sent, llm, net, queries, tally>>

Clients == {"chat", "followup"}
Tools == {"local", "web", ""}

Tally(counter, bound) == tally[counter] < bound /\ tally' = [tally EXCEPT ![counter] = @ + 1]

-----------------------------------------------------------------------------
(* The prompt: sources, their labels, and the room that they leave *)

\* The results of tool calls, by their places among the messages.
Results == {i \in DOMAIN msgs : msgs[i].role = "tool"}

Sizes(blocks) == SumFunction([k \in DOMAIN blocks |-> blocks[k].size])
Used == SumFunction([i \in DOMAIN msgs |-> IF i \in Results THEN Sizes(msgs[i].shown) ELSE 0])

\* _tool_result_token_budget.
RoomLeft == IF Used < Budget THEN Budget - Used ELSE 0

\* preview_local, preview_web: the label that a source has, or would get.
LabelOf(sources, item) ==
    IF \E i \in DOMAIN sources : sources[i] = item
    THEN CHOOSE i \in DOMAIN sources : sources[i] = item
    ELSE Len(sources) + 1

\* _fit_text_field_to_json_budget: whole, cut, or not at all.
Fitted(size, room) ==
    IF size <= room THEN size ELSE IF room >= MinBlock THEN room ELSE 0

\* What one item of a result adds to it: the first that does not fit, after one that
\* did, is the last looked at. Only what fitted is added to the registry.
Added(result, kind, item, size) ==
    LET n == LabelOf(result.sources, item)
        s == Fitted(size, result.room)
    IN  IF result.full THEN result
        ELSE IF s = 0 THEN [result EXCEPT !.full = result.blocks # <<>>]
        ELSE [blocks |-> Append(result.blocks,
                              [kind |-> kind, label |-> n, item |-> item, size |-> s]),
              sources |-> IF n > Len(result.sources) THEN Append(result.sources, item)
                          ELSE result.sources,
              room |-> result.room - s,
              full |-> result.room = s]

\* The blocks of a result, and the registry after it.
Shown(kind, items, size) ==
    LET result[n \in 0..Len(items)] ==
            IF n = 0 THEN [blocks |-> <<>>, sources |-> cites[kind], room |-> RoomLeft,
                           full |-> RoomLeft = 0]
            ELSE Added(result[n - 1], kind, items[n], size[items[n]])
    IN  result[Len(items)]

Asks(calls) == [role |-> "assistant", calls |-> calls]
\* "of" is the call that the result is of: no message has it.
Result(name, blocks, of) ==
    [role |-> "tool", name |-> IF name = "" THEN "unknown" ELSE name, shown |-> blocks, of |-> of]
LocalCall == [name |-> "local", id |-> Unset]

\* The next call to answer, by its message and its place there.
CallAt == LET at == CHOOSE i \in DOMAIN msgs :
                        /\ msgs[i].role = "assistant"
                        /\ \A j \in i + 1 .. Len(msgs) : msgs[j].role = "tool"
          IN  <<at, Len(msgs) - at + 1>>

\* Mutation: only what the model asks to exclude is excluded.
ExcludedAsked == {}

\* What was cited is not retrieved again.
Excluded == ToSet(cites.local)

\* The rankings of what was found, by vector, words, trust and category.
Orders(set) == {s \in [1..Cardinality(set) -> set] : IsInjective(s)}

\* The result of a local search is appended, and the browser gets the sources.
AppendLocal(before, of, found) ==
    \E order \in Orders(found) :
        LET r == Shown("local", order, [c \in Chunks |-> Size(c)]) IN
        /\ cites' = [cites EXCEPT !.local = r.sources]
        /\ msgs' = before \o <<Result("local", r.blocks, of)>>
        /\ sent' = [sent EXCEPT !.sources = [local |-> Len(r.sources), web |-> Len(cites.web)]]

-----------------------------------------------------------------------------
(* Requests to the language model *)

NoRequest == [state |-> "none", tries |-> 0, checks |-> 0, parts |-> 0]
Asking(c) == llm[c].state = "asking"

\* _ollama_host
Host == IF host.env # Unset THEN host.env
        ELSE IF host.active # Unset THEN host.active ELSE Primary

\* Mutation: only the host in use is probed.
CandidatesNow == <<Host>>

\* _get_ollama_candidate_hosts
Candidates == <<IF host.env # Unset THEN host.env ELSE Primary>> \o Listed

\* What a search goes by: the hosts as they were listed when it began, those asked in
\* this round, and, for the property alone, those up ever since the round's first probe.
NoSearch == [list |-> <<>>, asked |-> {}, steady |-> {}]
Round(list) == [list |-> list, asked |-> {}, steady |-> host.up]
SearchBegins(c) == search' = [search EXCEPT ![c] = Round(Candidates)]

\* The first host of the list that was not asked in this round.
NextHost(s) ==
    LET left == {i \in DOMAIN s.list : s.list[i] \notin s.asked}
    IN  s.list[CHOOSE i \in left : \A j \in left : i <= j]

Reachable == backend = "ollama" => Host \in host.up

\* Mutation: a query that fails is not finished.
ReleasedIfDone(how) == IF how # "error" /\ queries > 0 THEN queries - 1 ELSE queries

\* finish_query, in a finally clause.
Released(how) == IF queries > 0 THEN queries - 1 ELSE 0

\* The generator is over.
Ends(how) ==
    /\ chat' = [chat EXCEPT !.phase = "ended"]
    /\ sent' = [sent EXCEPT !.end = how]
    /\ queries' = Released(how)

\* An exception: planning goes on with the question alone, the chat ends with an
\* error, a follow-up request is answered with 502.
Fails(c) ==
    /\ llm' = [llm EXCEPT ![c] = NoRequest]
    /\ IF c = "followup"
       THEN queries' = Released("error") /\ UNCHANGED <<chat, sent>>
       ELSE IF chat.phase = "planning"
            THEN /\ chat' = [chat EXCEPT !.phase = "prefetch", !.left = 1]
                 /\ UNCHANGED <<sent, queries>>
            ELSE Ends("error")

\* The connection is lost or times out before anything came.
Lost(c) ==
    /\ Asking(c)
    /\ IF Reachable THEN Tally("faults", MaxFailures) ELSE UNCHANGED tally
    /\ IF backend = "ollama"
       THEN /\ llm' = [llm EXCEPT ![c] = [@ EXCEPT !.state = "recovering", !.checks = 0]]
            /\ SearchBegins(c)
            /\ UNCHANGED <<chat, sent, queries>>
       ELSE /\ UNCHANGED search
            /\ IF llm[c].tries + 1 < Attempts
               THEN /\ llm' = [llm EXCEPT ![c].tries = @ + 1]
                    /\ UNCHANGED <<chat, sent, queries>>
               ELSE Fails(c)
    /\ UNCHANGED <<prompt, host, backend>>

\* An HTTP error of Ollama is not retried, nor one of SoCLAaS that will not pass; its
\* transient ones (_is_transient: 429, 5xx) are retried: they are a Lost.
HttpError(c) ==
    /\ Asking(c) /\ Reachable
    /\ Tally("faults", MaxFailures)
    /\ Fails(c)
    /\ UNCHANGED <<prompt, net>>

\* One probe of _wait_for_ollama_recovery: hosts are asked one after another, while they
\* come and go. The first that answers is what both clients use from now on, and the
\* request is retried; after the last of a round the next one begins, or it is given up.
Probe(c) ==
    LET h == NextHost(search[c])
        asked == search[c].asked \cup {h}
        roundOver == asked = ToSet(search[c].list)
    IN
    /\ llm[c].state = "recovering"
    /\ \/ /\ h \in host.up
          /\ host' = [host EXCEPT !.active = h, !.env = IF @ # Unset THEN h ELSE Unset]
          /\ search' = [search EXCEPT ![c] = NoSearch]
          /\ IF llm[c].tries < Retries
             THEN /\ llm' = [llm EXCEPT ![c] = [@ EXCEPT !.state = "asking",
                                                         !.tries = llm[c].tries + 1]]
                  /\ UNCHANGED <<chat, sent, queries>>
             ELSE Fails(c)
       \/ /\ h \notin host.up /\ ~roundOver
          /\ search' = [search EXCEPT ![c].asked = asked]
          /\ UNCHANGED <<host, llm, chat, sent, queries>>
       \/ /\ h \notin host.up /\ roundOver /\ llm[c].checks + 1 < Retries
          /\ search' = [search EXCEPT ![c] = Round(search[c].list)]
          /\ llm' = [llm EXCEPT ![c].checks = @ + 1]
          /\ UNCHANGED <<host, chat, sent, queries>>
       \/ /\ h \notin host.up /\ roundOver /\ llm[c].checks + 1 >= Retries
          /\ search' = [search EXCEPT ![c] = NoSearch]
          /\ Fails(c)
          /\ UNCHANGED host
    /\ UNCHANGED <<prompt, backend, tally>>

\* chat_followups; only beside a request of the chat: there is nothing else that
\* they share.
Followup ==
    /\ llm["followup"].state = "none" /\ llm["chat"].state # "none"
    /\ Tally("followups", 1)
    /\ llm' = [llm EXCEPT !["followup"].state = "asking"]
    /\ queries' = queries + 1
    /\ UNCHANGED <<chat, prompt, sent, net>>

FollowupAnswered ==
    /\ Asking("followup") /\ Reachable
    /\ llm' = [llm EXCEPT !["followup"] = NoRequest]
    /\ queries' = Released("done")
    /\ UNCHANGED <<chat, prompt, sent, net, tally>>

-----------------------------------------------------------------------------
(* The chat *)

At(phase) == chat.phase = phase /\ llm["chat"].state = "none"

\* chat_stream: the handler, then the first step of the generator.
Request ==
    /\ At("idle")
    /\ chat' = [chat EXCEPT !.phase = "accepted"]
    /\ UNCHANGED <<prompt, sent, llm, net, queries, tally>>

Start ==
    /\ At("accepted")
    /\ \E stocked \in BOOLEAN, planner \in PlannerOn :
           chat' = [chat EXCEPT !.stocked = stocked,
                                !.phase = IF planner /\ stocked THEN "planning" ELSE "round"]
    /\ queries' = queries + 1
    /\ UNCHANGED <<prompt, sent, llm, net, tally>>

AskModel ==
    /\ At("planning") \/ (At("round") /\ chat.round < MaxRounds) \/ At("answer")
    /\ llm' = [llm EXCEPT !["chat"].state = "asking"]
    /\ UNCHANGED <<chat, prompt, sent, net, queries, tally>>

Answered(phase) ==
    /\ chat.phase = phase /\ Asking("chat") /\ Reachable
    /\ llm' = [llm EXCEPT !["chat"] = NoRequest]

\* generate_search_queries
Planned ==
    /\ Answered("planning")
    /\ \E n \in 1..MaxQueries : chat' = [chat EXCEPT !.phase = "prefetch", !.left = n]
    /\ UNCHANGED <<prompt, sent, net, queries, tally>>

\* The union of the selected categories' stores, as the engine found it at first.
InIndex == IF chat.stocked THEN Chunks ELSE {}

\* What a search may find: what is above the cutoff and not excluded.
Retrieved(exclude) == SUBSET (InIndex \ exclude)

\* _eager_local_tool_call: one planned query, and then the result of them all.
Prefetch ==
    /\ At("prefetch") /\ chat.left > 0
    /\ \E found \in Retrieved(chat.hits) :
           chat' = [chat EXCEPT !.left = @ - 1, !.hits = @ \cup found]
    /\ UNCHANGED <<prompt, sent, llm, net, queries, tally>>

Prefetched ==
    /\ At("prefetch") /\ chat.left = 0
    /\ AppendLocal(Append(msgs, Asks(<<LocalCall>>)), <<Len(msgs) + 1, 1>>, chat.hits)
    /\ chat' = [chat EXCEPT !.phase = "round", !.used = 1, !.searched = TRUE, !.hits = {}]
    /\ UNCHANGED <<llm, net, queries, tally>>

\* The response of a round: tool calls, or none.
Responds ==
    /\ Answered("round")
    /\ \E n \in 0..MaxAtOnce, same \in BOOLEAN : \E names \in [1..n -> Tools] :
           LET calls == [i \in 1..n |-> [name |-> names[i], id |-> IF same THEN "same" ELSE Unset]] IN
           /\ same => n > 1 /\ "sameid" \in Coincidences
           /\ chat' = [chat EXCEPT !.todo = names,
                           !.phase = IF n > 0 THEN "calls"
                                     ELSE IF chat.searched THEN "closing" ELSE "forced"]
           /\ msgs' = IF n > 0 THEN Append(msgs, Asks(calls)) ELSE msgs
    /\ UNCHANGED <<cites, sent, net, queries, tally>>

\* Mutation: a call that is skipped gets no result.
SkippedUnanswered(name) == msgs
Skipped(name) == Append(msgs, Result(name, <<>>, CallAt))

Skip ==
    /\ At("calls") /\ chat.todo # <<>> /\ chat.used >= MaxCalls
    /\ msgs' = Skipped(Head(chat.todo))
    /\ chat' = [chat EXCEPT !.todo = Tail(@)]
    /\ UNCHANGED <<cites, sent, llm, net, queries, tally>>

Runs(name) ==
    /\ At("calls") /\ chat.todo # <<>> /\ chat.used < MaxCalls
    /\ Head(chat.todo) = name
    /\ chat' = [chat EXCEPT !.todo = Tail(@), !.used = @ + 1,
                            !.searched = @ \/ name = "local"]

RunLocal ==
    /\ Runs("local")
    /\ \E found \in Retrieved(Excluded) : AppendLocal(msgs, CallAt, found)
    /\ UNCHANGED <<llm, net, queries, tally>>

\* web_search_duckduckgo_lite: different pages, or none and an error.
Pages == UNION {Orders(found) : found \in SUBSET Urls}

RunWeb ==
    /\ Runs("web")
    /\ \E pages \in Pages :
           LET r == Shown("web", pages, [u \in Urls |-> 1]) IN
           /\ cites' = [cites EXCEPT !.web = r.sources]
           /\ msgs' = Append(msgs, Result("web", r.blocks, CallAt))
           /\ sent' = [sent EXCEPT !.sources = [local |-> Len(cites.local), web |-> Len(r.sources)]]
    /\ UNCHANGED <<llm, net, queries, tally>>

RunUnknown ==
    /\ Runs("")
    /\ msgs' = Append(msgs, Result("", <<>>, CallAt))
    /\ sent' = [sent EXCEPT !.sources = [local |-> Len(cites.local), web |-> Len(cites.web)]]
    /\ UNCHANGED <<cites, llm, net, queries, tally>>

RoundOver ==
    /\ At("calls") /\ chat.todo = <<>>
    /\ chat' = IF chat.used >= MaxCalls THEN [chat EXCEPT !.phase = "closing"]
               ELSE [chat EXCEPT !.phase = "round", !.round = @ + 1]
    /\ UNCHANGED <<prompt, sent, llm, net, queries, tally>>

OutOfRounds ==
    /\ At("round") /\ chat.round >= MaxRounds
    /\ chat' = [chat EXCEPT !.phase = "closing"]
    /\ UNCHANGED <<prompt, sent, llm, net, queries, tally>>

\* _forced_local_tool_call: after a response without calls, and after the rounds.
Forced ==
    /\ At("forced") \/ At("closing")
    /\ ~chat.searched
    /\ \E found \in Retrieved(Excluded) :
           AppendLocal(Append(msgs, Asks(<<LocalCall>>)), <<Len(msgs) + 1, 1>>, found)
    /\ chat' = [chat EXCEPT !.searched = TRUE,
                    !.used = IF chat.phase = "forced" THEN @ + 1 ELSE @,
                    !.round = IF chat.phase = "forced" THEN @ + 1 ELSE @,
                    !.phase = IF chat.phase = "forced" /\ Last(msgs').shown # <<>>
                              THEN "round" ELSE "closing"]
    /\ UNCHANGED <<llm, net, queries, tally>>

\* The query's vector, the index or its dimension fails a search.
SearchFails ==
    /\ \/ At("prefetch") /\ chat.left > 0
       \/ At("calls") /\ chat.todo # <<>> /\ chat.used < MaxCalls /\ Head(chat.todo) = "local"
       \/ (At("forced") \/ At("closing")) /\ ~chat.searched
    /\ chat.stocked
    /\ Tally("faults", MaxFailures)
    /\ Ends("error")
    /\ UNCHANGED <<prompt, llm, net>>

Closes ==
    /\ At("closing") /\ chat.searched
    /\ msgs' = Append(msgs, [role |-> "user"])
    /\ chat' = [chat EXCEPT !.phase = "answer"]
    /\ UNCHANGED <<cites, sent, llm, net, queries, tally>>

-----------------------------------------------------------------------------
(* The stream of the answer *)

Streaming == llm["chat"].state = "streaming"

StreamOpens ==
    /\ chat.phase = "answer" /\ Asking("chat") /\ Reachable
    /\ llm' = [llm EXCEPT !["chat"].state = "streaming"]
    /\ UNCHANGED <<chat, prompt, sent, net, queries, tally>>

\* An event of the stream. What may begin a think tag is held back until the next.
Part ==
    /\ Streaming /\ llm["chat"].parts < MaxParts
    /\ \E held \in BOOLEAN :
           LET part == <<[try |-> llm["chat"].tries, part |-> llm["chat"].parts + 1]>> IN
           /\ chat' = [chat EXCEPT !.carry = IF held THEN part ELSE <<>>]
           /\ sent' = [sent EXCEPT !.answer = @ \o chat.carry \o (IF held THEN <<>> ELSE part)]
    /\ llm' = [llm EXCEPT !["chat"].parts = @ + 1]
    /\ UNCHANGED <<prompt, net, queries, tally>>

\* Mutation: a stream that is lost is begun again, whatever came of it.
ResumableAlways == backend = "ollama"

\* Before any event the Ollama client recovers; an answer never restarts.
Resumable == backend = "ollama" /\ llm["chat"].parts = 0

Drops ==
    /\ Streaming
    /\ IF Reachable THEN Tally("faults", MaxFailures) ELSE UNCHANGED tally
    /\ IF Resumable
       THEN /\ llm' = [llm EXCEPT !["chat"] = [@ EXCEPT !.state = "recovering", !.checks = 0,
                                                        !.parts = 0]]
            /\ SearchBegins("chat")
            /\ UNCHANGED <<chat, sent, queries>>
       ELSE Fails("chat") /\ UNCHANGED search
    /\ UNCHANGED <<prompt, host, backend>>

\* The end of the stream: what is held back is sent. Without an event it is an error.
\* The reader of SoCLAaS takes any end of its stream for this one, with [DONE] or
\* without, and passes over events that are errors or cannot be read.
Finishes ==
    /\ Streaming
    /\ llm' = [llm EXCEPT !["chat"] = NoRequest]
    /\ chat' = [chat EXCEPT !.phase = "ended", !.carry = <<>>, !.left = llm["chat"].parts]
    /\ sent' = [sent EXCEPT !.answer = @ \o chat.carry,
                            !.end = IF llm["chat"].parts = 0 THEN "error" ELSE "done"]
    /\ queries' = Released("done")
    /\ UNCHANGED <<prompt, net, tally>>

-----------------------------------------------------------------------------
(* The browser and the hosts *)

\* The browser goes: the generator is closed at the event that it yields next, or
\* never begun.
Disconnect ==
    IF At("accepted")
    THEN /\ chat' = [chat EXCEPT !.phase = "ended"]
         /\ sent' = [sent EXCEPT !.end = "gone"]
         /\ UNCHANGED <<prompt, llm, net, queries, tally>>
    ELSE /\ Streaming \/ \E phase \in {"planning", "round", "calls", "forced"} : At(phase)
         /\ Ends("gone")
         /\ llm' = [llm EXCEPT !["chat"] = NoRequest]
         /\ UNCHANGED <<prompt, net, tally>>

\* Only while there is a request: before one it makes no difference.
Switch(h) ==
    /\ backend = "ollama" /\ \E c \in Clients : llm[c].state # "none"
    /\ Tally("switches", MaxSwitches)
    /\ host' = [host EXCEPT !.up = SymDiff(@, {h})]
    /\ search' = [c \in Clients |->
           [search[c] EXCEPT !.steady = IF llm[c].state = "recovering" /\ search[c].asked = {}
                                        THEN host'.up ELSE @ \cap host'.up]]
    /\ UNCHANGED <<chat, prompt, sent, llm, backend, queries>>

\* The hosts of the configuration: OLLAMA_HOST stands for the primary one when it is set.
Configured == ToSet(Listed) \cup (IF host.env = Unset THEN {Primary} ELSE {})

ChatInit ==
    /\ chat = [phase |-> "idle", stocked |-> FALSE, round |-> 0, used |-> 0, searched |-> FALSE,
               left |-> 0, hits |-> {}, todo |-> <<>>, carry |-> <<>>]
    /\ msgs = <<>> /\ cites = [local |-> <<>>, web |-> <<>>]
    /\ sent = [sources |-> [local |-> 0, web |-> 0], answer |-> <<>>, end |-> Unset]
    /\ llm = [c \in Clients |-> NoRequest]
    /\ \E env \in HostEnv : host = [up |-> Hosts, env |-> env, active |-> Unset]
    /\ search = [c \in Clients |-> NoSearch]
    /\ backend \in Backends
    /\ queries = 0
    /\ tally = [faults |-> 0, switches |-> 0, followups |-> 0]

Generator ==
    \/ Start \/ AskModel \/ Planned \/ Prefetch \/ Prefetched \/ Responds
    \/ Skip \/ RunLocal \/ RunWeb \/ RunUnknown \/ RoundOver \/ OutOfRounds \/ Forced \/ Closes
    \/ StreamOpens \/ Finishes

ChatNext ==
    \/ Request \/ Generator \/ SearchFails \/ Part \/ Drops \/ Disconnect
    \/ Followup \/ FollowupAnswered
    \/ \E c \in Clients : Lost(c) \/ HttpError(c) \/ Probe(c)
    \/ \E h \in Hosts : Switch(h)

\* The threads of the server go on, every request has a finite timeout, and a
\* stream comes to its end.
Fairness ==
    /\ WF_chatVars(Generator \/ Drops)
    /\ WF_chatVars(FollowupAnswered)
    /\ \A c \in Clients : WF_chatVars(Lost(c)) /\ WF_chatVars(Probe(c))

ChatSpec == ChatInit /\ [][ChatNext]_chatVars /\ Fairness

-----------------------------------------------------------------------------
(* Properties *)

\* The blocks of the prompt: the k-th of the i-th message.
Places == UNION {{<<i, k>> : k \in DOMAIN msgs[i].shown} : i \in Results}
Block(p) == msgs[p[1]].shown[p[2]]

\* The counters and the pieces of the state stay within their ranges.
ChatTypeOK ==
    /\ cites.local \in Seq(Chunks) /\ cites.web \in Seq(Urls)
    /\ chat.used \in 0 .. MaxCalls + 1 /\ chat.round \in 0 .. MaxRounds + 1
    /\ queries \in 0..2 /\ host.up \subseteq Hosts
    /\ \A c \in Clients : llm[c].tries <= IF backend = "ollama" THEN Retries ELSE Attempts

\* A label that the model reads in the prompt denotes the source that the
\* registry has under it, for good, and no source has two labels; by the time the
\* model is asked again the browser has every source that it could cite.
LabelsAgree ==
    /\ \A i, j \in DOMAIN cites.local : cites.local[i] = cites.local[j] => i = j
    /\ \A i, j \in DOMAIN cites.web : cites.web[i] = cites.web[j] => i = j
    /\ \A p \in Places :
           LET b == Block(p) IN
           /\ b.label \in DOMAIN cites[b.kind] /\ cites[b.kind][b.label] = b.item
           /\ b.label <= sent.sources[b.kind]

\* Rounds, planned queries and forced searches never put a chunk into the prompt
\* twice.
ShownOnce ==
    \A p, q \in Places :
        Block(p).kind = "local" /\ Block(q).kind = "local" /\ Block(p).item = Block(q).item => p = q

\* What all the results of a chat hold together fits the context budget.
WithinBudget == Used <= Budget

ContextSound == ChatTypeOK /\ LabelsAgree /\ ShownOnce /\ WithinBudget

\* The id of a call, by its place: minted from the place unless the model gave one.
IdOf(call) ==
    LET c == msgs[call[1]].calls[call[2]] IN IF c.id = Unset THEN call ELSE <<c.id>>

Before(p, q) == p[1] < q[1] \/ (p[1] = q[1] /\ p[2] < q[2])
Earliest(calls) == CHOOSE p \in calls : \A q \in calls : p = q \/ Before(p, q)

\* What the next message does to the calls that wait for a result and to the results
\* with the calls that they are taken for: by their name if a call has it, else the first.
Paired(state, i) ==
    LET m == msgs[i]
        named == {p \in state.pending : msgs[p[1]].calls[p[2]].name = m.name}
        call == Earliest(IF named # {} THEN named ELSE state.pending)
    IN  IF m.role = "assistant"
        THEN [state EXCEPT !.pending = @ \cup {<<i, k>> : k \in DOMAIN m.calls}]
        ELSE IF m.role = "tool" /\ state.pending # {}
        THEN [pending |-> {p \in state.pending : IdOf(p) # IdOf(call)},
              pairs |-> state.pairs \cup {<<i, call>>}]
        ELSE state

\* _normalize_openai_tool_messages
Normalized ==
    LET state[n \in 0..Len(msgs)] ==
            IF n = 0 THEN [pending |-> {}, pairs |-> {}] ELSE Paired(state[n - 1], n)
    IN  state[Len(msgs)]

\* Whenever the model is asked, each of its earlier tool calls has one result, and
\* an OpenAI-compatible backend is told it of the call that it is the result of.
CallsAnswered ==
    llm["chat"].state # "none" /\ chat.phase \in {"round", "answer"} =>
        /\ Normalized.pending = {}
        /\ Normalized.pairs = {<<i, msgs[i].of>> : i \in Results}
        /\ \A i, j \in Results : msgs[i].of = msgs[j].of => i = j

\* The browser reads one attempt of the answer from its beginning, without a gap,
\* whatever was lost and retried; a stream that is done has sent all the events that
\* came; and nothing of an answer is sent before a local search is in its prompt.
AnswerWhole ==
    /\ \A i \in DOMAIN sent.answer :
           sent.answer[i].part = i /\ sent.answer[i].try = sent.answer[1].try
    /\ sent.end = "done" => Len(sent.answer) = chat.left
    /\ sent.answer # <<>> => \E i \in Results : msgs[i].name = "local"

\* A request is given up as lost only when no host of the configuration has been up
\* throughout the last round of probes, whoever else failed over in the meantime and
\* however the hosts came and went between two of its probes.
GivenUpDown ==
    [][\A c \in Clients :
           llm[c].state = "recovering" /\ llm'[c].state = "none" /\ llm[c].tries < Retries =>
               search[c].steady \cap Configured = {}]_chatVars

\* Every chat ends, and leaves no query behind that index jobs would wait for.
ChatEnds == (chat.phase = "accepted") ~> (chat.phase = "ended" /\ queries = 0)
=============================================================================
