------------------------------- MODULE Access -------------------------------
(***************************************************************************)
(* API keys and permission sets: requests that authenticate in steps while *)
(* administrators change the store, in the server and in another process   *)
(* (scripts/manage_api_keys.py), with the server's cache of the file, the  *)
(* two locks of a change, the usage counters and their flush, the rate     *)
(* limit, failing writes and crashes.                                      *)
(*                                                                         *)
(* A secret stands for its hash, its prefix and its record's identity.     *)
(* Labels, dates, expiry and formats are left out. Access implements Keys. *)
(***************************************************************************)
EXTENDS Naturals, FiniteSets, FiniteSetsExt, Functions

CONSTANTS
    Secrets, Names, Admin, User, Powers, None,  \* see Keys
    Policies,     \* the powers that administrators give to a set
    Local,        \* the identity of a client on the server's machine
    Master,       \* the identity of the master token
    Requests,     \* clients, each with one request at a time
    Changes,      \* administrative operations and flushes
    Wanted,       \* the powers that requests need
    Metered,      \* the ones of them whose requests count as usage
    Limit,        \* requests per window and identity
    FirstKeys,    \* the store at the start
    FirstSets,
    Incidents,    \* bound: the coincidences that may happen, see below
    MaxChanges,   \* bound: administrative operations and flushes
    MaxRequests,  \* bound: requests
    MaxCrashes,   \* bound: crashes
    MaxFaults,    \* bound: writes that fail
    MaxWindows    \* bound: requests that leave the rate window

ASSUME AccessBounds ==
    /\ IsFiniteSet(Changes) /\ Limit \in Nat \ {0} /\ MaxChanges \in Nat /\ MaxRequests \in Nat
    /\ MaxCrashes \in Nat /\ MaxFaults \in Nat /\ MaxWindows \in Nat
    /\ Policies \subseteq SUBSET Powers /\ Metered \subseteq Wanted
    /\ {Admin, User} \subseteq Names /\ Wanted \subseteq Powers /\ "admin" \in Powers
    \* unlocked: the registry lock is not free for 30 s and the change goes on without it
    \* unsaved:  a write of the server fails after its cached copy was changed
    \* blind:    the file cannot be read for a moment while a change loads it
    \* reverted: a key is reassigned while it is being rotated
    \* orphan:   a set is dropped while a key is being given to it
    \* moved:    a set gets new powers while a request of a key that left it is handled
ASSUME AccessIncidents ==
    Incidents \subseteq {"unlocked", "unsaved", "blind", "reverted", "orphan", "moved"}
ASSUME AccessStore ==
    /\ FirstKeys \in [Secrets -> [set : Names, active : BOOLEAN] \cup {None}]
    /\ FirstSets \in [Names -> (SUBSET Powers) \cup {None}]
    /\ FirstSets[Admin] # None /\ FirstSets[User] # None
    /\ \A s \in Secrets : FirstKeys[s] # None => FirstSets[FirstKeys[s].set] # None
    /\ Secrets \cap {None, Master, Local} = {} /\ None \notin Changes
    /\ None \notin [set : Names, active : BOOLEAN]
    /\ \A p \in SUBSET Powers : p # None

VARIABLES
    file,      \* durable: .api_keys.json, with the number of times it was written
    cache,     \* the server's parsed copy and the signature it was read under, or None
    lock,      \* the registry file lock: the change that holds it, or None
    change,    \* administrative operations and flushes
    issued,    \* secrets that were generated
    req,       \* requests
    bucket,    \* requests of each identity in the rate window
    pending,   \* usage that is not flushed
    tracked,   \* ghost: requests counted for each key since it was issued or reset
    count      \* the bounded counters

vars == <<file, cache, lock, change, issued, req, bucket, pending, tracked, count>>

Builtin == {Admin, User}
Identities == Secrets \cup {Master}
Procs == {"server", "script"}
Allowed(incident, happens) == happens => incident \in Incidents
Tick(counter, bound) == count[counter] < bound /\ count' = [count EXCEPT ![counter] = @ + 1]

NoUsage == [i \in Identities |-> 0]
Plus(f, g) == [i \in Identities |-> f[i] + g[i]]

-----------------------------------------------------------------------------
(* The store *)

Records == [set : Names, active : BOOLEAN]
Stores == [keys : [Secrets -> Records \cup {None}], sets : [Names -> (SUBSET Powers) \cup {None}],
           usage : [Identities -> Nat]]

ASSUME AccessNone == None \notin Stores

Store(d) == [keys |-> d.keys, sets |-> d.sets, usage |-> d.usage]

\* _normalize: a key whose set does not exist gets the builtin one.
Normalize(d) ==
    [d EXCEPT !.keys = [s \in Secrets |->
        IF d.keys[s] # None /\ d.sets[d.keys[s].set] = None
        THEN [d.keys[s] EXCEPT !.set = User] ELSE d.keys[s]]]

\* _empty: what an unreadable file is taken for.
Empty == [keys |-> [s \in Secrets |-> None], usage |-> NoUsage,
          sets |-> [n \in Names |-> IF n \in Builtin THEN FirstSets[n] ELSE None]]

\* Mutation: the copy is not compared with the file.
FreshAlways == cache # None

\* The copy is good as long as the file has the signature it was read under.
Fresh == cache # None /\ cache.written = file.written

\* _load_raw. Every command of the script is a process without a copy.
View(p) == IF p = "server" /\ Fresh THEN cache.data ELSE Normalize(Store(file))
Reading(p, d) == cache' = IF p = "server" THEN [written |-> file.written, data |-> d] ELSE cache

\* The in-process lock: a change between its load and its save keeps it.
Busy(p) == \E c \in Changes : change[c].step = "taken" /\ change[c].proc = p

-----------------------------------------------------------------------------
(* Changes: read outside the lock, then load, modify and save inside it *)

NoChange == [kind |-> None, proc |-> None, key |-> None, new |-> None, set |-> None,
             policy |-> {}, active |-> FALSE, deltas |-> NoUsage, copy |-> None, step |-> "free"]

Of(p, kind) == [NoChange EXCEPT !.kind = kind, !.proc = p, !.step = "asked"]

Create(p, s, n) == [Of(p, "create") EXCEPT !.new = s, !.set = n]
Status(p, s, active) == [Of(p, "status") EXCEPT !.key = s, !.active = active]
Assign(p, s, n) == [Of(p, "assign") EXCEPT !.key = s, !.set = n]
Rotate(p, s, t, n) == [Of(p, "rotate") EXCEPT !.key = s, !.new = t, !.set = n]
Policy(p, kind, n, q) == [Of(p, kind) EXCEPT !.set = n, !.policy = q]

\* What administrators may ask about keys, with the checks that are made
\* before the lock is taken.
AskedOfKeys(p, d) ==
    LET known == {s \in Secrets : d.keys[s] # None}
        defined == {n \in Names : d.sets[n] # None}
    IN  {Create(p, s, n) : s \in Secrets \ issued, n \in defined}
        \cup {Status(p, s, active) : s \in known, active \in BOOLEAN}
        \cup {Assign(p, s, n) : s \in known, n \in defined}
        \cup {Rotate(p, s, t, d.keys[s].set) : s \in known, t \in Secrets \ issued}
        \cup {[Of(p, "delete") EXCEPT !.key = s] : s \in known}
        \cup {[Of(p, "reset") EXCEPT !.key = s] : s \in {k \in known : p = "script"}}

\* What they may ask about permission sets.
AskedOfSets(p) ==
    {Policy(p, kind, n, q) : kind \in {"define", "redefine"}, n \in Names, q \in Policies}
    \cup {[Of(p, "drop") EXCEPT !.set = n] : n \in Names}

Refused(o) == o.kind \in {"define", "drop"} /\ o.set \in Builtin

\* An administrator asks for a change.
Ask(c, p) ==
    /\ change[c].step = "free" /\ ~Busy(p)
    /\ Tick("changes", MaxChanges)
    /\ p = "script" => \A other \in Changes : change[other].proc # "script"
    /\ \E asked \in AskedOfKeys(p, View(p)) \cup AskedOfSets(p) :
           /\ ~Refused(asked)
           /\ change' = [change EXCEPT ![c] = asked]
           /\ issued' = issued \cup ({asked.new} \ {None})
    /\ Reading(p, View(p))
    /\ UNCHANGED <<file, lock, req, bucket, pending, tracked>>

\* Mutation: the pending counts are not taken out.
FlushKeeping(c) ==
    /\ change[c].step = "free" /\ pending # NoUsage
    /\ Tick("changes", MaxChanges)
    /\ change' = [change EXCEPT ![c] = [NoChange EXCEPT !.kind = "flush", !.proc = "server",
                                                        !.deltas = pending, !.step = "asked"]]
    /\ UNCHANGED <<file, cache, lock, issued, req, bucket, tracked, pending>>

\* UsageTracker.flush: at an interval, by a listing and at shutdown.
Flush(c) ==
    /\ change[c].step = "free" /\ pending # NoUsage
    /\ Tick("changes", MaxChanges)
    /\ change' = [change EXCEPT ![c] = [NoChange EXCEPT !.kind = "flush", !.proc = "server",
                                                        !.deltas = pending, !.step = "asked"]]
    /\ pending' = NoUsage
    /\ UNCHANGED <<file, cache, lock, issued, req, bucket, tracked>>

Record(n) == [set |-> n, active |-> TRUE]
InUse(d, n) == \E s \in Secrets : d.keys[s] # None /\ d.keys[s].set = n

Add(o, d) == [d EXCEPT !.keys[o.new] = Record(o.set), !.usage[o.new] = 0]

\* The record that update merges into.
Update(o, d) ==
    CASE o.kind = "status" -> [d EXCEPT !.keys[o.key].active = o.active]
      [] o.kind = "assign" -> [d EXCEPT !.keys[o.key].set = o.set]
      [] o.kind = "reset"  -> [d EXCEPT !.usage[o.key] = 0]

Delete(o, d) == [d EXCEPT !.keys[o.key] = None, !.usage[o.key] = 0]

\* rotate_stored, with the set's name that rotate_key read before.
RotateStored(o, d) ==
    [d EXCEPT !.keys[o.key] = None, !.usage[o.key] = 0, !.keys[o.new] = Record(o.set)]

\* merge_usage: a key that is gone takes its counts along.
MergeUsage(o, d) ==
    [d EXCEPT !.usage = [i \in Identities |->
        IF i \in Secrets /\ d.keys[i] # None THEN @[i] + o.deltas[i] ELSE @[i]]]

Redefined(o, d) == IF o.set = Admin THEN d ELSE [d EXCEPT !.sets[o.set] = o.policy]

\* What each operation writes, or None when it refuses.
Modified(o, d) ==
    CASE o.kind = "create" -> Add(o, d)
      [] o.kind \in {"status", "assign", "reset"} -> IF d.keys[o.key] = None THEN None ELSE Update(o, d)
      [] o.kind = "delete" -> IF d.keys[o.key] = None THEN None ELSE Delete(o, d)
      [] o.kind = "rotate" -> IF d.keys[o.key] = None THEN None ELSE RotateStored(o, d)
      [] o.kind = "flush" ->
             IF \A s \in Secrets : o.deltas[s] > 0 => d.keys[s] = None THEN None ELSE MergeUsage(o, d)
      [] o.kind = "define" -> IF d.sets[o.set] # None THEN None ELSE Redefined(o, d)
      [] o.kind = "redefine" -> IF d.sets[o.set] = None THEN None ELSE Redefined(o, d)
      [] o.kind = "drop" ->
             IF d.sets[o.set] = None \/ InUse(d, o.set) THEN None ELSE [d EXCEPT !.sets[o.set] = None]

\* _lock_for and _load_raw, for the state d that the change loads.
Take(c, d) ==
    LET o == change[c] IN
    /\ o.step = "asked" /\ ~Busy(o.proc)
    /\ Allowed("unlocked", lock # None)
    /\ Allowed("blind", d # View(o.proc))
    /\ Allowed("reverted", o.kind = "rotate" /\ d.keys[o.key] # None /\ d.keys[o.key].set # o.set)
    /\ Allowed("orphan", o.kind \in {"create", "assign"} /\ d.sets[o.set] = None)
    /\ IF Modified(o, d) = None
       THEN /\ change' = [change EXCEPT ![c] = NoChange]
            /\ UNCHANGED lock
       ELSE /\ change' = [change EXCEPT ![c].copy = Modified(o, d), ![c].step = "taken"]
            /\ lock' = IF lock = None THEN c ELSE lock
    /\ IF d = View(o.proc) THEN Reading(o.proc, d) ELSE cache' = IF o.proc = "server" THEN None ELSE cache
    /\ UNCHANGED <<file, issued, req, bucket, pending, tracked, count>>

\* The locks are released whether or not the write succeeded.
Unlock(c) ==
    /\ change' = [change EXCEPT ![c] = NoChange]
    /\ lock' = IF lock = c THEN None ELSE lock

\* The powers that the file gives to whoever makes a request.
InForce(d, who) ==
    IF who \notin Secrets THEN Powers
    ELSE IF d.keys[who] = None THEN {}
    ELSE IF ~d.keys[who].active THEN {}
    ELSE Normalize(d).sets[Normalize(d).keys[who].set]

\* _save_raw: the file is replaced in one step, and the copy is dropped.
Save(c) ==
    LET o == change[c] IN
    /\ o.step = "taken"
    /\ Allowed("moved", o.kind \in {"define", "redefine"} /\
           \E r \in Requests : req[r].set = o.set /\ req[r].who \in Secrets /\
               (file.keys[req[r].who] = None \/ file.keys[req[r].who] # Record(o.set)))
    /\ file' = [keys |-> o.copy.keys, sets |-> o.copy.sets, usage |-> o.copy.usage,
                written |-> file.written + 1]
    /\ cache' = IF o.proc = "server" THEN None ELSE cache
    /\ req' = [r \in Requests |-> [req[r] EXCEPT !.may = @ \cup InForce(Store(file'), req[r].who)]]
    /\ Unlock(c)
    /\ tracked' = [i \in Identities |->
           IF o.kind = "reset" /\ o.key = i
           THEN tracked[i] - file.usage[i] ELSE tracked[i]]
    /\ UNCHANGED <<issued, bucket, pending, count>>

\* The write fails: the server's copy has been changed in place, and a flush
\* gives its counts back.
SaveFails(c) ==
    LET o == change[c] IN
    /\ o.step = "taken"
    /\ Allowed("unsaved", o.proc = "server")
    /\ Tick("faults", MaxFaults)
    /\ cache' = IF o.proc = "server" THEN [written |-> file.written, data |-> o.copy] ELSE cache
    /\ pending' = Plus(pending, o.deltas)
    /\ UNCHANGED <<file, issued, req, bucket, tracked>>
    /\ Unlock(c)

-----------------------------------------------------------------------------
(* Requests *)

NoReq == [who |-> None, wants |-> None, set |-> None, admin |-> FALSE,
          may |-> {}, step |-> "free"]

\* A request reaches the middleware. A client of this machine is the local
\* identity, and needs no key.
Arrive(r) ==
    /\ req[r].step \in {"free", "served", "ended"}
    /\ Tick("requests", MaxRequests)
    /\ \E who \in issued \cup {Master, Local}, power \in Wanted :
           req' = [req EXCEPT ![r] =
               [who |-> who, wants |-> power,
                set |-> IF who = Local THEN Admin ELSE None, admin |-> who = Local,
                may |-> InForce(Store(file), who),
                step |-> IF who = Local THEN "known" ELSE "arrived"]]
    /\ UNCHANGED <<file, cache, lock, change, issued, bucket, pending, tracked>>

End(r) == req' = [req EXCEPT ![r] = [NoReq EXCEPT !.step = "ended"]]

\* authenticate: the record of the key, which names a set.
LookUp(r) ==
    LET d == View("server")
        who == req[r].who
        found == who = Master \/ (d.keys[who] # None /\ d.keys[who].active)
    IN
    /\ req[r].step = "arrived" /\ ~Busy("server")
    /\ Reading("server", d)
    /\ IF ~found THEN End(r)
       ELSE req' = [req EXCEPT ![r].set = IF who = Master THEN Admin ELSE d.keys[who].set,
                               ![r].step = "found"]
    /\ UNCHANGED <<file, lock, change, issued, bucket, pending, tracked, count>>

\* RateLimiter.check
Room(i) == bucket[i] < Limit

\* The set of the record, then the rate limit, then the usage counter. A request
\* sees what was saved: that a change edits the cached copy in place, and that a
\* thread may look into it between that and the save, is left out.
Authenticate(r) ==
    LET d == View("server")
        who == req[r].who
        named == who = Master \/ d.sets[req[r].set] # None
    IN
    /\ req[r].step = "found" /\ ~Busy("server")
    /\ Reading("server", d)
    /\ IF named /\ Room(who)
       THEN /\ req' = [req EXCEPT ![r].step = "known",
                                  ![r].admin = who = Master \/ "admin" \in d.sets[req[r].set]]
            /\ bucket' = [bucket EXCEPT ![who] = @ + 1]
            /\ pending' = IF req[r].wants \in Metered THEN [pending EXCEPT ![who] = @ + 1] ELSE pending
            /\ tracked' = IF req[r].wants \in Metered THEN [tracked EXCEPT ![who] = @ + 1] ELSE tracked
       ELSE End(r) /\ UNCHANGED <<bucket, pending, tracked>>
    /\ UNCHANGED <<file, lock, change, issued, count>>

\* The endpoint asks what the identity may do: _require_admin goes by the role
\* of the authentication, everything else by the set as it is now.
May(r, d) ==
    \/ req[r].who \notin Secrets
    \/ req[r].wants = "admin" /\ req[r].admin
    \/ req[r].wants # "admin" /\ d.sets[req[r].set] # None /\ req[r].wants \in d.sets[req[r].set]

Serve(r) ==
    /\ req[r].step = "known" /\ ~Busy("server")
    /\ Reading("server", View("server"))
    /\ IF May(r, View("server")) THEN req' = [req EXCEPT ![r].step = "served"] ELSE End(r)
    /\ UNCHANGED <<file, lock, change, issued, bucket, pending, tracked, count>>

\* A request leaves the sliding window.
WindowMoves(i) ==
    /\ bucket[i] > 0
    /\ Tick("windows", MaxWindows)
    /\ bucket' = [bucket EXCEPT ![i] = @ - 1]
    /\ UNCHANGED <<file, cache, lock, change, issued, req, pending, tracked>>

-----------------------------------------------------------------------------
(* Crashes: what is in memory is lost, and the lock is released *)

Crash(p) ==
    /\ Tick("crashes", MaxCrashes)
    /\ LET hit == {c \in Changes : change[c].proc = p} IN
           /\ change' = [c \in Changes |-> IF c \in hit THEN NoChange ELSE change[c]]
           /\ lock' = IF lock \in hit THEN None ELSE lock
    /\ IF p = "server"
       THEN /\ cache' = None
            /\ req' = [r \in Requests |-> IF req[r].step = "free" THEN req[r] ELSE [NoReq EXCEPT !.step = "ended"]]
            /\ bucket' = NoUsage /\ pending' = NoUsage
            /\ tracked' = file.usage
       ELSE UNCHANGED <<cache, req, bucket, pending, tracked>>
    /\ UNCHANGED <<file, issued>>

Init ==
    /\ file = [keys |-> FirstKeys, sets |-> FirstSets, usage |-> NoUsage, written |-> 0]
    /\ cache = None /\ lock = None
    /\ change = [c \in Changes |-> NoChange]
    /\ issued = {s \in Secrets : FirstKeys[s] # None}
    /\ req = [r \in Requests |-> NoReq]
    /\ bucket = NoUsage /\ pending = NoUsage /\ tracked = NoUsage
    /\ count = [changes |-> 0, requests |-> 0, crashes |-> 0, faults |-> 0, windows |-> 0]

Next ==
    \/ \E c \in Changes :
           \/ \E p \in Procs : Ask(c, p)
           \/ Flush(c)
           \/ \E d \in {View(change[c].proc), Empty} : Take(c, d)
           \/ Save(c)
           \/ SaveFails(c)
    \/ \E r \in Requests : Arrive(r) \/ LookUp(r) \/ Authenticate(r) \/ Serve(r)
    \/ \E i \in Identities : WindowMoves(i)
    \/ \E p \in Procs : Crash(p)

Spec == Init /\ [][Next]_vars

-----------------------------------------------------------------------------
(* Properties *)

\* The state is well-formed: no identity has more requests in the rate window
\* than its limit, and whoever holds the file lock is about to write.
TypeOK ==
    /\ \A s \in Secrets : file.keys[s] \in [set : Names, active : BOOLEAN] \cup {None}
    /\ \A n \in Names : file.sets[n] \in (SUBSET Powers) \cup {None}
    /\ file.usage \in [Identities -> Nat] /\ pending \in [Identities -> Nat]
    /\ bucket \in [Identities -> 0..Limit]
    /\ lock \in Changes \cup {None} /\ (lock # None => change[lock].step = "taken")
    /\ \A r \in Requests : req[r].step \in {"free", "arrived", "found", "known", "served", "ended"}

\* What a request was served is something that the file allowed to its key at
\* some moment since the request arrived: a key that was disabled, deleted,
\* rotated or given less before then, here or by the script, gets nothing by
\* an old copy, and no mixture of two states gives more than each of them.
ServedInForce == \A r \in Requests : req[r].step = "served" => req[r].wants \in req[r].may

\* No request is counted twice or forgotten between the counter, a flush and
\* the file, whatever the administrators change meanwhile.
UsageExact ==
    \A s \in Secrets : file.keys[s] # None =>
        tracked[s] = file.usage[s] + pending[s] + SumFunction([c \in Changes |-> change[c].deltas[s]])

\* The state is well-formed, and every request is counted once.
AccessSound == TypeOK /\ UsageExact

\* Changes that are answered with success take effect one by one on the latest
\* file, in whichever process: no lost update, no half rotation, no key whose
\* set was dropped.
K == INSTANCE Keys WITH keys <- file.keys, sets <- file.sets
Serialized == K!Spec
=============================================================================
